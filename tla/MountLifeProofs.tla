--------------------------- MODULE MountLifeProofs ---------------------------
(***************************************************************************)
(* Nothing runs on a closed store, and types are kept, for any number of    *)
(* commands, daemons, mounts, handlers and loops, and whether or not a      *)
(* command gives up waiting for a daemon; and a daemon that serves can be   *)
(* found, for one command at a time that does not give up.                  *)
(***************************************************************************)
EXTENDS MountLife, TLAPS

Booting == {"spawned", "claiming", "claimed", "open", "mapped"}
Drained == {"drained", "settled", "stopped", "unmapped", "done"}
Settled == {"settled", "stopped", "unmapped", "done"}
Stopped == {"stopped", "unmapped", "done"}

\* What the proof needs of the types.
Shape ==
    /\ info = [d \in Daemons |-> info[d]]
    /\ main \in [Daemons -> MainPcs] /\ shut \in [Daemons -> Phases]
    /\ db \in [Daemons -> {"none", "open", "closed"}]
    /\ handlers \in [Daemons -> Nat]
    /\ loops \in [Daemons -> SUBSET Loops]
    /\ overrun \in [Daemons -> SUBSET (Loops \cup {"handlers", "initial"})]

\* What holds of one daemon: a process that starts or is gone runs nothing; a shutdown begins
\* only after the start; each of its phases has waited for what runs before it, or has noted
\* that it did not; and the database is closed by the last phase or by a failed start.
Quiet(d) ==
    /\ main[d] \in Gone \cup Booting => handlers[d] = 0 /\ loops[d] = {}
    /\ main[d] \in Booting => shut[d] = "no"
    /\ main[d] \in {"mapped", "initial"} => info[d].mode = "sync"
    /\ shut[d] \in Drained => handlers[d] = 0 \/ "handlers" \in overrun[d]
    /\ shut[d] \in Settled => main[d] # "initial" \/ "initial" \in overrun[d]
    /\ shut[d] \in Stopped => loops[d] \subseteq overrun[d]
    /\ db[d] = "closed" => shut[d] = "done" \/ main[d] \in Gone

MInv == Shape /\ \A d \in Daemons : Quiet(d)

USE DEF Gone, Booting, Drained, Settled, Stopped, MainPcs, Phases

\* The first state: no daemon runs.
LEMMA MInitQuiet == MInit => MInv
  BY DEF MInit, MInv, Shape, Quiet

\* The steps of a daemon's start.
LEMMA StartQuiet ==
    ASSUME MInv, NEW e \in Daemons, Starts(e) \/ StartFails(e)
    PROVE  MInv'
<1> SUFFICES Shape' /\ \A d \in Daemons : Quiet(d)'
  BY DEF MInv
<1> USE DEF MInv, Shape, Quiet, Step, Sync
<1>1. CASE ResolveSyncDir(e)
  BY <1>1 DEF ResolveSyncDir
<1>2. CASE ClaimSyncDir(e)
  BY <1>2 DEF ClaimSyncDir
<1>3. CASE openMountRuntime(e)
  BY <1>3 DEF openMountRuntime, files
<1>4. CASE MapDrive(e)
  BY <1>4 DEF MapDrive
<1>5. CASE WriteMountEntry(e)
  BY <1>5 DEF WriteMountEntry, StartLoops, Loops
<1>6. CASE StartFails(e)
  BY <1>6 DEF StartFails
<1> QED
  BY <1>1, <1>2, <1>3, <1>4, <1>5, <1>6 DEF Starts

\* The steps of a shutdown, asked for or signalled.
LEMMA ShutQuiet ==
    ASSUME MInv, NEW e \in Daemons, Shuts(e) \/ Signalled(e)
    PROVE  MInv'
<1> SUFFICES Shape' /\ \A d \in Daemons : Quiet(d)'
  BY DEF MInv
<1> USE DEF MInv, Shape, Quiet, Phase, Sync
<1>1. CASE beginShutdown(e)
  BY <1>1 DEF beginShutdown, Reachable, files
<1>2. CASE DrainIPC(e)
  BY <1>2 DEF DrainIPC, Overran, files
<1>3. CASE AwaitInitialSync(e)
  BY <1>3 DEF AwaitInitialSync, Overran, files
<1>4. CASE StopLoops(e)
  BY <1>4 DEF StopLoops, Overran, files
<1>5. CASE Unmount(e)
  BY <1>5 DEF Unmount
<1>6. CASE Cleanup(e)
  BY <1>6 DEF Cleanup
<1>7. CASE Exit(e)
  BY <1>7 DEF Exit, EndProcess, files
<1> QED
  BY <1>1, <1>2, <1>3, <1>4, <1>5, <1>6, <1>7 DEF Shuts, ShutdownRequested, Signalled

\* The work of a daemon, and its end from outside.
LEMMA RunQuiet ==
    ASSUME MInv, NEW e \in Daemons, Runs(e) \/ Killed(e) \/ Umounted(e)
    PROVE  MInv'
<1> SUFFICES Shape' /\ \A d \in Daemons : Quiet(d)'
  BY DEF MInv
<1> USE DEF MInv, Shape, Quiet, Step
<1>1. CASE InitialSyncReturns(e)
  BY <1>1 DEF InitialSyncReturns, files
<1>2. CASE GateRun(e)
  BY <1>2 DEF GateRun, StartLoops, Loops, files
<1>3. CASE BackendMount(e)
  BY <1>3 DEF BackendMount, files
<1>4. CASE EndMutation(e)
  BY <1>4 DEF EndMutation, files
<1>5. CASE LoopEnds(e)
  BY <1>5 DEF LoopEnds, files
<1>6. CASE Killed(e)
  BY <1>6 DEF Killed, EndProcess, files
<1>7. CASE Umounted(e)
  BY <1>7 DEF Umounted, files
<1> QED
  BY <1>1, <1>2, <1>3, <1>4, <1>5, <1>6, <1>7 DEF Runs

\* What a step must not touch of the daemons.
inside == <<info, main, shut, db, handlers, loops, overrun>>

LEMMA InsideKept ==
    ASSUME MInv, UNCHANGED inside
    PROVE  MInv'
  BY DEF MInv, Shape, Quiet, inside

\* The commands: only a spawn and a request change a daemon.
LEMMA CommandQuiet ==
    ASSUME MInv, NEW c \in Clis, Commands(c) \/ Continues(c)
    PROVE  MInv'
<1>1. CASE spawnBackground(c)
  <2>0. PICK e : e = CHOOSE x \in FreeDaemons : TRUE
    BY Zenon
  <2>1. e \in Daemons /\ main[e] \in Gone
    BY <1>1, <2>0 DEF spawnBackground, FreeDaemons
  <2>2. /\ main' = [main EXCEPT ![e] = "spawned"]
        /\ shut' = [shut EXCEPT ![e] = "no"]
        /\ db' = [db EXCEPT ![e] = "none"]
        /\ overrun' = [overrun EXCEPT ![e] = {}]
        /\ info' = [info EXCEPT ![e] = [cli[c].info EXCEPT !.folder = None, !.seen = None]]
        /\ UNCHANGED <<handlers, loops>>
    BY Zenon, <1>1, <2>0 DEF spawnBackground
  <2>3. Shape'
    BY <2>1, <2>2 DEF MInv, Shape
  <2>4. Quiet(e)'
    <3>1. handlers[e] = 0 /\ loops[e] = {}
      BY Zenon, <2>1 DEF MInv, Quiet
    <3>2. main'[e] = "spawned" /\ shut'[e] = "no" /\ db'[e] = "none" /\ UNCHANGED <<handlers, loops>>
      BY Zenon, <2>1, <2>2 DEF MInv, Shape
    <3> QED
      BY <3>1, <3>2 DEF Quiet
  <2>5. ASSUME NEW d \in Daemons, d # e PROVE Quiet(d)'
    <3>1. /\ main'[d] = main[d] /\ shut'[d] = shut[d] /\ db'[d] = db[d] /\ overrun'[d] = overrun[d]
          /\ info'[d] = info[d] /\ UNCHANGED <<handlers, loops>>
      BY Zenon, <2>1, <2>2, <2>5 DEF MInv, Shape
    <3> QED
      BY Zenon, <2>5, <3>1 DEF MInv, Quiet
  <2> QED
    BY Zenon, <2>3, <2>4, <2>5 DEF MInv
<1>2. CASE SendRequest(c)
  <2> DEFINE e == cli[c].wait
  <2>1. CASE Reachable(e)
    <3>1. BeginMutation(e) /\ UNCHANGED <<info, main, shut, db, loops, overrun>>
      BY <1>2, <2>1 DEF SendRequest
    <3> HIDE DEF e
    <3>2. CASE e \notin Daemons
      <4>1. UNCHANGED handlers
        BY <3>1, <3>2 DEF BeginMutation, MInv, Shape
      <4> QED
        BY <3>1, <4>1, InsideKept DEF inside
    <3>3. CASE e \in Daemons
      BY <2>1, <3>1, <3>3 DEF BeginMutation, Reachable, MInv, Shape, Quiet
    <3> QED
      BY <3>2, <3>3
  <2>2. CASE ~Reachable(e)
    BY <1>2, <2>2, InsideKept DEF SendRequest, inside
  <2> QED
    BY <2>1, <2>2
<1>3. CASE stopEntry(c)
  BY <1>3, InsideKept DEF stopEntry, inside
<1>4. CASE \/ Commands(c) \/ stopAwait(c) \/ stopDone(c) \/ stopOthers(c) \/ replaceExisting(c)
           \/ checkPoint(c) \/ loadPaths(c) \/ chooseFolder(c) \/ claimFolder(c) \/ awaitReady(c)
           \/ mvRename(c) \/ mvSave(c) \/ Interrupted(c)
  <2>1. UNCHANGED procs
    BY <1>4 DEF Commands, runMountStop, runMountRequest, runMountMv, runMountStart, stopAwait,
        stopDone, stopOthers, replaceExisting, checkPoint, loadPaths, chooseFolder, claimFolder,
        awaitReady, mvRename, mvSave, Interrupted
  <2> QED
    BY <2>1, InsideKept DEF procs, inside
<1> QED
  BY <1>1, <1>2, <1>3, <1>4 DEF Continues

\* The inductive invariant, for every value of the constants.
THEOREM MInvariant == MSpec => []MInv
<1>1. MInv /\ [MNext]_mvars => MInv'
  <2> SUFFICES ASSUME MInv, [MNext]_mvars PROVE MInv'
    OBVIOUS
  <2>1. CASE \E d \in Daemons : Starts(d) \/ Shuts(d) \/ Runs(d) \/ Faults(d)
    BY <2>1, StartQuiet, ShutQuiet, RunQuiet DEF Faults
  <2>2. CASE \E c \in Clis : Commands(c) \/ Continues(c)
    BY <2>2, CommandQuiet
  <2>3. CASE UNCHANGED mvars
    BY <2>3, InsideKept DEF mvars, procs, inside
  <2> QED
    BY <2>1, <2>2, <2>3 DEF MNext
<1> QED
  BY MInitQuiet, <1>1, PTL DEF MSpec

\* Once a daemon has closed its database (cleanup), no mutating request, no loop and no
\* initial sync of it runs, but for what the shutdown stopped waiting for at a deadline
\* (drainIPC, initialSyncStopWait, stopWait).
THEOREM NothingOnClosedStore == MSpec => []ClosedStoreQuiet
<1>1. MInv => ClosedStoreQuiet
  BY DEF MInv, Shape, Quiet, ClosedStoreQuiet
<1> QED
  BY MInvariant, <1>1, PTL

HIDE DEF Gone, Booting, Drained, Settled, Stopped, MainPcs, Phases

-----------------------------------------------------------------------------
(* Types.                                                                   *)

CliType == [pc : CliPcs, info : Infos, todo : SUBSET Daemons, then : CliPcs,
            wait : Daemons \cup {None}, paths : [Keys -> Folders \cup {None}]]
FileTypes ==
    /\ registry \in [Keys -> Daemons \cup {None}] /\ paths \in [Keys -> Folders \cup {None}]
    /\ there \subseteq Folders /\ owner \in [Folders -> Owners \cup {None}]
    /\ link \in [Points -> Folders \cup {None}]
ProcTypes ==
    /\ info \in [Daemons -> Infos] /\ main \in [Daemons -> MainPcs]
    /\ shut \in [Daemons -> Phases]
    /\ asked \subseteq Daemons /\ caches \subseteq Daemons
    /\ db \in [Daemons -> {"none", "open", "closed"}]
    /\ handlers \in [Daemons -> 0 .. MaxHandlers] /\ loops \in [Daemons -> SUBSET Loops]
    /\ overrun \in [Daemons -> SUBSET (Loops \cup {"handlers", "initial"})]

\* A folder that is about to be claimed is known.
Fit(r) == (r.pc = "claim" => r.info.folder \in Folders) /\ r.then # "claim"
Resolved ==
    /\ \A d \in Daemons : main[d] = "claiming" => info[d].folder \in Folders
    /\ \A c \in Clis : Fit(cli[c])

\* The type invariant, in its three parts: files, commands, daemons.
LEMMA TypeParts == MTypeOK <=> FileTypes /\ cli \in [Clis -> CliType] /\ ProcTypes
  BY Zenon DEF MTypeOK, FileTypes, CliType, ProcTypes

\* A command that has not begun has its type.
LEMMA NoCliType == NoInfo \in Infos /\ NoCli \in CliType /\ Fit(NoCli) /\ NoCli.pc = "idle"
<1>1. NoInfo \in Infos
  BY DirsAssumption DEF NoInfo, Infos, Modes
<1>2. "idle" \in CliPcs
  BY DEF CliPcs
<1> QED
  BY <1>1, <1>2 DEF NoCli, CliType, Fit

\* The account of a key is one of the accounts.
LEMMA OwnerType == \A k \in Keys : Owner(k) \in Owners
  BY Zenon DEF Owners

\* A claim names one of the accounts in one of the folders.
LEMMA ClaimType ==
    ASSUME FileTypes, NEW f \in Folders, NEW seen, NEW o \in Owners,
           \/ ClaimWrite(f, seen, o) \/ UNCHANGED <<owner, there>>,
           UNCHANGED <<registry, paths, link>>
    PROVE  FileTypes'
BY DEF FileTypes, ClaimWrite

\* GetSyncDir returns a folder.
LEMMA SyncDirType ==
    ASSUME NEW sp \in [Keys -> Folders \cup {None}], NEW k \in Keys
    PROVE  GetSyncDir(sp, k) \in Folders
<1>1. DefaultSyncDir(k) \in Folders
  BY DirsAssumption DEF DefaultSyncDir
<1> QED
  BY <1>1 DEF GetSyncDir

\* The first state has its types.
LEMMA MInitTypes == MInit => MTypeOK /\ Resolved
<1> SUFFICES ASSUME MInit PROVE MTypeOK /\ Resolved
  OBVIOUS
<1>1. FileTypes
  BY DirsAssumption DEF MInit, FileTypes
<1>2. cli \in [Clis -> CliType]
  BY Zenon, NoCliType DEF MInit
<1>3. ProcTypes
  BY NoCliType, MaxHandlersAssumption DEF MInit, ProcTypes, MainPcs, Phases
<1>4. Resolved
  BY NoCliType DEF MInit, Resolved
<1> QED
  BY Zenon, <1>1, <1>2, <1>3, <1>4, TypeParts

\* A step that leaves the files alone keeps their types.
LEMMA FilesKept == FileTypes /\ UNCHANGED files => FileTypes'
  BY DEF FileTypes, files
\* A step that leaves the daemons alone keeps their types.
LEMMA ProcsKept == ProcTypes /\ UNCHANGED procs => ProcTypes'
  BY DEF ProcTypes, procs

\* The steps of a daemon keep the types: one case per action.
LEMMA DaemonTypes ==
    ASSUME MTypeOK, Resolved, NEW e \in Daemons, Starts(e) \/ Shuts(e) \/ Runs(e) \/ Faults(e)
    PROVE  MTypeOK' /\ Resolved'
<1>1. FileTypes /\ cli \in [Clis -> CliType] /\ ProcTypes
  BY Zenon, TypeParts
<1>2. cli' = cli
  BY Zenon DEF Starts, Shuts, Runs, Faults, ResolveSyncDir, ClaimSyncDir, openMountRuntime, MapDrive,
     WriteMountEntry, ShutdownRequested, Signalled, beginShutdown, DrainIPC, AwaitInitialSync,
     StopLoops, Unmount, Cleanup, Exit, InitialSyncReturns, GateRun, BackendMount, EndMutation,
     LoopEnds, StartFails, Killed, Umounted
<1>3. info[e] \in Infos /\ info[e].key \in Keys /\ info[e].folder \in Folders \cup {None}
      /\ Owner(info[e].key) \in Owners
  BY <1>1, OwnerType DEF ProcTypes, Infos
<1>0. /\ ~ResolveSyncDir(e) => info' = info
      /\ \A d \in Daemons : main'[d] = "claiming" => main[d] = "claiming" \/ (d = e /\ ResolveSyncDir(e))
  <2>1. DOMAIN main = Daemons BY Zenon, <1>1 DEF ProcTypes
  <2>2. CASE Starts(e)
    BY <2>1, <2>2 DEF Starts, ResolveSyncDir, ClaimSyncDir, openMountRuntime, MapDrive,
       WriteMountEntry, Step
  <2>3. CASE Shuts(e)
    BY <2>1, <2>3 DEF Shuts, ShutdownRequested, beginShutdown, DrainIPC, AwaitInitialSync,
       StopLoops, Unmount, Cleanup, Exit, Step, EndProcess
  <2>4. CASE Runs(e)
    BY <2>1, <2>4 DEF Runs, InitialSyncReturns, GateRun, BackendMount, EndMutation, LoopEnds, Step
  <2>5. CASE Faults(e)
    BY <2>1, <2>5 DEF Faults, StartFails, Killed, Signalled, Umounted, beginShutdown, Step, EndProcess
  <2> QED BY Zenon, <2>2, <2>3, <2>4, <2>5
<1> SUFFICES FileTypes' /\ ProcTypes'
  <2> SUFFICES ASSUME FileTypes', ProcTypes' PROVE MTypeOK' /\ Resolved'
    OBVIOUS
  <2>1. MTypeOK'
    BY Zenon, <1>1, <1>2 DEF MTypeOK, FileTypes, CliType, ProcTypes
  <2>2. ASSUME ResolveSyncDir(e) PROVE info'[e].folder \in Folders
    <3>1. GetSyncDir(paths, info[e].key) \in Folders
      BY Zenon, <1>1, <1>3, SyncDirType DEF FileTypes
    <3> QED BY <1>1, <2>2, <3>1 DEF ResolveSyncDir, ProcTypes, Infos
  <2>3. \A d \in Daemons \ {e} : info'[d] = info[d]
    BY <1>0, <1>1 DEF ResolveSyncDir, ProcTypes
  <2>4. \A d \in Daemons : main'[d] = "claiming" => info'[d].folder \in Folders
    BY Zenon, <1>0, <2>2, <2>3 DEF Resolved
  <2> QED BY Zenon, <1>2, <2>1, <2>4 DEF Resolved, Fit
<1>4. CASE ResolveSyncDir(e)
  <2> DEFINE f == GetSyncDir(paths, info[e].key)
  <2>1. f \in Folders BY Zenon, <1>1, <1>3, SyncDirType DEF FileTypes
  <2> HIDE DEF f
  <2>2. /\ info' = [info EXCEPT ![e].folder = f, ![e].seen = owner[f]]
        /\ there' = there \cup {f} /\ main' = [main EXCEPT ![e] = "claiming"]
        /\ UNCHANGED <<registry, paths, owner, link, shut, asked, db, handlers, loops, overrun, caches>>
    BY Zenon, <1>4 DEF ResolveSyncDir, Step, f
  <2>3. FileTypes' BY <1>1, <2>1, <2>2 DEF FileTypes
  <2>4. info' \in [Daemons -> Infos]
    BY <1>1, <1>3, <2>1, <2>2 DEF FileTypes, ProcTypes, Infos
  <2> QED BY <1>1, <2>2, <2>3, <2>4 DEF ProcTypes, MainPcs
<1>5. CASE ClaimSyncDir(e)
  <2>0. main[e] = "claiming" /\ info[e].folder \in Folders
    BY <1>5 DEF ClaimSyncDir, Step, Resolved
  <2>1. FileTypes'
    BY <1>1, <1>3, <1>5, <2>0 DEF ClaimSyncDir, FileTypes, ClaimWrite
  <2> QED BY <1>1, <1>5, <2>1 DEF ClaimSyncDir, Step, ProcTypes, MainPcs
<1>6. CASE openMountRuntime(e)
  <2>1. FileTypes' BY Zenon, <1>1, <1>6, FilesKept DEF openMountRuntime
  <2> QED BY <1>1, <1>6, <2>1 DEF openMountRuntime, Step, ProcTypes, MainPcs
<1>7. CASE MapDrive(e)
  <2>1. FileTypes'
    BY <1>1, <1>3, <1>7 DEF MapDrive, Mappable, FileTypes, Infos
  <2> QED BY <1>1, <1>7, <2>1 DEF MapDrive, Step, ProcTypes, MainPcs
<1>8. CASE WriteMountEntry(e)
  <2>1. FileTypes' BY <1>1, <1>3, <1>8 DEF WriteMountEntry, FileTypes
  <2> QED BY <1>1, <1>8, <2>1 DEF WriteMountEntry, Step, StartLoops, ProcTypes, MainPcs, Loops
<1>9. CASE StartFails(e)
  <2>1. FileTypes' BY <1>1, <1>3, <1>9 DEF StartFails, Unmapped, FileTypes
  <2> QED BY <1>1, <1>9, <2>1 DEF StartFails, ProcTypes, MainPcs
<1>10. CASE InitialSyncReturns(e) \/ BackendMount(e) \/ Umounted(e)
  <2>1. FileTypes' BY Zenon, <1>1, <1>10, FilesKept DEF InitialSyncReturns, BackendMount, Umounted
  <2> QED BY <1>1, <1>10, <2>1 DEF InitialSyncReturns, BackendMount, Umounted, Step, ProcTypes, MainPcs
<1>11. CASE GateRun(e)
  <2>1. FileTypes' BY Zenon, <1>1, <1>11, FilesKept DEF GateRun
  <2> QED BY <1>1, <1>11, <2>1 DEF GateRun, Step, StartLoops, ProcTypes, MainPcs, Loops
<1>12. CASE beginShutdown(e) \/ DrainIPC(e) \/ AwaitInitialSync(e) \/ StopLoops(e)
  <2>1. FileTypes' BY Zenon, <1>1, <1>12, FilesKept DEF beginShutdown, DrainIPC, AwaitInitialSync, StopLoops
  <2> QED BY <1>1, <1>12, <2>1 DEF beginShutdown, DrainIPC, AwaitInitialSync, StopLoops, Phase, Overran,
             ProcTypes, Phases
<1>13. CASE LoopEnds(e) \/ EndMutation(e)
  <2>1. FileTypes' BY Zenon, <1>1, <1>13, FilesKept DEF LoopEnds, EndMutation
  <2> QED BY <1>1, <1>13, <2>1, MaxHandlersAssumption DEF LoopEnds, EndMutation, ProcTypes
<1>14. CASE Unmount(e)
  <2>1. FileTypes' BY <1>1, <1>3, <1>14 DEF Unmount, Unmapped, FileTypes
  <2> QED BY <1>1, <1>14, <2>1 DEF Unmount, Phase, ProcTypes, MainPcs, Phases
<1>15. CASE Cleanup(e)
  <2>1. FileTypes' BY <1>1, <1>3, <1>15 DEF Cleanup, EvictMountEntry, FileTypes
  <2> QED BY <1>1, <1>15, <2>1 DEF Cleanup, Phase, ProcTypes, Phases
<1>16. CASE Exit(e) \/ Killed(e)
  <2>1. FileTypes' BY Zenon, <1>1, <1>16, FilesKept DEF Exit, Killed
  <2> QED BY <1>1, <1>16, <2>1, MaxHandlersAssumption DEF Exit, Killed, EndProcess, ProcTypes, MainPcs
<1> QED
  BY Zenon, <1>4, <1>5, <1>6, <1>7, <1>8, <1>9, <1>10, <1>11, <1>12, <1>13, <1>14, <1>15, <1>16
     DEF Starts, Shuts, Runs, Faults, ShutdownRequested, Signalled

\* A step of a command: the daemons keep their types, and so does what the command knows.
LEMMA CliTypes ==
    ASSUME MTypeOK, Resolved, NEW c \in Clis, NEW r \in CliType, cli' = [cli EXCEPT ![c] = r],
           Fit(r),
           FileTypes', ProcTypes', \A d \in Daemons : main'[d] = "claiming" => main[d] = "claiming" /\ info'[d] = info[d]
    PROVE  MTypeOK' /\ Resolved'
<1>1. cli \in [Clis -> CliType]
  BY Zenon, TypeParts
<1>2. cli' \in [Clis -> CliType] /\ cli'[c] = r /\ \A e \in Clis \ {c} : cli'[e] = cli[e]
  BY <1>1
<1>3. MTypeOK'
  BY Zenon, <1>2 DEF MTypeOK, FileTypes, CliType, ProcTypes
<1>4. Resolved'
  BY Zenon, <1>2 DEF Resolved, Fit
<1> QED
  BY Zenon, <1>3, <1>4

\* The steps of a command keep the types: one case per action.
LEMMA CommandTypes ==
    ASSUME MTypeOK, Resolved, NEW c \in Clis, Commands(c) \/ Continues(c)
    PROVE  MTypeOK' /\ Resolved'
<1>1. FileTypes /\ cli \in [Clis -> CliType] /\ ProcTypes
  BY Zenon, TypeParts
<1>2. /\ cli[c] \in CliType /\ cli[c].info \in Infos /\ cli[c].info.key \in Keys
      /\ Owner(cli[c].info.key) \in Owners /\ Fit(cli[c])
  BY <1>1, OwnerType DEF CliType, Infos, Resolved
<1>3. Listed \subseteq Daemons
  BY <1>1 DEF Listed, FileTypes
\* The command goes on, and touches nothing.
<1>4. ASSUME NEW r \in CliType, cli' = [cli EXCEPT ![c] = r],
             Fit(r), UNCHANGED procs, FileTypes'
      PROVE  MTypeOK' /\ Resolved'
  <2>1. ProcTypes' /\ main' = main /\ info' = info
    BY Zenon, <1>1, <1>4, ProcsKept DEF procs
  <2> QED BY Zenon, <1>4, <2>1, CliTypes
<1>5. ASSUME End(c), UNCHANGED procs, FileTypes' PROVE MTypeOK' /\ Resolved'
  BY Zenon, <1>4, <1>5, NoCliType DEF End
<1>6. ASSUME NEW pc \in CliPcs \ {"claim"}, Go(c, pc), UNCHANGED procs, FileTypes'
      PROVE  MTypeOK' /\ Resolved'
  <2> DEFINE r == [cli[c] EXCEPT !.pc = pc]
  <2>1. r \in CliType /\ Fit(r) /\ cli' = [cli EXCEPT ![c] = r]
    BY <1>1, <1>2, <1>6 DEF Fit, Go, CliType
  <2> HIDE DEF r
  <2> QED BY Zenon, <1>4, <1>6, <2>1
<1>7. ASSUME NEW ds \in SUBSET Daemons, NEW pc \in CliPcs \ {"claim"}, StopThen(c, ds, pc), UNCHANGED procs, FileTypes'
      PROVE  MTypeOK' /\ Resolved'
  <2> DEFINE r == [cli[c] EXCEPT !.pc = "stop", !.todo = ds, !.then = pc]
  <2>1. r \in CliType /\ Fit(r) /\ cli' = [cli EXCEPT ![c] = r]
    BY <1>1, <1>2, <1>7 DEF Fit, StopThen, CliType, CliPcs
  <2> HIDE DEF r
  <2> QED BY Zenon, <1>4, <1>7, <2>1
<1>8. UNCHANGED files => FileTypes'
  BY Zenon, <1>1, FilesKept
<1>9. CASE \E k \in Keys, mode \in Modes, p \in Points \cup Named : runMountStart(c, k, mode, p)
  <2>1. PICK k \in Keys, mode \in Modes, p \in Points \cup Named : runMountStart(c, k, mode, p)
    BY Zenon, <1>9
  <2> DEFINE i == [NoInfo EXCEPT !.key = k, !.mode = mode, !.point = p]
             ds == {d \in Listed : Owner(info[d].key) # Owner(k)}
             r == [cli[c] EXCEPT !.pc = "stop", !.then = "others", !.todo = ds, !.info = i]
  <2>2. i \in Infos BY NoCliType, DirsAssumption DEF Infos
  <2>3. ds \subseteq Daemons BY Zenon, <1>3
  <2>4. cli' = [cli EXCEPT ![c].pc = "stop", ![c].then = "others", ![c].todo = ds, ![c].info = i]
        /\ UNCHANGED <<files, procs>>
    BY Zenon, <2>1 DEF runMountStart
  <2> HIDE DEF i, ds
  <2>5. r \in CliType /\ Fit(r) /\ cli' = [cli EXCEPT ![c] = r]
    BY <1>1, <1>2, <2>2, <2>3, <2>4 DEF Fit, CliType, CliPcs
  <2> HIDE DEF r
  <2> QED BY Zenon, <1>4, <1>8, <2>4, <2>5
<1>10. CASE \E k \in Keys : runMountMv(c, k)
  <2>1. PICK k \in Keys : runMountMv(c, k) BY Zenon, <1>10
  <2> DEFINE cur == GetSyncDir(paths, k)
             i == [NoInfo EXCEPT !.key = k, !.folder = cur]
             d == registry[k]
             up == d # None /\ Reachable(d)
             ds == IF up THEN {d} ELSE {}
             pc == IF up THEN "stop" ELSE "move"
             r == [cli[c] EXCEPT !.paths = paths, !.then = "move", !.pc = pc, !.todo = ds, !.info = i]
  <2>2. cur \in Folders BY Zenon, <1>1, SyncDirType DEF FileTypes
  <2> HIDE DEF cur
  <2>3. i \in Infos BY <2>2, NoCliType DEF Infos
  <2>4. ds \in SUBSET Daemons /\ pc \in CliPcs \ {"claim"} BY <1>1 DEF FileTypes, CliPcs
  <2>5. cli' = [cli EXCEPT ![c].paths = paths, ![c].then = "move", ![c].pc = pc, ![c].todo = ds, ![c].info = i]
        /\ UNCHANGED <<files, procs>>
    BY Zenon, <2>1 DEF runMountMv, cur
  <2> HIDE DEF i, ds, pc, up, d
  <2>6. r \in CliType /\ Fit(r) /\ cli' = [cli EXCEPT ![c] = r]
    <3>1. paths \in [Keys -> Folders \cup {None}] /\ "move" \in CliPcs BY <1>1 DEF FileTypes, CliPcs
    <3>2. r \in CliType BY <1>2, <2>3, <2>4, <3>1 DEF CliType
    <3>3. Fit(r)
      <4>1. r.pc = pc /\ r.then = "move" BY <1>2 DEF CliType
      <4> QED BY <2>4, <4>1 DEF Fit
    <3>4. cli' = [cli EXCEPT ![c] = r] BY <1>2, <2>5 DEF CliType
    <3> QED BY Zenon, <3>2, <3>3, <3>4
  <2> HIDE DEF r
  <2> QED BY Zenon, <1>4, <1>8, <2>4, <2>5, <2>6
<1>11. CASE runMountStop(c) \/ stopOthers(c)
  <2>1. PICK ds \in SUBSET Daemons, pc \in CliPcs \ {"claim"} : StopThen(c, ds, pc) /\ UNCHANGED <<files, procs>>
    <3>1. {"idle", "existing"} \subseteq CliPcs \ {"claim"} BY DEF CliPcs
    <3> QED BY Zenon, <1>3, <1>11, <3>1 DEF runMountStop, stopOthers
  <2> QED BY Zenon, <1>7, <1>8, <2>1
<1>12. CASE runMountRequest(c)
  <2>1. PICK d \in Daemons : withMount(c, d) /\ UNCHANGED <<files, procs>>
    BY Zenon, <1>3, <1>12 DEF runMountRequest
  <2> DEFINE r == [cli[c] EXCEPT !.pc = "send", !.wait = d]
  <2>2. r \in CliType /\ Fit(r) /\ cli' = [cli EXCEPT ![c] = r]
    BY <1>1, <1>2, <2>1 DEF Fit, withMount, CliType, CliPcs
  <2> HIDE DEF r
  <2> QED BY Zenon, <1>4, <1>8, <2>1, <2>2
<1>13. CASE stopEntry(c)
  <2>1. PICK d \in cli[c].todo :
           IF Reachable(d)
           THEN /\ asked' = IF shut[d] = "no" THEN asked \cup {d} ELSE asked
                /\ cli' = [cli EXCEPT ![c].pc = "await", ![c].wait = d, ![c].todo = @ \ {d}]
                /\ UNCHANGED registry
           ELSE /\ EvictMountEntry(d)
                /\ cli' = [cli EXCEPT ![c].todo = @ \ {d}]
                /\ UNCHANGED asked
    BY Zenon, <1>13 DEF stopEntry
  <2>2. /\ UNCHANGED <<paths, there, owner, link, info, main, shut, db, handlers, loops, overrun, caches>>
        /\ cli[c].pc = "stop"
    BY Zenon, <1>13 DEF stopEntry, At
  <2>3. d \in Daemons BY <1>2 DEF CliType
  <2>4. asked' \subseteq Daemons BY <1>1, <2>1, <2>3 DEF ProcTypes
  <2>5. registry' \in [Keys -> Daemons \cup {None}]
    BY <1>1, <2>1 DEF EvictMountEntry, FileTypes
  <2>6. FileTypes' BY Zenon, <1>1, <2>2, <2>5 DEF FileTypes
  <2>7. ProcTypes' BY Zenon, <1>1, <2>2, <2>4 DEF ProcTypes
  <2> DEFINE r == IF Reachable(d) THEN [cli[c] EXCEPT !.pc = "await", !.wait = d, !.todo = @ \ {d}]
                  ELSE [cli[c] EXCEPT !.todo = @ \ {d}]
  <2>8. r \in CliType /\ Fit(r)
    BY <1>2, <2>2, <2>3 DEF Fit, CliType, CliPcs
  <2>9. cli' = [cli EXCEPT ![c] = r]
    BY <1>1, <1>2, <2>1 DEF CliType
  <2> HIDE DEF r
  <2> QED BY Zenon, <2>2, <2>6, <2>7, <2>8, <2>9, CliTypes
<1>14. CASE stopAwait(c)
  <2> DEFINE r == [cli[c] EXCEPT !.pc = "stop", !.wait = None]
  <2>1. r \in CliType /\ Fit(r) /\ cli' = [cli EXCEPT ![c] = r]
    BY <1>1, <1>2, <1>14 DEF Fit, stopAwait, CliType, CliPcs
  <2> HIDE DEF r
  <2> QED BY Zenon, <1>4, <1>8, <1>14, <2>1 DEF stopAwait
<1>15. CASE replaceExisting(c)
  <2>1. FileTypes' BY <1>1, <1>15 DEF replaceExisting, EvictMountEntry, FileTypes
  <2>2. registry[cli[c].info.key] # None => registry[cli[c].info.key] \in Daemons
    BY <1>1, <1>2 DEF FileTypes
  <2>3. "point" \in CliPcs \ {"claim"} BY DEF CliPcs
  <2>4. UNCHANGED procs BY Zenon, <1>15 DEF replaceExisting
  <2>5. \/ End(c) \/ Go(c, "point")
        \/ \E d \in Daemons : StopThen(c, {d}, "point")
    BY Zenon, <1>15, <2>2 DEF replaceExisting
  <2> QED BY Zenon, <1>5, <1>6, <1>7, <2>1, <2>3, <2>4, <2>5
<1>16. CASE checkPoint(c)
  <2>1. {"folder", "spawn"} \subseteq CliPcs \ {"claim"} BY DEF CliPcs
  <2>2. End(c) \/ \E pc \in {"folder", "spawn"} : Go(c, pc)
    BY Zenon, <1>16 DEF checkPoint
  <2> QED BY Zenon, <1>5, <1>6, <1>8, <1>16, <2>1, <2>2 DEF checkPoint
<1>17. CASE loadPaths(c)
  <2> DEFINE r == [cli[c] EXCEPT !.pc = "prompt", !.paths = paths]
  <2>1. r \in CliType /\ Fit(r) /\ cli' = [cli EXCEPT ![c] = r]
    BY <1>1, <1>2, <1>17 DEF Fit, loadPaths, CliType, CliPcs, FileTypes
  <2> HIDE DEF r
  <2> QED BY Zenon, <1>4, <1>8, <1>17, <2>1 DEF loadPaths
<1>18. CASE chooseFolder(c)
  <2>0. UNCHANGED <<registry, link, procs>> BY Zenon, <1>18 DEF chooseFolder
  <2>1. ASSUME NEW f \in Folders, NEW o \in Owners \cup {None},
               cli' = [cli EXCEPT ![c].pc = "claim", ![c].info.folder = f, ![c].info.seen = o],
               FileTypes'
        PROVE  MTypeOK' /\ Resolved'
    <3> DEFINE i == [cli[c].info EXCEPT !.folder = f, !.seen = o]
               r == [cli[c] EXCEPT !.pc = "claim", !.info = i]
    <3>1. i \in Infos /\ i.folder = f BY <1>2 DEF Infos
    <3>2. cli' = [cli EXCEPT ![c].pc = "claim", ![c].info = i]
      BY <1>1, <1>2, <2>1 DEF CliType, Infos
    <3> HIDE DEF i
    <3>3. r \in CliType /\ Fit(r) /\ cli' = [cli EXCEPT ![c] = r]
      BY <1>1, <1>2, <3>1, <3>2 DEF Fit, CliType, CliPcs
    <3> HIDE DEF r
    <3> QED BY Zenon, <1>4, <2>0, <2>1, <3>1, <3>3
  <2> DEFINE i == cli[c].info
             sp == cli[c].paths
             o == Owner(i.key)
             cur == GetSyncDir(sp, i.key)
  <2>2. sp \in [Keys -> Folders \cup {None}] BY <1>2 DEF CliType
  <2>3. cur \in Folders BY Zenon, <1>2, <2>2, SyncDirType
  <2> HIDE DEF cur
  <2>4. \A f \in Folders : owner[f] \in Owners \cup {None} BY <1>1 DEF FileTypes
  <2>5. ASSUME NEW f \in Folders PROVE [sp EXCEPT ![i.key] = f] \in [Keys -> Folders \cup {None}]
    BY <2>2
  <2>6. CASE i.point \in Folders /\ UNCHANGED there
    <3>1. CASE End(c) /\ UNCHANGED <<owner, paths>>
      <4>1. FileTypes' BY Zenon, <1>1, <2>0, <2>6, <3>1 DEF FileTypes
      <4> QED BY Zenon, <1>5, <2>0, <3>1, <4>1
    <3>2. CASE /\ owner' = [owner EXCEPT ![i.point] = o] /\ paths' = [sp EXCEPT ![i.key] = i.point]
               /\ cli' = [cli EXCEPT ![c].pc = "claim", ![c].info.folder = i.point, ![c].info.seen = o]
      <4>1. owner' \in [Folders -> Owners \cup {None}] BY <1>1, <1>2, <3>2 DEF FileTypes
      <4>2. FileTypes' BY Zenon, <1>1, <2>0, <2>5, <2>6, <3>2, <4>1 DEF FileTypes
      <4> QED BY Zenon, <1>2, <2>1, <2>6, <3>2, <4>2
    <3> QED BY Zenon, <1>18, <2>6, <3>1, <3>2 DEF chooseFolder
  <2>7. CASE /\ UNCHANGED <<owner, paths, there>>
             /\ cli' = [cli EXCEPT ![c].pc = "claim", ![c].info.folder = cur, ![c].info.seen = owner[cur]]
    <3>1. FileTypes' BY Zenon, <1>1, <2>0, <2>7 DEF FileTypes
    <3> QED BY Zenon, <2>1, <2>3, <2>4, <2>7, <3>1
  <2>8. ASSUME NEW f \in Named, there' = there \cup {f}, UNCHANGED owner,
               \/ End(c) /\ UNCHANGED paths
               \/ /\ cli' = [cli EXCEPT ![c].pc = "claim", ![c].info.folder = f, ![c].info.seen = owner[f]]
                  /\ paths' = [sp EXCEPT ![i.key] = f]
        PROVE  MTypeOK' /\ Resolved'
    <3>1. f \in Folders BY Zenon, DirsAssumption
    <3>2. FileTypes' BY Zenon, <1>1, <2>0, <2>5, <2>8, <3>1 DEF FileTypes
    <3> QED BY Zenon, <1>5, <2>0, <2>1, <2>4, <2>8, <3>1, <3>2
  <2>9. \/ i.point \in Folders /\ UNCHANGED there
        \/ /\ UNCHANGED <<owner, paths, there>>
           /\ cli' = [cli EXCEPT ![c].pc = "claim", ![c].info.folder = cur, ![c].info.seen = owner[cur]]
        \/ \E f \in Named :
             /\ there' = there \cup {f} /\ UNCHANGED owner
             /\ \/ End(c) /\ UNCHANGED paths
                \/ /\ cli' = [cli EXCEPT ![c].pc = "claim", ![c].info.folder = f, ![c].info.seen = owner[f]]
                   /\ paths' = [sp EXCEPT ![i.key] = f]
    BY Zenon, <1>18 DEF chooseFolder, cur
  <2> QED BY Zenon, <2>6, <2>7, <2>8, <2>9
<1>19. CASE claimFolder(c)
  <2>1. cli[c].info.folder \in Folders BY Zenon, <1>19 DEF claimFolder, At, Resolved, Fit
  <2>2. FileTypes' BY Zenon, <1>1, <1>2, <1>19, <2>1, ClaimType DEF claimFolder
  <2>3. "spawn" \in CliPcs \ {"claim"} BY DEF CliPcs
  <2>4. (End(c) \/ Go(c, "spawn")) /\ UNCHANGED procs BY Zenon, <1>19 DEF claimFolder
  <2> QED BY Zenon, <1>5, <1>6, <2>2, <2>3, <2>4
<1>20. CASE spawnBackground(c)
  <2> DEFINE d == CHOOSE x \in FreeDaemons : TRUE
             i == [cli[c].info EXCEPT !.folder = None, !.seen = None]
  <2>1. d \in Daemons BY <1>20 DEF spawnBackground, FreeDaemons
  <2> HIDE DEF d
  <2>2. i \in Infos BY <1>2 DEF Infos
  <2> HIDE DEF i
  <2>3. /\ cli' = [cli EXCEPT ![c].pc = "ready", ![c].wait = d]
        /\ info' = [info EXCEPT ![d] = i] /\ main' = [main EXCEPT ![d] = "spawned"]
        /\ shut' = [shut EXCEPT ![d] = "no"] /\ db' = [db EXCEPT ![d] = "none"]
        /\ overrun' = [overrun EXCEPT ![d] = {}] /\ caches' = caches \ {d}
        /\ UNCHANGED <<files, asked, handlers, loops>>
    BY Zenon, <1>20 DEF spawnBackground, d, i
  <2>4. ProcTypes' BY <1>1, <2>1, <2>2, <2>3 DEF ProcTypes, MainPcs, Phases
  <2>5. FileTypes' BY Zenon, <1>8, <2>3
  <2>6. \A e \in Daemons : main'[e] = "claiming" => main[e] = "claiming" /\ info'[e] = info[e]
    BY <1>1, <2>1, <2>3 DEF ProcTypes
  <2> DEFINE r == [cli[c] EXCEPT !.pc = "ready", !.wait = d]
  <2>7. r \in CliType /\ Fit(r) /\ cli' = [cli EXCEPT ![c] = r]
    BY <1>1, <1>2, <2>1, <2>3 DEF Fit, CliType, CliPcs
  <2> HIDE DEF r
  <2> QED BY Zenon, <2>4, <2>5, <2>6, <2>7, CliTypes
<1>21. CASE SendRequest(c)
  <2>1. End(c) /\ UNCHANGED <<paths, there, owner, link, info, main, shut, asked, db, loops, overrun, caches>>
    BY Zenon, <1>21 DEF SendRequest
  <2>2. registry' \in [Keys -> Daemons \cup {None}] /\ handlers' \in [Daemons -> 0 .. MaxHandlers]
    <3>1. PICK d : d = cli[c].wait OBVIOUS
    <3>2. \/ BeginMutation(d) /\ UNCHANGED registry
          \/ EvictMountEntry(d) /\ UNCHANGED handlers
      BY Zenon, <1>21, <3>1 DEF SendRequest
    <3>3. CASE BeginMutation(d) /\ UNCHANGED registry
      <4>1. handlers \in [Daemons -> 0 .. MaxHandlers] /\ registry' \in [Keys -> Daemons \cup {None}]
        BY <1>1, <3>3 DEF FileTypes, ProcTypes
      <4>2. handlers[d] < MaxHandlers /\ \E n \in {handlers[d], handlers[d] + 1} : handlers' = [handlers EXCEPT ![d] = n]
        BY <3>3 DEF BeginMutation
      <4>3. d \in Daemons => {handlers[d], handlers[d] + 1} \subseteq 0 .. MaxHandlers
        BY <4>1, <4>2, MaxHandlersAssumption
      <4>4. handlers' \in [Daemons -> 0 .. MaxHandlers]
        BY <4>1, <4>2, <4>3
      <4> QED BY Zenon, <4>1, <4>4
    <3>4. CASE EvictMountEntry(d) /\ UNCHANGED handlers
      BY <1>1, <3>4 DEF EvictMountEntry, FileTypes, ProcTypes
    <3> QED BY Zenon, <3>2, <3>3, <3>4
  <2>3. FileTypes' /\ ProcTypes' BY Zenon, <1>1, <2>1, <2>2 DEF FileTypes, ProcTypes
  <2> QED BY Zenon, <2>1, <2>3, NoCliType, CliTypes DEF End
<1>22. CASE mvRename(c)
  <2> DEFINE cur == cli[c].info.folder
  <2>1. PICK dest \in Named \ {cur} :
           IF dest \in there \/ cur \notin there THEN End(c) /\ UNCHANGED <<there, owner>>
           ELSE \/ /\ there' = (there \cup {dest}) \ {cur}
                   /\ owner' = [owner EXCEPT ![dest] = owner[cur], ![cur] = None]
                   /\ cli' = [cli EXCEPT ![c].pc = "save",
                                         ![c].paths = [@ EXCEPT ![cli[c].info.key] = dest]]
                \/ copyDir(cur, dest) /\ End(c)
    BY Zenon, <1>22 DEF mvRename
  <2>2. UNCHANGED <<registry, paths, link, procs>> BY Zenon, <1>22 DEF mvRename
  <2>3. dest \in Folders BY Zenon, DirsAssumption
  <2>4. there' \subseteq Folders /\ owner' \in [Folders -> Owners \cup {None}]
    BY <1>1, <2>1, <2>3 DEF FileTypes, copyDir
  <2>5. FileTypes' BY Zenon, <1>1, <2>2, <2>4 DEF FileTypes
  <2>6. CASE End(c) BY Zenon, <1>5, <2>2, <2>5, <2>6
  <2>7. CASE cli' = [cli EXCEPT ![c].pc = "save", ![c].paths = [@ EXCEPT ![cli[c].info.key] = dest]]
    <3> DEFINE sp == [cli[c].paths EXCEPT ![cli[c].info.key] = dest]
               r == [cli[c] EXCEPT !.pc = "save", !.paths = sp]
    <3>1. sp \in [Keys -> Folders \cup {None}] BY <1>2, <2>3 DEF CliType
    <3>2. cli' = [cli EXCEPT ![c].pc = "save", ![c].paths = sp] BY <1>1, <1>2, <2>7 DEF CliType
    <3> HIDE DEF sp
    <3>3. r \in CliType /\ Fit(r) /\ cli' = [cli EXCEPT ![c] = r]
      <4>1. "save" \in CliPcs BY DEF CliPcs
      <4>2. r \in CliType BY <1>2, <3>1, <4>1 DEF CliType
      <4>3. r.pc = "save" /\ r.then = cli[c].then BY <1>2 DEF CliType
      <4>4. Fit(r) BY <1>2, <4>3 DEF Fit
      <4>5. cli' = [cli EXCEPT ![c] = r] BY <1>2, <3>2 DEF CliType
      <4> QED BY Zenon, <4>2, <4>4, <4>5
    <3> HIDE DEF r
    <3> QED BY Zenon, <1>4, <2>2, <2>5, <3>3
  <2> QED BY Zenon, <2>1, <2>6, <2>7
<1>23. CASE mvSave(c)
  <2>1. FileTypes' BY <1>1, <1>2, <1>23 DEF mvSave, FileTypes, CliType
  <2> QED BY Zenon, <1>5, <1>23, <2>1 DEF mvSave
<1>24. CASE awaitReady(c) \/ Interrupted(c)
  BY Zenon, <1>5, <1>8, <1>24 DEF awaitReady, Interrupted
<1>25. CASE stopDone(c)
  <2>1. cli[c].then \in CliPcs \ {"claim"} BY <1>2 DEF CliType, Fit
  <2> QED BY Zenon, <1>5, <1>6, <1>8, <1>25, <2>1 DEF stopDone
<1> QED
  BY Zenon, <1>9, <1>10, <1>11, <1>12, <1>13, <1>14, <1>15, <1>16, <1>17, <1>18, <1>19, <1>20, <1>21,
     <1>22, <1>23, <1>24, <1>25 DEF Commands, Continues

\* The types, and that a folder that is about to be claimed is known.
LEMMA TypesInvariant == MSpec => [](MTypeOK /\ Resolved)
<1>1. MTypeOK /\ Resolved /\ [MNext]_mvars => MTypeOK' /\ Resolved'
  <2> SUFFICES ASSUME MTypeOK, Resolved, [MNext]_mvars PROVE MTypeOK' /\ Resolved'
    OBVIOUS
  <2>1. CASE UNCHANGED mvars
    <3>1. UNCHANGED <<files, procs>> /\ cli' = cli BY Zenon, <2>1 DEF mvars
    <3>2. FileTypes' /\ ProcTypes' BY Zenon, <3>1, TypeParts, FilesKept, ProcsKept
    <3>3. MTypeOK' BY Zenon, <3>1, <3>2 DEF MTypeOK, FileTypes, CliType, ProcTypes
    <3>4. main' = main /\ info' = info BY Zenon, <3>1 DEF procs
    <3>5. Resolved' BY <3>1, <3>4 DEF Resolved, Fit
    <3> QED BY Zenon, <3>3, <3>5
  <2> QED BY Zenon, <2>1, DaemonTypes, CommandTypes DEF MNext
<1> QED
  BY MInitTypes, <1>1, PTL DEF MSpec

\* Types are kept, whatever the commands and the daemons do.
THEOREM MountTypes == MSpec => []MTypeOK
  BY TypesInvariant, PTL

-----------------------------------------------------------------------------
(* What a command may rely on: the mounts that are in its way are gone.     *)

\* A daemon that can be found: from WriteMountEntry to the end of cleanup().
Live(d) == Reachable(d) /\ shut[d] # "done"

\* The registry names the live daemons, under their keys, and else only dead ones.
Registered ==
    /\ \A d \in Daemons : Live(d) => registry[info[d].key] = d
    /\ \A k \in Keys : registry[k] # None =>
         info[registry[k]].key = k /\ (main[registry[k]] \in Gone \/ Live(registry[k]))

\* Where a command is, or will be once it has stopped what it is stopping; and the daemons
\* it is stopping or has spawned.
Stage(c) == IF cli[c].pc \in {"stop", "await"} THEN cli[c].then ELSE cli[c].pc
Left(c) == IF cli[c].pc = "stop" THEN cli[c].todo
           ELSE IF cli[c].pc = "await" THEN cli[c].todo \cup {cli[c].wait}
           ELSE IF cli[c].pc = "ready" THEN {cli[c].wait} ELSE {}

Chosen == {"folder", "prompt", "claim", "spawn", "ready"}
Replaced == Chosen \cup {"point"}
Sole == Replaced \cup {"existing"}
Alone == Sole \cup {"others"}

\* What a start has seen to, step by step: no mount of another account; for a virtual one, no
\* other virtual one; none of the same key; none at the mount point.
Apart(c) ==
    LET i == cli[c].info IN
    \A d \in Daemons \ Left(c) : Live(d) =>
        /\ Stage(c) \in Alone => Owner(info[d].key) = Owner(i.key)
        /\ Stage(c) \in Sole /\ i.mode = "virtual" /\ info[d].mode = "virtual" => info[d].key = i.key
        /\ Stage(c) \in Replaced => info[d].key # i.key
        /\ Stage(c) \in Chosen => info[d].point # i.point

\* The entry of a daemon that is to be stopped or asked is that daemon's, or gone; the
\* daemon that is waited for is the one that was asked for.
Entry(d) == d \in Daemons /\ registry[info[d].key] \in {d, None}
Held(c) ==
    LET i == cli[c].info IN
    /\ cli[c].pc \in {"stop", "await"} =>
         /\ \A d \in cli[c].todo : Entry(d)
         /\ cli[c].then \in {"others", "existing", "point", "move", "idle"}
    /\ cli[c].pc = "send" => Entry(cli[c].wait)
    /\ cli[c].pc = "ready" =>
         LET j == info[cli[c].wait] IN
         cli[c].wait \in Daemons /\ j.key = i.key /\ j.mode = i.mode /\ j.point = i.point

\* A daemon that starts is waited for.
Awaited == \A d \in Daemons : main[d] \in Booting =>
              \E c \in Clis : cli[c].pc = "ready" /\ cli[c].wait = d

\* Mount points are not shared; a symlink is there from Map to Unmap, a cache from the
\* opening to cleanup().
PointsApart == \A d, e \in Daemons : Live(d) /\ Live(e) /\ info[d].point = info[e].point => d = e
Linked(d) ==
    Sync(d) /\ ~Direct(info[d]) /\ (main[d] = "mapped" \/ (Live(d) /\ shut[d] # "unmapped"))
        => link[info[d].point] = info[d].folder
Cached(d) == ~Sync(d) /\ (main[d] = "open" \/ Live(d)) => d \in caches

VisInv ==
    /\ Registered /\ Awaited /\ PointsApart
    /\ \A c \in Clis : Apart(c) /\ Held(c)
    /\ \A d \in Daemons : Linked(d) /\ Cached(d)

\* One command at a time, which waits for the daemons it stops and for the one it starts.
Orderly == (\A c, e \in Clis : c = e) /\ ~StopGivesUp /\ ~StartGivesUp

\* What is known of a daemon that starts: one command waits for it, and what else is live
\* is none of its account's virtual mounts if it is virtual, has another key and is mounted
\* elsewhere.
LEMMA BootAlone ==
    ASSUME Orderly, MTypeOK, MInv, VisInv, NEW e \in Daemons, main[e] \in Booting
    PROVE  /\ ~Live(e) /\ shut[e] = "no" /\ \A k \in Keys : registry[k] # e
           /\ \A d \in Daemons \ {e} : main[d] \notin Booting
           /\ \A c \in Clis : cli[c].pc = "ready" /\ cli[c].wait = e
           /\ \A d \in Daemons \ {e} : Live(d) =>
                /\ info[d].key # info[e].key /\ info[d].point # info[e].point
                /\ info[e].mode = "virtual" => info[d].mode # "virtual"
<1>1. PICK c \in Clis : cli[c].pc = "ready" /\ cli[c].wait = e
  BY Zenon DEF VisInv, Awaited
<1>2. \A b \in Clis : b = c
  BY Zenon DEF Orderly
<1>3. \A d \in Daemons : main[d] \in Booting => d = e
  BY Zenon, <1>1, <1>2 DEF VisInv, Awaited
<1>4. ~Live(e) /\ main[e] \notin Gone
  BY DEF Live, Reachable, Booting, Gone
<1>5. shut[e] = "no"
  BY Zenon DEF MInv, Quiet
<1>6. \A k \in Keys : registry[k] # e
  <2> SUFFICES ASSUME NEW k \in Keys, registry[k] = e PROVE FALSE
    OBVIOUS
  <2>1. e # None BY NoneAssumption
  <2>2. registry[k] # None => main[registry[k]] \in Gone \/ Live(registry[k])
    BY Zenon DEF VisInv, Registered
  <2> QED BY <1>4, <2>1, <2>2
<1>7. Stage(c) = "ready" /\ Left(c) = {e}
  BY <1>1 DEF Stage, Left
<1>8. {"ready"} \subseteq Chosen \cap Replaced \cap Sole \cap Alone
  BY DEF Chosen, Replaced, Sole, Alone
<1>9. /\ info[e].key = cli[c].info.key /\ info[e].point = cli[c].info.point
      /\ info[e].mode = cli[c].info.mode
  BY Zenon, <1>1 DEF VisInv, Held
<1>10. ASSUME NEW d \in Daemons \ {e}, Live(d)
       PROVE  /\ info[d].key # info[e].key /\ info[d].point # info[e].point
              /\ info[e].mode = "virtual" => info[d].mode # "virtual"
  <2>1. Apart(c) BY Zenon DEF VisInv
  <2> QED BY Zenon, <1>7, <1>8, <1>9, <1>10, <2>1 DEF Apart
<1> QED
  BY Zenon, <1>1, <1>2, <1>3, <1>4, <1>5, <1>6, <1>10

\* A daemon in a later phase of its shutdown still has its entry.
LEMMA ShuttingLive ==
    ASSUME MTypeOK, MInv, VisInv, NEW e \in Daemons, main[e] \notin Gone, shut[e] \notin {"no", "done"}
    PROVE  Live(e) /\ registry[info[e].key] = e
<1>1. main[e] \in MainPcs
  BY Zenon DEF MTypeOK
<1>2. main[e] \notin Booting
  BY Zenon DEF MInv, Quiet
<1>3. Live(e)
  BY <1>1, <1>2 DEF Live, Reachable, MainPcs, Booting, Gone
<1> QED
  BY Zenon, <1>3 DEF VisInv, Registered

\* A step of daemon e that touches neither the registry nor the commands, and leaves the
\* mounts that the other daemons show.
LEMMA DaemonVis ==
    ASSUME MTypeOK, VisInv, NEW e \in Daemons, UNCHANGED <<registry, cli>>,
           \A d \in Daemons : /\ info'[d].key = info[d].key /\ info'[d].mode = info[d].mode
                              /\ info'[d].point = info[d].point,
           \A d \in Daemons \ {e} : main'[d] = main[d] /\ shut'[d] = shut[d],
           Live(e)' => Live(e), main'[e] \in Booting => main[e] \in Booting,
           main[e] \notin Gone /\ (Live(e) => Live(e)' \/ main'[e] \in Gone),
           \A d \in Daemons : Linked(d)' /\ Cached(d)'
    PROVE  VisInv'
<1>1. \A d \in Daemons : Live(d)' => Live(d)
  BY Zenon DEF Live, Reachable
<1>2. \A d \in Daemons : Live(d) \/ main[d] \in Gone => Live(d)' \/ main'[d] \in Gone
  BY Zenon DEF Live, Reachable
<1>3. registry \in [Keys -> Daemons \cup {None}]
  BY Zenon DEF MTypeOK
<1>4. Registered'
  <2>1. \A d \in Daemons : Live(d)' => registry'[info'[d].key] = d
    <3>1. \A d \in Daemons : Live(d) => registry[info[d].key] = d
      BY Zenon DEF VisInv, Registered
    <3> QED BY <1>1, <3>1
  <2>2. ASSUME NEW k \in Keys, registry[k] # None
        PROVE  /\ info'[registry[k]].key = k
               /\ main'[registry[k]] \in Gone \/ Live(registry[k])'
    <3>1. registry[k] \in Daemons BY <1>3, <2>2
    <3> QED BY Zenon, <1>2, <2>2, <3>1 DEF VisInv, Registered
  <2> QED BY Zenon, <2>1, <2>2 DEF Registered, Live, Reachable
<1>5. Awaited'
  BY Zenon DEF VisInv, Awaited
<1>6. PointsApart'
  BY Zenon, <1>1 DEF VisInv, PointsApart
<1>7. ASSUME NEW c \in Clis PROVE Apart(c)' /\ Held(c)'
  <2>1. Apart(c) /\ Held(c) BY Zenon DEF VisInv
  <2>2. Stage(c)' = Stage(c) /\ Left(c)' = Left(c) BY Zenon DEF Stage, Left
  <2>3. Apart(c)'
    <3>1. ASSUME NEW d \in Daemons \ Left(c), Live(d)'
          PROVE  /\ Live(d) /\ info'[d].key = info[d].key /\ info'[d].mode = info[d].mode
                 /\ info'[d].point = info[d].point
      BY Zenon, <1>1, <3>1
    <3>2. ASSUME NEW d \in Daemons \ Left(c), Live(d)'
          PROVE  /\ Stage(c) \in Alone => Owner(info'[d].key) = Owner(cli[c].info.key)
                 /\ Stage(c) \in Sole /\ cli[c].info.mode = "virtual" /\ info'[d].mode = "virtual"
                      => info'[d].key = cli[c].info.key
                 /\ Stage(c) \in Replaced => info'[d].key # cli[c].info.key
                 /\ Stage(c) \in Chosen => info'[d].point # cli[c].info.point
      <4>1. /\ Live(d) /\ info'[d].key = info[d].key /\ info'[d].mode = info[d].mode
            /\ info'[d].point = info[d].point
        BY Zenon, <3>1, <3>2
      <4>2. /\ Stage(c) \in Alone => Owner(info[d].key) = Owner(cli[c].info.key)
            /\ Stage(c) \in Sole /\ cli[c].info.mode = "virtual" /\ info[d].mode = "virtual"
                 => info[d].key = cli[c].info.key
            /\ Stage(c) \in Replaced => info[d].key # cli[c].info.key
            /\ Stage(c) \in Chosen => info[d].point # cli[c].info.point
        BY Zenon, <2>1, <4>1 DEF Apart
      <4> QED BY Zenon, <4>1, <4>2
    <3> QED BY Zenon, <2>2, <3>2 DEF Apart, Owner
  <2>5. cli[c].pc \in {"stop", "await"} => \A d \in cli[c].todo : Entry(d)'
    BY Zenon, <2>1 DEF Held, Entry
  <2>6. cli[c].pc = "send" => Entry(cli[c].wait)'
    BY Zenon, <2>1 DEF Held, Entry
  <2> QED BY Zenon, <2>1, <2>3, <2>5, <2>6 DEF Held
<1> QED
  BY Zenon, <1>4, <1>5, <1>6, <1>7 DEF VisInv

\* A step that touches nothing the invariant speaks of.
LEMMA VisKept ==
    ASSUME VisInv, UNCHANGED <<registry, cli, info, link, caches, shut, main>>
    PROVE  VisInv'
<1>1. (Registered /\ Awaited /\ PointsApart)'
  BY DEF VisInv, Registered, Awaited, PointsApart, Live, Reachable
<1>2. ASSUME NEW c \in Clis PROVE Apart(c)' /\ Held(c)'
  <2>1. Stage(c)' = Stage(c) /\ Left(c)' = Left(c) BY DEF Stage, Left
  <2>2. Apart(c) /\ Held(c) BY Zenon DEF VisInv
  <2>3. Apart(c)' BY <2>1, <2>2 DEF Apart, Live, Reachable
  <2>4. Held(c)' BY <2>2 DEF Held, Entry
  <2> QED BY Zenon, <2>3, <2>4
<1>3. ASSUME NEW d \in Daemons PROVE Linked(d)' /\ Cached(d)'
  BY DEF VisInv, Linked, Cached, Live, Reachable, Sync
<1> QED
  BY Zenon, <1>1, <1>2, <1>3 DEF VisInv

\* A daemon shows its mount from MapDrive and WriteMountEntry to Unmount and cleanup().
LEMMA DaemonVisible ==
    ASSUME Orderly, MTypeOK, MInv, VisInv, NEW e \in Daemons, Starts(e) \/ Shuts(e) \/ Runs(e) \/ Faults(e)
    PROVE  VisInv'
<1>1. /\ registry \in [Keys -> Daemons \cup {None}] /\ link \in [Points -> Folders \cup {None}]
      /\ info \in [Daemons -> Infos] /\ main \in [Daemons -> MainPcs] /\ shut \in [Daemons -> Phases]
  BY Zenon DEF MTypeOK
<1>2. /\ Registered /\ Awaited /\ PointsApart
      /\ \A c \in Clis : Apart(c) /\ Held(c)
      /\ \A d \in Daemons : Linked(d) /\ Cached(d)
  BY Zenon DEF VisInv
<1>3. info[e] \in Infos
  BY <1>1
\* Links and caches stay: the step is seen in where e is and in how far its shutdown is.
<1>4. ASSUME UNCHANGED <<registry, cli, info, link, caches>>,
             \A d \in Daemons \ {e} : main'[d] = main[d] /\ shut'[d] = shut[d],
             main[e] \notin Gone,
             Live(e)' => Live(e) /\ (shut'[e] # "unmapped" => shut[e] # "unmapped"),
             main'[e] \in Booting => main[e] \in Booting,
             main'[e] # "mapped", main'[e] = "open" => Sync(e),
             Live(e) => Live(e)' \/ main'[e] \in Gone
      PROVE  VisInv'
  <2>1. \A d \in Daemons \ {e} : Linked(d)' /\ Cached(d)'
    BY Zenon, <1>2, <1>4 DEF Linked, Cached, Live, Reachable, Sync
  <2>2. Linked(e)' /\ Cached(e)'
    BY Zenon, <1>2, <1>4 DEF Linked, Cached, Sync
  <2>3. \A d \in Daemons : Linked(d)' /\ Cached(d)'
    BY Zenon, <2>1, <2>2
  <2> QED BY Zenon, <1>4, <2>3, DaemonVis
<1>5. CASE ResolveSyncDir(e)
  <2>1. main[e] = "spawned" /\ main' = [main EXCEPT ![e] = "claiming"]
        /\ UNCHANGED <<registry, cli, link, caches, shut>>
    BY Zenon, <1>5 DEF ResolveSyncDir, Step
  <2>2. /\ \A d \in Daemons \ {e} : info'[d] = info[d]
        /\ \A d \in Daemons : /\ info'[d].key = info[d].key /\ info'[d].mode = info[d].mode
                              /\ info'[d].point = info[d].point
    BY <1>1, <1>5 DEF ResolveSyncDir, Infos
  <2>3. \A d \in Daemons \ {e} : main'[d] = main[d] /\ shut'[d] = shut[d]
    BY <1>1, <2>1
  <2>4. main'[e] = "claiming" BY <1>1, <2>1
  <2>5. ~Live(e) /\ ~Live(e)' /\ main[e] \in Booting /\ main[e] \notin Gone
    BY <2>1, <2>4 DEF Live, Reachable, Booting, Gone
  <2>6. Linked(e)' /\ Cached(e)' BY <2>4, <2>5 DEF Linked, Cached
  <2>7. ASSUME NEW d \in Daemons \ {e} PROVE Linked(d)' /\ Cached(d)'
    <3>1. Linked(d) /\ Cached(d) BY Zenon, <1>2
    <3> QED BY Zenon, <2>1, <2>2, <2>3, <3>1 DEF Linked, Cached, Live, Reachable, Sync
  <2> QED BY Zenon, <2>1, <2>2, <2>3, <2>5, <2>6, <2>7, DaemonVis
<1>6. CASE ClaimSyncDir(e) \/ (Sync(e) /\ openMountRuntime(e))
  <2>1. /\ UNCHANGED <<registry, cli, info, link, caches, shut>>
        /\ \/ main[e] = "claiming" /\ main' = [main EXCEPT ![e] = "exited"]
           \/ main[e] = "claiming" /\ main' = [main EXCEPT ![e] = "claimed"]
           \/ main[e] = "claimed" /\ main' = [main EXCEPT ![e] = "open"] /\ Sync(e)
    BY Zenon, <1>6 DEF ClaimSyncDir, openMountRuntime, Step, files
  <2>2. \A d \in Daemons \ {e} : main'[d] = main[d] /\ shut'[d] = shut[d]
    BY <1>1, <2>1
  <2>3. /\ main[e] \in {"claiming", "claimed"} /\ main'[e] \in {"exited", "claimed", "open"}
        /\ main'[e] = "open" => Sync(e)
    BY <1>1, <2>1
  <2>4. /\ ~Live(e) /\ ~Live(e)' /\ main[e] \in Booting /\ main[e] \notin Gone /\ main'[e] # "mapped"
    BY <2>3 DEF Live, Reachable, Booting, Gone
  <2> QED BY Zenon, <1>4, <2>1, <2>2, <2>3, <2>4
<1>7. CASE ~Sync(e) /\ openMountRuntime(e)
  <2>1. /\ UNCHANGED <<registry, cli, info, link, shut>> /\ caches' = {e}
        /\ main[e] = "spawned" /\ main' = [main EXCEPT ![e] = "open"]
    BY Zenon, <1>7 DEF openMountRuntime, Step, files
  <2>2. \A d \in Daemons \ {e} : main'[d] = main[d] /\ shut'[d] = shut[d]
    BY <1>1, <2>1
  <2>3. main'[e] = "open" BY <1>1, <2>1
  <2>4. ~Live(e) /\ ~Live(e)' /\ main[e] \in Booting /\ main[e] \notin Gone
    BY <2>1, <2>3 DEF Live, Reachable, Booting, Gone
  <2>5. Linked(e)' /\ Cached(e)' BY <2>1, <2>3, <2>4 DEF Linked, Cached
  <2>6. info[e].mode = "virtual" BY <1>3, <1>7 DEF Sync, Infos, Modes
  <2>7. ASSUME NEW d \in Daemons \ {e} PROVE Linked(d)' /\ Cached(d)'
    <3>1. Linked(d) BY Zenon, <1>2
    <3>2. Linked(d)' BY Zenon, <2>1, <2>2, <3>1 DEF Linked, Live, Reachable, Sync
    <3>3. main[d] \notin Booting /\ (Live(d) => info[d].mode # "virtual")
      BY Zenon, <2>4, <2>6, BootAlone
    <3>4. "open" \in Booting BY DEF Booting
    <3>5. info[d].mode \in {"sync", "virtual"} BY <1>1 DEF Infos, Modes
    <3>6. (main[d] = "open" \/ Live(d)) => Sync(d) BY <3>3, <3>4, <3>5 DEF Sync
    <3>7. Cached(d)' BY Zenon, <2>1, <2>2, <3>6 DEF Cached, Live, Reachable, Sync
    <3> QED BY Zenon, <3>2, <3>7
  <2> QED BY Zenon, <2>1, <2>2, <2>4, <2>5, <2>7, DaemonVis
<1>8. CASE MapDrive(e)
  <2>1. /\ UNCHANGED <<registry, cli, info, caches, shut>>
        /\ main[e] = "open" /\ main' = [main EXCEPT ![e] = "mapped"] /\ Sync(e) /\ Mappable(info[e])
        /\ link' = IF Direct(info[e]) THEN link ELSE [link EXCEPT ![info[e].point] = info[e].folder]
    BY Zenon, <1>8 DEF MapDrive, Step
  <2>2. \A d \in Daemons \ {e} : main'[d] = main[d] /\ shut'[d] = shut[d]
    BY <1>1, <2>1
  <2>3. main'[e] = "mapped" BY <1>1, <2>1
  <2>4. ~Live(e) /\ ~Live(e)' /\ main[e] \in Booting /\ main[e] \notin Gone
    BY <2>1, <2>3 DEF Live, Reachable, Booting, Gone
  <2>5. ~Direct(info[e]) => link'[info[e].point] = info[e].folder
    BY <1>1, <2>1 DEF Mappable
  <2>6. Linked(e)' BY Zenon, <2>1, <2>5 DEF Linked
  <2>7. Cached(e)' BY <2>1, <2>4, <2>3 DEF Cached
  <2>8. ASSUME NEW d \in Daemons \ {e} PROVE Linked(d)' /\ Cached(d)'
    <3>1. Linked(d) /\ Cached(d) BY Zenon, <1>2
    <3>2. Cached(d)' BY Zenon, <2>1, <2>2, <3>1 DEF Cached, Live, Reachable, Sync
    <3>3. main[d] \notin Booting /\ (Live(d) => info[d].point # info[e].point)
      BY Zenon, <2>4, BootAlone
    <3>4. "mapped" \in Booting BY DEF Booting
    <3>5. Live(d) => link'[info[d].point] = link[info[d].point] BY <1>1, <2>1, <3>3
    <3>6. Live(d)' <=> Live(d) BY Zenon, <2>2 DEF Live, Reachable
    <3>7. Linked(d)' BY <2>1, <2>2, <3>1, <3>3, <3>4, <3>5, <3>6 DEF Linked, Sync
    <3> QED BY Zenon, <3>2, <3>7
  <2> QED BY Zenon, <2>1, <2>2, <2>4, <2>6, <2>7, <2>8, DaemonVis
<1>9. CASE WriteMountEntry(e)
  <2>1. /\ UNCHANGED <<cli, info, caches, shut, link>>
        /\ registry' = [registry EXCEPT ![info[e].key] = e]
        /\ \/ Sync(e) /\ main[e] = "mapped" /\ main' = [main EXCEPT ![e] = "initial"]
           \/ ~Sync(e) /\ main[e] = "open" /\ main' = [main EXCEPT ![e] = "mounting"]
    BY Zenon, <1>9 DEF WriteMountEntry, Step
  <2>2. \A d \in Daemons \ {e} : main'[d] = main[d] /\ shut'[d] = shut[d]
    BY <1>1, <2>1
  <2>3. /\ Sync(e) => main[e] = "mapped" /\ main'[e] = "initial"
        /\ ~Sync(e) => main[e] = "open" /\ main'[e] = "mounting"
    BY <1>1, <2>1
  <2>4. main[e] \in Booting /\ main'[e] \notin Booting /\ Reachable(e)'
    BY <2>3 DEF Reachable, Booting
  <2>5. shut[e] = "no" /\ ~Live(e) BY Zenon, <2>4, BootAlone
  <2>6. Live(e)' BY <2>1, <2>4, <2>5 DEF Live
  <2>7. ASSUME NEW d \in Daemons \ {e}
        PROVE  /\ Live(d)' <=> Live(d)
               /\ Live(d) => info[d].key # info[e].key /\ info[d].point # info[e].point
    <3>1. Live(d)' <=> Live(d) BY Zenon, <2>2 DEF Live, Reachable
    <3>2. Live(d) => info[d].key # info[e].key /\ info[d].point # info[e].point
      BY Zenon, <2>4, BootAlone
    <3> QED BY Zenon, <3>1, <3>2
  <2>8. info[e].key \in Keys BY <1>3 DEF Infos
  <2>9. registry'[info[e].key] = e /\ \A k \in Keys \ {info[e].key} : registry'[k] = registry[k]
    BY <1>1, <2>1, <2>8
  <2>10. Registered'
    <3>1. ASSUME NEW d \in Daemons, Live(d)' PROVE registry'[info'[d].key] = d
      <4>1. CASE d = e BY <2>1, <2>9, <4>1
      <4>2. CASE d # e
        <5>1. Live(d) /\ info[d].key # info[e].key BY Zenon, <2>7, <3>1, <4>2
        <5>2. info[d].key \in Keys BY <1>1 DEF Infos
        <5>3. registry[info[d].key] = d BY Zenon, <1>2, <5>1 DEF Registered
        <5> QED BY <2>1, <2>9, <5>1, <5>2, <5>3
      <4> QED BY Zenon, <4>1, <4>2
    <3>2. ASSUME NEW k \in Keys, registry'[k] # None
          PROVE  (info[registry[k]].key = k /\ (main[registry[k]] \in Gone \/ Live(registry[k])))'
      <4>1. CASE k = info[e].key
        <5>1. registry'[k] = e BY Zenon, <2>9, <4>1
        <5>2. info'[e].key = k BY Zenon, <2>1, <4>1
        <5> QED BY <2>6, <5>1, <5>2 DEF Live, Reachable
      <4>2. CASE k # info[e].key
        <5>1. registry'[k] = registry[k] BY Zenon, <2>9, <4>2
        <5>2. PICK d \in Daemons : d = registry[k] BY <1>1, <3>2, <5>1
        <5>3. d # e BY Zenon, <2>4, <5>2, BootAlone
        <5>4. info[d].key = k /\ (main[d] \in Gone \/ Live(d)) BY Zenon, <1>2, <3>2, <5>1, <5>2 DEF Registered
        <5>5. info'[d].key = k /\ (main'[d] \in Gone \/ Live(d)') BY Zenon, <2>1, <2>2, <2>7, <5>2, <5>3, <5>4
        <5> QED BY <5>1, <5>2, <5>5 DEF Live, Reachable
      <4> QED BY Zenon, <4>1, <4>2
    <3> QED BY Zenon, <3>1, <3>2 DEF Registered
  <2>11. Awaited' BY Zenon, <1>2, <2>1, <2>2, <2>4 DEF Awaited
  <2>12. PointsApart' BY Zenon, <1>2, <2>1, <2>6, <2>7 DEF PointsApart
  <2>13. ASSUME NEW c \in Clis PROVE Apart(c)' /\ Held(c)'
    <3>1. cli[c].pc = "ready" /\ cli[c].wait = e BY Zenon, <2>4, BootAlone
    <3>2. Left(c) = {e} /\ Left(c)' = {e} /\ Stage(c)' = Stage(c) BY <2>1, <3>1 DEF Left, Stage
    <3>3. Apart(c) /\ Held(c) BY Zenon, <1>2
    <3>4. Apart(c)' BY Zenon, <2>1, <2>7, <3>2, <3>3 DEF Apart
    <3>5. Held(c)' BY <2>1, <3>1, <3>3 DEF Held
    <3> QED BY Zenon, <3>4, <3>5
  <2>14. ASSUME NEW d \in Daemons PROVE Linked(d)' /\ Cached(d)'
    <3>1. Linked(d) /\ Cached(d) BY Zenon, <1>2
    <3>2. CASE d = e BY Zenon, <2>1, <2>3, <3>1, <3>2 DEF Linked, Cached, Sync
    <3>3. CASE d # e BY Zenon, <2>1, <2>2, <2>7, <3>1, <3>3 DEF Linked, Cached, Sync
    <3> QED BY Zenon, <3>2, <3>3
  <2> QED BY Zenon, <2>10, <2>11, <2>12, <2>13, <2>14 DEF VisInv
<1>10. CASE StartFails(e)
  <2>1. /\ UNCHANGED <<registry, cli, info, shut>> /\ main[e] \in {"spawned", "claimed", "open", "mapped"}
        /\ main' = [main EXCEPT ![e] = "exited"] /\ caches' = caches \ {e}
        /\ link' = IF main[e] = "mapped" THEN Unmapped(info[e]) ELSE link
    BY Zenon, <1>10 DEF StartFails
  <2>2. \A d \in Daemons \ {e} : main'[d] = main[d] /\ shut'[d] = shut[d]
    BY <1>1, <2>1
  <2>3. main'[e] = "exited" BY <1>1, <2>1
  <2>4. ~Live(e) /\ ~Live(e)' /\ main[e] \in Booting /\ main[e] \notin Gone
    BY <2>1, <2>3 DEF Live, Reachable, Booting, Gone
  <2>5. Linked(e)' /\ Cached(e)' BY <2>3, <2>4 DEF Linked, Cached
  <2>6. ASSUME NEW d \in Daemons \ {e} PROVE Linked(d)' /\ Cached(d)'
    <3>1. Linked(d) /\ Cached(d) BY Zenon, <1>2
    <3>2. main[d] \notin Booting /\ (Live(d) => info[d].point # info[e].point)
      BY Zenon, <2>4, BootAlone
    <3>3. "mapped" \in Booting BY DEF Booting
    <3>4. Live(d) => link'[info[d].point] = link[info[d].point] BY <1>1, <2>1, <3>2 DEF Unmapped
    <3>5. Live(d)' <=> Live(d) BY Zenon, <2>2 DEF Live, Reachable
    <3>6. Linked(d)' BY <2>1, <2>2, <3>1, <3>2, <3>3, <3>4, <3>5 DEF Linked, Sync
    <3>7. Cached(d)' BY <2>1, <2>2, <3>1, <3>5 DEF Cached, Sync
    <3> QED BY Zenon, <3>6, <3>7
  <2>7. "exited" \notin Booting BY DEF Booting
  <2> QED BY Zenon, <2>1, <2>2, <2>3, <2>4, <2>5, <2>6, <2>7, DaemonVis
<1>11. CASE InitialSyncReturns(e) \/ GateRun(e) \/ BackendMount(e) \/ Umounted(e)
  <2>1. /\ UNCHANGED <<registry, cli, info, link, caches, shut>>
        /\ \/ main[e] = "initial" /\ main' = [main EXCEPT ![e] = "synced"]
           \/ main[e] = "synced" /\ main' = [main EXCEPT ![e] = "serving"]
           \/ main[e] = "synced" /\ main' = [main EXCEPT ![e] = "leaving"]
           \/ main[e] = "mounting" /\ main' = [main EXCEPT ![e] = "mounted"]
           \/ main[e] = "mounting" /\ main' = [main EXCEPT ![e] = "unmounted"]
           \/ main[e] = "mounted" /\ main' = [main EXCEPT ![e] = "unmounted"]
    BY Zenon, <1>11 DEF InitialSyncReturns, GateRun, BackendMount, Umounted, Step, files
  <2>2. \A d \in Daemons \ {e} : main'[d] = main[d] /\ shut'[d] = shut[d]
    BY <1>1, <2>1
  <2>3. /\ main[e] \in {"initial", "synced", "mounting", "mounted"}
        /\ main'[e] \in {"synced", "serving", "leaving", "mounted", "unmounted"}
    BY <1>1, <2>1
  <2>4. /\ Reachable(e) /\ Reachable(e)' /\ main'[e] \notin Booting /\ main[e] \notin Gone
        /\ main'[e] \notin {"mapped", "open"}
    BY <2>3 DEF Reachable, Booting, Gone
  <2>5. (Live(e)' <=> Live(e)) /\ shut'[e] = shut[e] BY Zenon, <2>1, <2>4 DEF Live
  <2> HIDE <2>1
  <2>6. UNCHANGED <<registry, cli, info, link, caches>> BY Zenon, <2>1
  <2>7. main'[e] # "mapped" /\ main'[e] # "open" BY Zenon, <2>4
  <2> QED BY Zenon, <1>4, <2>2, <2>4, <2>5, <2>6, <2>7
<1>12. CASE beginShutdown(e) \/ DrainIPC(e) \/ AwaitInitialSync(e) \/ StopLoops(e)
  <2>1. /\ UNCHANGED <<registry, cli, info, link, caches, main>> /\ main[e] \notin Gone
        /\ \/ Reachable(e) /\ shut[e] = "no" /\ shut' = [shut EXCEPT ![e] = "closed"]
           \/ shut[e] = "closed" /\ shut' = [shut EXCEPT ![e] = "drained"]
           \/ shut[e] = "closed" /\ shut' = [shut EXCEPT ![e] = "settled"]
           \/ shut[e] = "drained" /\ shut' = [shut EXCEPT ![e] = "settled"]
           \/ shut[e] = "settled" /\ shut' = [shut EXCEPT ![e] = "stopped"]
    BY <1>12 DEF beginShutdown, DrainIPC, AwaitInitialSync, StopLoops, Phase, files
  <2>2. \A d \in Daemons \ {e} : main'[d] = main[d] /\ shut'[d] = shut[d]
    BY <1>1, <2>1
  <2>3. shut[e] \notin {"done", "unmapped"} /\ shut'[e] \notin {"done", "unmapped"}
    BY <1>1, <2>1
  <2>4. Live(e)
    <3>1. CASE shut[e] = "no" BY <2>1, <3>1 DEF Live
    <3>2. CASE shut[e] # "no"
      <4>1. shut[e] \notin {"no", "done"} BY <2>3, <3>2
      <4> QED BY Zenon, <2>1, <4>1, ShuttingLive
    <3> QED BY Zenon, <3>1, <3>2
  <2>5. Live(e)' BY Zenon, <2>1, <2>3, <2>4 DEF Live, Reachable
  <2>6. main'[e] \notin {"mapped", "open"} /\ main'[e] = main[e] BY <2>1, <2>4 DEF Live, Reachable
  <2>7. UNCHANGED <<registry, cli, info, link, caches>> /\ main[e] \notin Gone BY Zenon, <2>1
  <2>8. main'[e] # "mapped" /\ main'[e] # "open" /\ shut[e] # "unmapped" BY Zenon, <2>3, <2>6
  <2> QED BY Zenon, <1>4, <2>2, <2>4, <2>5, <2>6, <2>7, <2>8
<1>13. CASE Unmount(e)
  <2>1. /\ UNCHANGED <<registry, cli, info, caches>> /\ main[e] \notin Gone /\ shut[e] = "stopped"
        /\ shut' = [shut EXCEPT ![e] = "unmapped"] /\ link' = Unmapped(info[e])
        /\ main' = IF main[e] = "mounted" THEN [main EXCEPT ![e] = "unmounted"] ELSE main
    BY <1>13 DEF Unmount, Phase
  <2>2. \A d \in Daemons \ {e} : main'[d] = main[d] /\ shut'[d] = shut[d]
    BY <1>1, <2>1
  <2>3. shut'[e] = "unmapped" /\ main'[e] \in {main[e], "unmounted"} BY <1>1, <2>1
  <2>4. Live(e) BY <2>1, ShuttingLive
  <2>5. /\ Live(e)' /\ main[e] \notin Booting /\ main'[e] \notin Booting
        /\ main'[e] \notin {"mapped", "open"}
    BY <2>3, <2>4 DEF Live, Reachable, Booting
  <2>6. Linked(e)' BY <2>3, <2>5 DEF Linked
  <2>7. Cached(e)' BY <1>2, <2>1, <2>4 DEF Cached, Sync
  <2>8. ASSUME NEW d \in Daemons \ {e} PROVE Linked(d)' /\ Cached(d)'
    <3>1. Linked(d) /\ Cached(d) BY Zenon, <1>2
    <3>2. Live(d) => info[d].point # info[e].point BY Zenon, <1>2, <2>4 DEF PointsApart
    <3>3. main[d] = "mapped" => info[d].point # info[e].point
      <4> SUFFICES ASSUME main[d] = "mapped" PROVE info[d].point # info[e].point
        OBVIOUS
      <4>1. main[d] \in Booting BY DEF Booting
      <4>2. \A x \in Daemons \ {d} : Live(x) => info[x].point # info[d].point
        BY Zenon, <4>1, BootAlone
      <4> QED BY <2>4, <4>2
    <3>4. Live(d) \/ main[d] = "mapped" => link'[info[d].point] = link[info[d].point]
      BY <1>1, <2>1, <3>2, <3>3 DEF Unmapped
    <3>5. Live(d)' <=> Live(d) BY Zenon, <2>2 DEF Live, Reachable
    <3>6. Linked(d)' BY <2>1, <2>2, <3>1, <3>4, <3>5 DEF Linked, Sync
    <3>7. Cached(d)' BY <2>1, <2>2, <3>1, <3>5 DEF Cached, Sync
    <3> QED BY Zenon, <3>6, <3>7
  <2> QED BY Zenon, <2>1, <2>2, <2>4, <2>5, <2>6, <2>7, <2>8, DaemonVis
<1>14. CASE Cleanup(e)
  <2>1. /\ UNCHANGED <<cli, info, link, main>> /\ main[e] \notin Gone /\ shut[e] = "unmapped"
        /\ shut' = [shut EXCEPT ![e] = "done"] /\ caches' = caches \ {e}
        /\ registry' = [registry EXCEPT ![info[e].key] = None]
    BY <1>14 DEF Cleanup, Phase, EvictMountEntry
  <2>2. \A d \in Daemons \ {e} : shut'[d] = shut[d]
    BY <1>1, <2>1
  <2>3. shut'[e] = "done" BY <1>1, <2>1
  <2>4. Live(e) /\ registry[info[e].key] = e BY <2>1, ShuttingLive
  <2>5. ~Live(e)' /\ main[e] \notin Booting \cup {"mapped", "open"}
    BY <2>3, <2>4 DEF Live, Reachable, Booting
  <2>6. \A d \in Daemons \ {e} : Live(d)' <=> Live(d) BY Zenon, <2>1, <2>2 DEF Live, Reachable
  <2>7. info[e].key \in Keys BY <1>3 DEF Infos
  <2>8. registry'[info[e].key] = None /\ \A k \in Keys \ {info[e].key} : registry'[k] = registry[k]
    BY <1>1, <2>1, <2>7
  <2>9. Registered'
    <3>1. ASSUME NEW d \in Daemons, Live(d)' PROVE registry'[info'[d].key] = d
      <4>1. d # e /\ Live(d) BY Zenon, <2>5, <2>6, <3>1
      <4>2. info[d].key \in Keys BY <1>1 DEF Infos
      <4>3. registry[info[d].key] = d BY Zenon, <1>2, <4>1 DEF Registered
      <4> QED BY <2>1, <2>4, <2>8, <4>1, <4>2, <4>3
    <3>2. ASSUME NEW k \in Keys, registry'[k] # None
          PROVE  (info[registry[k]].key = k /\ (main[registry[k]] \in Gone \/ Live(registry[k])))'
      <4>1. k # info[e].key /\ registry'[k] = registry[k] BY Zenon, <2>8, <3>2
      <4>2. PICK d \in Daemons : d = registry[k] BY <1>1, <3>2, <4>1
      <4>3. info[d].key = k /\ (main[d] \in Gone \/ Live(d)) BY Zenon, <1>2, <3>2, <4>1, <4>2 DEF Registered
      <4>4. d # e BY Zenon, <4>1, <4>3
      <4>5. info'[d].key = k /\ (main'[d] \in Gone \/ Live(d)') BY Zenon, <2>1, <2>6, <4>2, <4>3, <4>4
      <4> QED BY <4>1, <4>2, <4>5 DEF Live, Reachable
    <3> QED BY Zenon, <3>1, <3>2 DEF Registered
  <2>10. Awaited' BY Zenon, <1>2, <2>1 DEF Awaited
  <2>11. PointsApart' BY Zenon, <1>2, <2>1, <2>5, <2>6 DEF PointsApart
  <2>12. \A d : Entry(d) => Entry(d)'
    <3> SUFFICES ASSUME NEW d, Entry(d) PROVE Entry(d)' OBVIOUS
    <3>1. d \in Daemons /\ info[d].key \in Keys BY <1>1 DEF Entry, Infos
    <3>2. registry'[info[d].key] \in {registry[info[d].key], None} BY Zenon, <2>8, <3>1
    <3>3. registry[info[d].key] \in {d, None} BY Zenon DEF Entry
    <3> QED BY <2>1, <3>1, <3>2, <3>3 DEF Entry
  <2>13. ASSUME NEW c \in Clis PROVE Apart(c)' /\ Held(c)'
    <3>1. Apart(c) /\ Held(c) BY Zenon, <1>2
    <3>2. Stage(c)' = Stage(c) /\ Left(c)' = Left(c) BY Zenon, <2>1 DEF Stage, Left
    <3>3. Apart(c)' BY Zenon, <2>1, <2>5, <2>6, <3>1, <3>2 DEF Apart
    <3>4. Held(c)' BY Zenon, <2>1, <2>12, <3>1 DEF Held
    <3> QED BY Zenon, <3>3, <3>4
  <2>14. ASSUME NEW d \in Daemons PROVE Linked(d)' /\ Cached(d)'
    <3>1. Linked(d) /\ Cached(d) BY Zenon, <1>2
    <3>2. CASE d = e BY <2>1, <2>5, <3>2 DEF Linked, Cached
    <3>3. CASE d # e BY <2>1, <2>2, <2>6, <3>1, <3>3 DEF Linked, Cached, Sync
    <3> QED BY Zenon, <3>2, <3>3
  <2> QED BY Zenon, <2>9, <2>10, <2>11, <2>13, <2>14 DEF VisInv
<1>15. CASE Exit(e) \/ Killed(e)
  <2>1. /\ UNCHANGED <<registry, cli, info, link, caches, shut>> /\ main[e] \notin Gone
        /\ \E how \in {"exited", "dead"} : main' = [main EXCEPT ![e] = how]
    BY <1>15 DEF Exit, Killed, EndProcess, files, Gone
  <2>2. \A d \in Daemons \ {e} : main'[d] = main[d] /\ shut'[d] = shut[d]
    BY <1>1, <2>1
  <2>3. main'[e] \in {"exited", "dead"} BY <1>1, <2>1
  <2>4. ~Live(e)' /\ main'[e] \in Gone /\ main'[e] \notin Booting /\ main'[e] # "mapped" /\ main'[e] # "open"
    BY <2>3 DEF Live, Reachable, Gone, Booting
  <2> QED BY Zenon, <1>4, <2>1, <2>2, <2>4
<1>16. CASE EndMutation(e) \/ LoopEnds(e)
  <2>1. UNCHANGED <<registry, cli, info, link, caches, shut, main>>
    BY Zenon, <1>16 DEF EndMutation, LoopEnds, files
  <2> QED BY Zenon, <2>1, VisKept
<1> QED
  BY Zenon, <1>5, <1>6, <1>7, <1>8, <1>9, <1>10, <1>11, <1>12, <1>13, <1>14, <1>15, <1>16
     DEF Starts, Shuts, Runs, Faults, ShutdownRequested, Signalled

\* A step of the command: no entry of a live daemon is removed, and what the command knows
\* of the live ones is right.
LEMMA CommandVis ==
    ASSUME Orderly, MTypeOK, VisInv, NEW c \in Clis, UNCHANGED <<info, main, shut, link, caches>>,
           \A k \in Keys : registry'[k] \in {registry[k], None},
           \A d \in Daemons : Live(d) => registry'[info[d].key] = d,
           Apart(c)', Held(c)', cli'[c].pc = "ready" \/ \A d \in Daemons : main[d] \notin Booting,
           cli'[c].pc = "ready" => cli[c] = cli'[c]
    PROVE  VisInv'
<1>1. \A d : Live(d)' <=> Live(d)
  BY Zenon DEF Live, Reachable
<1>2. Registered'
  <2>1. \A d \in Daemons : Live(d)' => registry'[info'[d].key] = d
    BY Zenon, <1>1
  <2>2. ASSUME NEW k \in Keys, registry'[k] # None
        PROVE  (info[registry[k]].key = k /\ (main[registry[k]] \in Gone \/ Live(registry[k])))'
    <3>1. registry'[k] = registry[k] BY Zenon, <2>2
    <3>2. info[registry[k]].key = k /\ (main[registry[k]] \in Gone \/ Live(registry[k]))
      BY Zenon, <2>2, <3>1 DEF VisInv, Registered
    <3> QED BY <3>1, <3>2 DEF Live, Reachable
  <2> QED BY Zenon, <2>1, <2>2 DEF Registered
<1>3. Awaited'
  <2>1. \A b \in Clis : b = c BY Zenon DEF Orderly
  <2> QED BY Zenon, <2>1 DEF VisInv, Awaited
<1>4. PointsApart'
  BY Zenon, <1>1 DEF VisInv, PointsApart
<1>5. \A b \in Clis : Apart(b)' /\ Held(b)'
  <2>1. \A b \in Clis : b = c BY Zenon DEF Orderly
  <2> QED BY <2>1
<1>6. \A d \in Daemons : Linked(d)' /\ Cached(d)'
  BY Zenon, <1>1 DEF VisInv, Linked, Cached, Sync
<1> QED
  BY Zenon, <1>2, <1>3, <1>4, <1>5, <1>6 DEF VisInv

\* No daemon starts unless the command waits for it.
LEMMA NoneBooting ==
    ASSUME Orderly, VisInv, NEW c \in Clis, cli[c].pc # "ready"
    PROVE  \A d \in Daemons : main[d] \notin Booting
<1>1. \A b \in Clis : b = c
  BY Zenon DEF Orderly
<1> QED
  BY Zenon, <1>1 DEF VisInv, Awaited

\* The registry lists every live daemon, and nothing under a key that is not the entry's.
LEMMA ListedLive ==
    ASSUME MTypeOK, VisInv
    PROVE  /\ \A d \in Daemons : Live(d) => d \in Listed /\ registry[info[d].key] = d
           /\ Listed \subseteq Daemons /\ \A d \in Listed : Entry(d)
           /\ \A k \in Keys : registry[k] # None =>
                registry[k] \in Listed /\ info[registry[k]].key = k
                /\ (Reachable(registry[k]) => Live(registry[k]))
<1>1. registry \in [Keys -> Daemons \cup {None}] /\ info \in [Daemons -> Infos]
  BY Zenon DEF MTypeOK
<1>2. Registered
  BY Zenon DEF VisInv
<1>3. ASSUME NEW d \in Daemons, Live(d) PROVE d \in Listed /\ registry[info[d].key] = d
  <2>1. info[d].key \in Keys /\ d # None BY <1>1, NoneAssumption DEF Infos
  <2>2. registry[info[d].key] = d BY Zenon, <1>2, <1>3 DEF Registered
  <2> QED BY <2>1, <2>2 DEF Listed
<1>4. Listed \subseteq Daemons
  BY <1>1 DEF Listed
<1>5. ASSUME NEW d \in Listed PROVE Entry(d)
  <2>1. PICK k \in Keys : d = registry[k] /\ d # None BY DEF Listed
  <2>2. info[d].key = k BY Zenon, <1>2, <2>1 DEF Registered
  <2> QED BY <1>4, <2>1, <2>2 DEF Entry
<1>6. ASSUME NEW k \in Keys, registry[k] # None
      PROVE  /\ registry[k] \in Listed /\ info[registry[k]].key = k
             /\ Reachable(registry[k]) => Live(registry[k])
  <2>1. registry[k] \in Listed BY <1>6 DEF Listed
  <2>2. info[registry[k]].key = k /\ (main[registry[k]] \in Gone \/ Live(registry[k]))
    BY Zenon, <1>2, <1>6 DEF Registered
  <2>3. main[registry[k]] \in Gone => ~Reachable(registry[k]) BY DEF Gone, Reachable
  <2> QED BY Zenon, <2>1, <2>2, <2>3
<1> QED
  BY Zenon, <1>3, <1>4, <1>5, <1>6

\* EvictMountEntry of a daemon that does not answer removes no live daemon's entry.
LEMMA EvictVis ==
    ASSUME MTypeOK, VisInv, NEW d, Entry(d), ~Reachable(d), EvictMountEntry(d), UNCHANGED info
    PROVE  /\ \A k \in Keys : registry'[k] \in {registry[k], None}
           /\ \A e \in Daemons : Live(e) => registry'[info[e].key] = e
           /\ \A e : Entry(e) => Entry(e)'
<1>1. registry \in [Keys -> Daemons \cup {None}] /\ info \in [Daemons -> Infos] /\ d \in Daemons
  BY Zenon DEF MTypeOK, Entry
<1>2. \A k \in Keys : registry'[k] = IF k = info[d].key THEN None ELSE registry[k]
  BY <1>1 DEF EvictMountEntry
<1>3. ASSUME NEW e \in Daemons, Live(e) PROVE registry'[info[e].key] = e
  <2>1. registry[info[e].key] = e /\ info[e].key \in Keys /\ e # None
    BY <1>1, <1>3, ListedLive, NoneAssumption DEF Infos
  <2>2. e # d BY <1>3 DEF Live
  <2>3. registry[info[d].key] \in {d, None} BY Zenon DEF Entry
  <2> QED BY <1>2, <2>1, <2>2, <2>3
<1>4. ASSUME NEW e, Entry(e) PROVE Entry(e)'
  <2>1. e \in Daemons /\ info[e].key \in Keys BY <1>1, <1>4 DEF Entry, Infos
  <2> QED BY <1>2, <1>4, <2>1 DEF Entry
<1> QED
  BY <1>2, <1>3, <1>4

\* What a command has seen to stays seen to: the stage is no later, and no live daemon is
\* dropped from those it still has to stop.
LEMMA ApartKept ==
    ASSUME VisInv, NEW c \in Clis, UNCHANGED <<info, main, shut>>,
           /\ cli'[c].info.key = cli[c].info.key /\ cli'[c].info.mode = cli[c].info.mode
           /\ cli'[c].info.point = cli[c].info.point,
           Stage(c)' = Stage(c) \/ {Stage(c), Stage(c)'} \subseteq Chosen,
           \A d \in Daemons : Live(d) /\ d \in Left(c) => d \in Left(c)'
    PROVE  Apart(c)'
<1>1. \A d : Live(d)' <=> Live(d)
  BY Zenon DEF Live, Reachable
<1>2. /\ Stage(c)' \in Alone => Stage(c) \in Alone
      /\ Stage(c)' \in Sole => Stage(c) \in Sole
      /\ Stage(c)' \in Replaced => Stage(c) \in Replaced
      /\ Stage(c)' \in Chosen => Stage(c) \in Chosen
  BY DEF Alone, Sole, Replaced
<1>3. Apart(c)
  BY Zenon DEF VisInv
<1>4. ASSUME NEW d \in Daemons, d \notin Left(c)', Live(d)' PROVE d \notin Left(c) /\ Live(d)
  BY Zenon, <1>1, <1>4
<1> QED
  BY Zenon, <1>2, <1>3, <1>4 DEF Apart

\* The commands: a start has stopped what is in its way when it spawns its daemon, and no
\* command removes the entry of a daemon that answers.
LEMMA CommandVisible ==
    ASSUME Orderly, MTypeOK, MInv, VisInv, NEW c \in Clis, Commands(c) \/ Continues(c)
    PROVE  VisInv'
<1>1. /\ cli \in [Clis -> CliType] /\ cli[c] \in CliType /\ cli[c].info \in Infos
      /\ info \in [Daemons -> Infos] /\ main \in [Daemons -> MainPcs] /\ shut \in [Daemons -> Phases]
      /\ cli[c].info.key \in Keys /\ registry \in [Keys -> Daemons \cup {None}]
  BY DEF MTypeOK, CliType, Infos
<1>2. Apart(c) /\ Held(c) /\ Registered
  BY Zenon DEF VisInv
<1>3. cli[c].pc # "ready" => \A d \in Daemons : main[d] \notin Booting
  BY Zenon, NoneBooting
\* The command goes on, and the registry stays.
<1>4. ASSUME UNCHANGED <<registry, info, main, shut, link, caches>>, Apart(c)', Held(c)',
             \A d \in Daemons : main[d] \notin Booting, cli'[c].pc # "ready"
      PROVE  VisInv'
  <2>1. \A d \in Daemons : Live(d) => registry'[info[d].key] = d BY Zenon, <1>4, ListedLive
  <2>2. \A k \in Keys : registry'[k] \in {registry[k], None} BY Zenon, <1>4
  <2> QED BY Zenon, <1>4, <2>1, <2>2, CommandVis
\* The command ends.
<1>5. ASSUME End(c), UNCHANGED <<info, main, shut, link, caches>>,
             \A k \in Keys : registry'[k] \in {registry[k], None},
             \A d \in Daemons : Live(d) => registry'[info[d].key] = d,
             \A d \in Daemons : main[d] \notin Booting
      PROVE  VisInv'
  <2>1. cli'[c] = NoCli BY <1>1, <1>5 DEF End
  <2>2. cli'[c].pc = "idle" BY Zenon, <2>1, NoCliType
  <2>3. Stage(c)' = "idle" BY <2>2 DEF Stage
  <2>4. "idle" \notin Alone \cup Sole \cup Replaced \cup Chosen BY DEF Alone, Sole, Replaced, Chosen
  <2>5. Apart(c)' BY <2>3, <2>4 DEF Apart
  <2>6. Held(c)' BY <2>2 DEF Held
  <2>7. cli'[c].pc # "ready" BY <2>2
  <2> QED BY Zenon, <1>5, <2>5, <2>6, <2>7, CommandVis
<1>6. ASSUME End(c), UNCHANGED <<registry, info, main, shut, link, caches>>,
             \A d \in Daemons : main[d] \notin Booting
      PROVE  VisInv'
  <2>1. \A d \in Daemons : Live(d) => registry'[info[d].key] = d BY Zenon, <1>6, ListedLive
  <2>2. \A k \in Keys : registry'[k] \in {registry[k], None} BY Zenon, <1>6
  <2> QED BY Zenon, <1>5, <1>6, <2>1, <2>2
<1>7. CASE \E k \in Keys, mode \in Modes, p \in Points \cup Named : runMountStart(c, k, mode, p)
  <2>1. PICK k \in Keys, mode \in Modes, p \in Points \cup Named : runMountStart(c, k, mode, p)
    BY Zenon, <1>7
  <2> DEFINE ds == {d \in Listed : Owner(info[d].key) # Owner(k)}
             i == [NoInfo EXCEPT !.key = k, !.mode = mode, !.point = p]
  <2>2. /\ cli[c].pc = "idle" /\ UNCHANGED <<registry, info, main, shut, link, caches>>
        /\ cli' = [cli EXCEPT ![c].pc = "stop", ![c].then = "others", ![c].todo = ds, ![c].info = i]
    BY Zenon, <2>1 DEF runMountStart, At, files, procs
  <2>3. i.key = k BY NoCliType DEF Infos
  <2> HIDE DEF i, ds
  <2>4. cli'[c].pc = "stop" /\ cli'[c].then = "others" /\ cli'[c].todo = ds /\ cli'[c].info.key = k
    BY <1>1, <2>2, <2>3 DEF CliType
  <2>5. Stage(c)' = "others" /\ Left(c)' = ds BY <2>4 DEF Stage, Left
  <2>6. "others" \notin Sole \cup Replaced \cup Chosen BY DEF Sole, Replaced, Chosen
  <2>7. ASSUME NEW d \in Daemons \ ds, Live(d)' PROVE Owner(info[d].key) = Owner(k)
    <3>1. Live(d) BY Zenon, <2>2, <2>7 DEF Live, Reachable
    <3>2. d \in Listed BY Zenon, <3>1, ListedLive
    <3> QED BY <2>7, <3>2 DEF ds
  <2>8. Apart(c)' BY <2>2, <2>4, <2>5, <2>6, <2>7 DEF Apart
  <2>9. \A d \in ds : Entry(d)' BY <2>2, ListedLive DEF Entry, ds
  <2>10. Held(c)' BY <2>4, <2>9 DEF Held
  <2>11. cli[c].pc # "ready" /\ cli'[c].pc # "ready" BY <2>2, <2>4
  <2> QED BY Zenon, <1>3, <1>4, <2>2, <2>8, <2>10, <2>11
\* The stops that are not part of a start.
<1>8. ASSUME UNCHANGED <<registry, info, main, shut, link, caches>>, cli[c].pc = "idle",
             NEW ds \in SUBSET Listed, NEW pc \in {"idle", "move"}, cli'[c].then = pc,
             \/ cli'[c].pc = "stop" /\ cli'[c].todo = ds
             \/ cli'[c].pc = "move"
      PROVE  VisInv'
  <2>1. Stage(c)' \in {"idle", "move"} BY <1>8 DEF Stage
  <2>2. {"idle", "move"} \cap (Alone \cup Sole \cup Replaced \cup Chosen) = {}
    BY DEF Alone, Sole, Replaced, Chosen
  <2>3. Apart(c)' BY <2>1, <2>2 DEF Apart
  <2>4. \A d \in ds : Entry(d)' BY <1>8, ListedLive DEF Entry
  <2>5. Held(c)' BY <1>8, <2>4 DEF Held
  <2>6. cli[c].pc # "ready" /\ cli'[c].pc # "ready" BY <1>8
  <2> QED BY Zenon, <1>3, <1>4, <1>8, <2>3, <2>5, <2>6
<1>9. CASE \E k \in Keys : runMountMv(c, k)
  <2>1. PICK k \in Keys : runMountMv(c, k) BY Zenon, <1>9
  <2> DEFINE d == registry[k]
             up == d # None /\ Reachable(d)
             i == [NoInfo EXCEPT !.key = k, !.folder = GetSyncDir(paths, k)]
             ds == IF up THEN {d} ELSE {}
             pc == IF up THEN "stop" ELSE "move"
  <2>2. /\ cli[c].pc = "idle" /\ UNCHANGED <<registry, info, main, shut, link, caches>>
        /\ cli' = [cli EXCEPT ![c].paths = paths, ![c].then = "move", ![c].pc = pc, ![c].todo = ds, ![c].info = i]
    BY Zenon, <2>1 DEF runMountMv, At, files, procs
  <2>3. ds \in SUBSET Listed BY ListedLive
  <2>4. pc \in {"stop", "move"} OBVIOUS
  <2> HIDE DEF ds, pc, i, d, up
  <2>5. cli'[c].pc = pc /\ cli'[c].then = "move" /\ cli'[c].todo = ds BY <1>1, <2>2 DEF CliType
  <2> QED BY <1>8, <2>2, <2>3, <2>4, <2>5
<1>10. CASE runMountStop(c)
  <2>1. PICK ds \in SUBSET Listed : StopThen(c, ds, "idle")
    BY <1>10 DEF runMountStop
  <2>2. cli[c].pc = "idle" /\ UNCHANGED <<registry, info, main, shut, link, caches>>
    BY Zenon, <1>10 DEF runMountStop, At, files, procs
  <2>3. cli'[c].pc = "stop" /\ cli'[c].then = "idle" /\ cli'[c].todo = ds
    BY <1>1, <2>1 DEF StopThen, CliType
  <2> QED BY <1>8, <2>2, <2>3
<1>11. CASE runMountRequest(c)
  <2>1. PICK d \in Listed : withMount(c, d)
    BY Zenon, <1>11 DEF runMountRequest
  <2>2. cli[c].pc = "idle" /\ UNCHANGED <<registry, info, main, shut, link, caches>>
    BY Zenon, <1>11 DEF runMountRequest, At, files, procs
  <2>3. cli'[c].pc = "send" /\ cli'[c].wait = d BY <1>1, <2>1 DEF withMount, CliType
  <2>4. Stage(c)' = "send" BY <2>3 DEF Stage
  <2>5. "send" \notin Alone \cup Sole \cup Replaced \cup Chosen BY DEF Alone, Sole, Replaced, Chosen
  <2>6. Apart(c)' BY <2>4, <2>5 DEF Apart
  <2>7. Entry(d)' BY <2>2, ListedLive DEF Entry
  <2>8. Held(c)' BY <2>3, <2>7 DEF Held
  <2>9. cli[c].pc # "ready" /\ cli'[c].pc # "ready" BY <2>2, <2>3
  <2> QED BY Zenon, <1>3, <1>4, <2>2, <2>6, <2>8, <2>9
<1>12. CASE stopEntry(c)
  <2>0. PICK d \in cli[c].todo :
           IF Reachable(d)
           THEN /\ asked' = IF shut[d] = "no" THEN asked \cup {d} ELSE asked
                /\ cli' = [cli EXCEPT ![c].pc = "await", ![c].wait = d, ![c].todo = @ \ {d}]
                /\ UNCHANGED registry
           ELSE /\ EvictMountEntry(d)
                /\ cli' = [cli EXCEPT ![c].todo = @ \ {d}]
                /\ UNCHANGED asked
    BY Zenon, <1>12 DEF stopEntry
  <2>1. cli[c].pc = "stop" /\ UNCHANGED <<info, main, shut, link, caches>>
    BY Zenon, <1>12 DEF stopEntry, At
  <2>2. /\ \A e \in cli[c].todo : Entry(e)
        /\ cli[c].then \in {"others", "existing", "point", "move", "idle"}
    BY <1>2, <2>1 DEF Held
  <2>3. cli[c].pc # "ready" BY <2>1
  <2>4. CASE Reachable(d)
    <3>1. /\ cli'[c].pc = "await" /\ cli'[c].wait = d /\ cli'[c].todo = cli[c].todo \ {d}
          /\ cli'[c].then = cli[c].then /\ cli'[c].info = cli[c].info /\ UNCHANGED registry
      BY <1>1, <2>0, <2>4 DEF CliType
    <3>2. Stage(c)' = Stage(c) /\ Left(c)' = Left(c) BY <2>1, <3>1 DEF Stage, Left
    <3>3. Apart(c)' BY Zenon, <2>1, <3>1, <3>2, ApartKept
    <3>4. \A e \in cli[c].todo : Entry(e)' BY <2>1, <2>2, <3>1 DEF Entry
    <3>5. Held(c)' BY <2>2, <3>1, <3>4 DEF Held
    <3>6. cli'[c].pc # "ready" BY <3>1
    <3> QED BY Zenon, <1>3, <1>4, <2>1, <2>3, <3>1, <3>3, <3>5, <3>6
  <2>5. CASE ~Reachable(d)
    <3>1. /\ cli'[c].pc = "stop" /\ cli'[c].todo = cli[c].todo \ {d}
          /\ cli'[c].then = cli[c].then /\ cli'[c].info = cli[c].info
      BY <1>1, <2>0, <2>1, <2>5 DEF CliType
    <3>2. Stage(c)' = Stage(c) /\ Left(c)' = Left(c) \ {d} BY <2>1, <3>1 DEF Stage, Left
    <3>3. \A e \in Daemons : Live(e) => e # d BY <2>5 DEF Live
    <3>4. Apart(c)'
      <4>1. \A e \in Daemons : Live(e) /\ e \in Left(c) => e \in Left(c)' BY <3>2, <3>3
      <4> QED BY Zenon, <2>1, <3>1, <3>2, <4>1, ApartKept
    <3>5. EvictMountEntry(d) /\ Entry(d) BY Zenon, <2>0, <2>2, <2>5
    <3>6. /\ \A k \in Keys : registry'[k] \in {registry[k], None}
          /\ \A e \in Daemons : Live(e) => registry'[info[e].key] = e
          /\ \A e : Entry(e) => Entry(e)'
      BY Zenon, <2>1, <2>5, <3>5, EvictVis
    <3>7. Held(c)'
      <4>1. \A e \in cli[c].todo : Entry(e)' BY Zenon, <2>2, <3>6
      <4> QED BY <2>2, <3>1, <4>1 DEF Held
    <3>8. cli'[c].pc # "ready" BY <3>1
    <3> QED BY Zenon, <1>3, <2>1, <2>3, <3>4, <3>6, <3>7, <3>8, CommandVis
  <2> QED BY Zenon, <2>4, <2>5
<1>13. CASE stopAwait(c)
  <2>1. /\ cli[c].pc = "await" /\ ~Reachable(cli[c].wait) /\ UNCHANGED <<registry, info, main, shut, link, caches>>
        /\ cli' = [cli EXCEPT ![c].pc = "stop", ![c].wait = None]
    BY Zenon, <1>13 DEF stopAwait, At, files, procs, Orderly
  <2>2. /\ cli'[c].pc = "stop" /\ cli'[c].todo = cli[c].todo
        /\ cli'[c].then = cli[c].then /\ cli'[c].info = cli[c].info
    BY <1>1, <2>1 DEF CliType
  <2>3. Stage(c)' = Stage(c) /\ Left(c)' = Left(c) \ ({cli[c].wait} \ cli[c].todo)
    BY <2>1, <2>2 DEF Stage, Left
  <2>4. \A e \in Daemons : Live(e) => e # cli[c].wait BY <2>1 DEF Live
  <2>5. Apart(c)'
    <3>1. \A e \in Daemons : Live(e) /\ e \in Left(c) => e \in Left(c)' BY <2>3, <2>4
    <3> QED BY Zenon, <2>1, <2>2, <2>3, <3>1, ApartKept
  <2>6. Held(c)' BY <1>2, <2>1, <2>2 DEF Held, Entry
  <2>7. cli[c].pc # "ready" /\ cli'[c].pc # "ready" BY <2>1, <2>2
  <2> QED BY Zenon, <1>3, <1>4, <2>1, <2>5, <2>6, <2>7
<1>14. CASE stopDone(c)
  <2>1. /\ cli[c].pc = "stop" /\ cli[c].todo = {} /\ UNCHANGED <<registry, info, main, shut, link, caches>>
        /\ IF cli[c].then = "idle" THEN End(c) ELSE Go(c, cli[c].then)
    BY Zenon, <1>14 DEF stopDone, At, files, procs
  <2>2. cli[c].pc # "ready" BY <2>1
  <2>3. CASE cli[c].then = "idle" BY Zenon, <1>3, <1>6, <2>1, <2>2, <2>3
  <2>4. CASE cli[c].then # "idle"
    <3>1. cli[c].then \in {"others", "existing", "point", "move"} BY <1>2, <2>1, <2>4 DEF Held
    <3>2. cli'[c].pc = cli[c].then /\ cli'[c].info = cli[c].info BY <1>1, <2>1, <2>4 DEF Go, CliType
    <3>3. Stage(c)' = Stage(c) /\ Left(c) = {} BY <2>1, <3>1, <3>2 DEF Stage, Left
    <3>4. Apart(c)' BY Zenon, <2>1, <3>2, <3>3, ApartKept
    <3>5. Held(c)' BY <3>1, <3>2 DEF Held
    <3>6. cli'[c].pc # "ready" BY <3>1, <3>2
    <3> QED BY Zenon, <1>3, <1>4, <2>1, <2>2, <3>4, <3>5, <3>6
  <2> QED BY Zenon, <2>3, <2>4
<1>15. CASE stopOthers(c)
  <2> DEFINE i == cli[c].info
             ds == {d \in Listed : /\ i.mode = "virtual" /\ info[d].mode = "virtual"
                                   /\ Owner(info[d].key) = Owner(i.key) /\ info[d].key # i.key}
  <2>1. /\ cli[c].pc = "others" /\ UNCHANGED <<registry, info, main, shut, link, caches>>
        /\ StopThen(c, ds, "existing")
    BY Zenon, <1>15 DEF stopOthers, At, files, procs
  <2>2. ds \subseteq Listed OBVIOUS
  <2>3. ASSUME NEW d \in Daemons, Live(d)
        PROVE  /\ Owner(info[d].key) = Owner(i.key)
               /\ d \notin ds /\ i.mode = "virtual" /\ info[d].mode = "virtual" => info[d].key = i.key
    <3>1. Stage(c) \in Alone /\ Left(c) = {} BY <2>1 DEF Stage, Left, Alone
    <3>2. Owner(info[d].key) = Owner(i.key) BY Zenon, <1>2, <2>3, <3>1 DEF Apart
    <3>3. d \in Listed BY Zenon, <2>3, ListedLive
    <3> QED BY Zenon, <3>2, <3>3
  <2> HIDE DEF ds
  <2>4. /\ cli'[c].pc = "stop" /\ cli'[c].todo = ds /\ cli'[c].then = "existing" /\ cli'[c].info = i
    BY <1>1, <2>1 DEF StopThen, CliType
  <2>5. Stage(c)' = "existing" /\ Left(c)' = ds BY <2>4 DEF Stage, Left
  <2>6. "existing" \notin Replaced \cup Chosen BY DEF Replaced, Chosen
  <2>7. \A d : Live(d)' <=> Live(d) BY Zenon, <2>1 DEF Live, Reachable
  <2>8. Apart(c)' BY <2>1, <2>3, <2>4, <2>5, <2>6, <2>7 DEF Apart
  <2>9. \A d \in ds : Entry(d)' BY <2>1, <2>2, ListedLive DEF Entry
  <2>10. Held(c)' BY <2>4, <2>9 DEF Held
  <2>11. cli[c].pc # "ready" /\ cli'[c].pc # "ready" BY <2>1, <2>4
  <2> QED BY Zenon, <1>3, <1>4, <2>1, <2>8, <2>10, <2>11
<1>16. CASE replaceExisting(c)
  <2> DEFINE k == cli[c].info.key
  <2>0. PICK d : d = registry[k] OBVIOUS
  <2>1. /\ cli[c].pc = "existing" /\ UNCHANGED <<info, main, shut, link, caches>>
        /\ \/ d = None /\ Go(c, "point") /\ UNCHANGED registry
           \/ d # None /\ ~Reachable(d) /\ EvictMountEntry(d) /\ Go(c, "point")
           \/ End(c) /\ UNCHANGED registry
           \/ d # None /\ StopThen(c, {d}, "point") /\ UNCHANGED registry
    BY Zenon, <1>16, <2>0 DEF replaceExisting, At, procs
  <2>2. d # None => Entry(d) /\ d \in Daemons
    BY Zenon, <1>1, <2>0, ListedLive
  <2>3. \A x \in Daemons : Live(x) =>
           /\ Owner(info[x].key) = Owner(k)
           /\ cli[c].info.mode = "virtual" /\ info[x].mode = "virtual" => info[x].key = k
           /\ info[x].key = k => x = d
    <3>1. Stage(c) \in Alone \cap Sole /\ Left(c) = {} BY <2>1 DEF Stage, Left, Alone, Sole
    <3>2. \A x \in Daemons : Live(x) => registry[info[x].key] = x BY Zenon, ListedLive
    <3> QED BY <1>2, <2>0, <3>1, <3>2 DEF Apart
  <2>4. \A x : Live(x)' <=> Live(x) BY Zenon, <2>1 DEF Live, Reachable
  <2>5. "point" \notin Chosen BY DEF Chosen
  <2>6. cli[c].pc # "ready" BY <2>1
  <2>7. CASE Go(c, "point") /\ (d = None \/ ~Reachable(d))
    <3>1. cli'[c].pc = "point" /\ cli'[c].info = cli[c].info BY <1>1, <2>7 DEF Go, CliType
    <3>2. Stage(c)' = "point" /\ Left(c)' = {} BY <3>1 DEF Stage, Left
    <3>3. \A x \in Daemons : Live(x) => x # d BY <2>7, NoneAssumption DEF Live
    <3>4. Apart(c)' BY <2>1, <2>3, <2>4, <2>5, <3>1, <3>2, <3>3 DEF Apart
    <3>5. Held(c)' BY <3>1 DEF Held
    <3>6. cli'[c].pc # "ready" BY <3>1
    <3>7. CASE UNCHANGED registry BY Zenon, <1>3, <1>4, <2>1, <2>6, <3>4, <3>5, <3>6, <3>7
    <3>8. CASE d # None /\ ~Reachable(d) /\ EvictMountEntry(d)
      <4>1. /\ \A q \in Keys : registry'[q] \in {registry[q], None}
            /\ \A e \in Daemons : Live(e) => registry'[info[e].key] = e
        BY Zenon, <2>1, <2>2, <3>8, EvictVis
      <4> QED BY Zenon, <1>3, <2>1, <2>6, <3>4, <3>5, <3>6, <4>1, CommandVis
    <3> QED
      <4>1. UNCHANGED registry \/ (d # None /\ ~Reachable(d) /\ EvictMountEntry(d)) BY Zenon, <2>1
      <4> QED BY Zenon, <3>7, <3>8, <4>1
  <2>8. CASE End(c) /\ UNCHANGED registry BY Zenon, <1>3, <1>6, <2>1, <2>6, <2>8
  <2>9. CASE d # None /\ StopThen(c, {d}, "point") /\ UNCHANGED registry
    <3>1. /\ cli'[c].pc = "stop" /\ cli'[c].todo = {d} /\ cli'[c].then = "point"
          /\ cli'[c].info = cli[c].info
      BY <1>1, <2>9 DEF StopThen, CliType
    <3>2. Stage(c)' = "point" /\ Left(c)' = {d} BY <3>1 DEF Stage, Left
    <3>3. Apart(c)' BY <2>1, <2>3, <2>4, <2>5, <3>1, <3>2 DEF Apart
    <3>4. Entry(d)' BY <2>1, <2>2, <2>9 DEF Entry
    <3>5. Held(c)' BY <3>1, <3>4 DEF Held
    <3>6. cli'[c].pc # "ready" BY <3>1
    <3> QED BY Zenon, <1>3, <1>4, <2>1, <2>6, <2>9, <3>3, <3>5, <3>6
  <2> QED BY Zenon, <2>1, <2>7, <2>8, <2>9
<1>17. CASE checkPoint(c)
  <2> DEFINE i == cli[c].info
  <2>1. /\ cli[c].pc = "point" /\ UNCHANGED <<registry, info, main, shut, link, caches>>
        /\ \/ End(c)
           \/ ~PointInUse(i) /\ \E pc \in {"folder", "spawn"} : Go(c, pc)
    BY Zenon, <1>17 DEF checkPoint, At, files, procs
  <2>2. cli[c].pc # "ready" BY <2>1
  <2>3. CASE End(c) BY Zenon, <1>3, <1>6, <2>1, <2>2, <2>3
  <2>4. ASSUME ~PointInUse(i), NEW pc \in {"folder", "spawn"}, Go(c, pc) PROVE VisInv'
    <3>1. cli'[c].pc = pc /\ cli'[c].info = i BY <1>1, <2>4 DEF Go, CliType
    <3>2. Stage(c)' = pc /\ Left(c)' = {} BY <3>1 DEF Stage, Left
    <3>3. Stage(c) \in Alone \cap Sole \cap Replaced /\ Left(c) = {}
      BY <2>1 DEF Stage, Left, Alone, Sole, Replaced
    <3>4. ASSUME NEW x \in Daemons, Live(x)
          PROVE  /\ Owner(info[x].key) = Owner(i.key)
                 /\ i.mode = "virtual" /\ info[x].mode = "virtual" => info[x].key = i.key
                 /\ info[x].key # i.key /\ info[x].point # i.point
      <4>1. /\ Owner(info[x].key) = Owner(i.key) /\ info[x].key # i.key
            /\ i.mode = "virtual" /\ info[x].mode = "virtual" => info[x].key = i.key
        BY <1>2, <3>3, <3>4 DEF Apart
      <4>2. x \in Listed /\ Reachable(x) BY Zenon, <3>4, ListedLive DEF Live
      <4> QED BY Zenon, <2>4, <4>1, <4>2 DEF PointInUse
    <3>5. \A x : Live(x)' <=> Live(x) BY Zenon, <2>1 DEF Live, Reachable
    <3>6. Apart(c)' BY <2>1, <3>1, <3>2, <3>4, <3>5 DEF Apart
    <3>7. Held(c)' BY <3>1 DEF Held
    <3>8. cli'[c].pc # "ready" BY <3>1
    <3> QED BY Zenon, <1>3, <1>4, <2>1, <2>2, <3>6, <3>7, <3>8
  <2> QED BY Zenon, <2>1, <2>3, <2>4
\* From here to the spawn the command chooses a folder.
<1>18. CASE loadPaths(c) \/ chooseFolder(c) \/ claimFolder(c)
  <2>1. cli[c].pc \in {"folder", "prompt", "claim"} /\ UNCHANGED <<registry, info, main, shut, link, caches>>
    BY <1>18 DEF loadPaths, chooseFolder, claimFolder, At, files, procs
  <2>2. \/ End(c)
        \/ /\ cli'[c].pc \in {"prompt", "claim", "spawn"} /\ cli'[c].info.key = cli[c].info.key
           /\ cli'[c].info.mode = cli[c].info.mode /\ cli'[c].info.point = cli[c].info.point
    <3>1. CASE loadPaths(c) BY <1>1, <3>1 DEF loadPaths, CliType
    <3>2. CASE chooseFolder(c)
      <4>1. \/ End(c)
            \/ \E f, o : cli' = [cli EXCEPT ![c].pc = "claim", ![c].info.folder = f, ![c].info.seen = o]
        BY Zenon, <3>2 DEF chooseFolder
      <4>2. ASSUME NEW f, NEW o,
                   cli' = [cli EXCEPT ![c].pc = "claim", ![c].info.folder = f, ![c].info.seen = o]
            PROVE  /\ cli'[c].pc = "claim" /\ cli'[c].info.key = cli[c].info.key
                   /\ cli'[c].info.mode = cli[c].info.mode /\ cli'[c].info.point = cli[c].info.point
        <5> DEFINE i == [cli[c].info EXCEPT !.folder = f, !.seen = o]
        <5>1. cli' = [cli EXCEPT ![c] = [@ EXCEPT !.pc = "claim", !.info = i]]
          BY <1>1, <4>2 DEF CliType, Infos
        <5>2. i.key = cli[c].info.key /\ i.mode = cli[c].info.mode /\ i.point = cli[c].info.point
          BY <1>1 DEF Infos
        <5> HIDE DEF i
        <5>3. cli'[c].pc = "claim" /\ cli'[c].info = i BY <1>1, <5>1 DEF CliType
        <5> QED BY Zenon, <5>2, <5>3
      <4> QED BY Zenon, <4>1, <4>2
    <3>3. CASE claimFolder(c) BY <1>1, <3>3 DEF claimFolder, Go, CliType
    <3> QED BY Zenon, <1>18, <3>1, <3>2, <3>3
  <2>3. cli[c].pc # "ready" BY <2>1
  <2>4. CASE End(c) BY Zenon, <1>3, <1>6, <2>1, <2>3, <2>4
  <2>5. CASE /\ cli'[c].pc \in {"prompt", "claim", "spawn"} /\ cli'[c].info.key = cli[c].info.key
             /\ cli'[c].info.mode = cli[c].info.mode /\ cli'[c].info.point = cli[c].info.point
    <3>1. {Stage(c), Stage(c)'} \subseteq Chosen /\ Left(c) = {}
      BY <2>1, <2>5 DEF Stage, Left, Chosen
    <3>2. Apart(c)' BY Zenon, <2>1, <2>5, <3>1, ApartKept
    <3>3. Held(c)' BY <2>5 DEF Held
    <3>4. cli'[c].pc # "ready" BY <2>5
    <3> QED BY Zenon, <1>3, <1>4, <2>1, <2>3, <3>2, <3>3, <3>4
  <2> QED BY Zenon, <2>2, <2>4, <2>5
<1>19. CASE spawnBackground(c)
  <2> DEFINE e == CHOOSE x \in FreeDaemons : TRUE
             i == [cli[c].info EXCEPT !.folder = None, !.seen = None]
  <2>0. PICK d : d = e OBVIOUS
  <2>1. d \in Daemons /\ d \notin Listed /\ main[d] \in Gone BY <1>19, <2>0 DEF spawnBackground, FreeDaemons
  <2> HIDE DEF e
  <2>2. i.key = cli[c].info.key /\ i.mode = cli[c].info.mode /\ i.point = cli[c].info.point
    BY <1>1 DEF Infos
  <2> HIDE DEF i
  <2>3. /\ cli[c].pc = "spawn" /\ UNCHANGED <<registry, link>>
        /\ cli' = [cli EXCEPT ![c].pc = "ready", ![c].wait = d] /\ info' = [info EXCEPT ![d] = i]
        /\ main' = [main EXCEPT ![d] = "spawned"] /\ shut' = [shut EXCEPT ![d] = "no"]
        /\ caches' = caches \ {d}
    BY Zenon, <1>19, <2>0 DEF spawnBackground, At, files, e, i
  <2>4. /\ cli'[c].pc = "ready" /\ cli'[c].wait = d /\ cli'[c].info = cli[c].info
        /\ info'[d] = i /\ main'[d] = "spawned"
        /\ \A x \in Daemons \ {d} : info'[x] = info[x] /\ main'[x] = main[x] /\ shut'[x] = shut[x]
    BY <1>1, <2>1, <2>3 DEF CliType
  <2>5. ~Live(d)' BY <2>4 DEF Live, Reachable
  <2>6. \A x \in Daemons \ {d} : Live(x)' <=> Live(x) BY Zenon, <2>4 DEF Live, Reachable
  <2>7. Registered'
    <3>1. \A x \in Daemons : Live(x)' => (registry[info[x].key])' = x
      <4>1. \A x \in Daemons : Live(x) => registry[info[x].key] = x BY Zenon, ListedLive
      <4> QED BY <2>3, <2>4, <2>5, <2>6, <4>1
    <3>2. ASSUME NEW q \in Keys, registry'[q] # None
          PROVE  (info[registry[q]].key = q /\ (main[registry[q]] \in Gone \/ Live(registry[q])))'
      <4>1. PICK x \in Daemons : x = registry[q] BY <1>1, <2>3, <3>2
      <4>2. x \in Listed BY <2>3, <3>2, <4>1 DEF Listed
      <4>3. x # d BY Zenon, <2>1, <4>2
      <4>4. info[x].key = q /\ (main[x] \in Gone \/ Live(x)) BY Zenon, <1>2, <2>3, <3>2, <4>1 DEF Registered
      <4>5. info'[x].key = q /\ (main'[x] \in Gone \/ Live(x)') BY Zenon, <2>4, <2>6, <4>3, <4>4
      <4> QED BY <2>3, <4>1, <4>5 DEF Live, Reachable
    <3> QED BY Zenon, <3>1, <3>2 DEF Registered
  <2>8. cli[c].pc # "ready" BY <2>3
  <2>9. Awaited' BY Zenon, <1>3, <2>4, <2>8 DEF Awaited
  <2>10. PointsApart'
    <3>1. PointsApart BY Zenon DEF VisInv
    <3>2. \A x \in Daemons : Live(x)' => x # d /\ Live(x) /\ info'[x] = info[x] BY Zenon, <2>4, <2>5, <2>6
    <3> QED BY Zenon, <3>1, <3>2 DEF PointsApart
  <2>11. Apart(c)' /\ Held(c)'
    <3>1. Stage(c)' = "ready" /\ Left(c)' = {d} BY <2>4 DEF Stage, Left
    <3>2. Stage(c) \in Alone \cap Sole \cap Replaced \cap Chosen /\ Left(c) = {}
      BY <2>3 DEF Stage, Left, Alone, Sole, Replaced, Chosen
    <3>3. ASSUME NEW x \in Daemons \ {d}, Live(x)'
          PROVE  /\ Owner(info'[x].key) = Owner(cli'[c].info.key)
                 /\ cli'[c].info.mode = "virtual" /\ info'[x].mode = "virtual"
                      => info'[x].key = cli'[c].info.key
                 /\ info'[x].key # cli'[c].info.key /\ info'[x].point # cli'[c].info.point
      <4>1. Live(x) /\ info'[x] = info[x] /\ x \notin Left(c) BY <2>4, <2>6, <3>2, <3>3
      <4>2. /\ Owner(info[x].key) = Owner(cli[c].info.key)
            /\ cli[c].info.mode = "virtual" /\ info[x].mode = "virtual" => info[x].key = cli[c].info.key
            /\ info[x].key # cli[c].info.key /\ info[x].point # cli[c].info.point
        BY Zenon, <1>2, <3>2, <4>1 DEF Apart
      <4> QED BY Zenon, <2>4, <4>1, <4>2
    <3>4. Apart(c)' BY Zenon, <3>1, <3>3 DEF Apart
    <3>5. Held(c)' BY <2>1, <2>2, <2>4 DEF Held
    <3> QED BY Zenon, <3>4, <3>5
  <2>12. \A b \in Clis : Apart(b)' /\ Held(b)'
    <3>1. \A b \in Clis : b = c BY Zenon DEF Orderly
    <3> QED BY <2>11, <3>1
  <2>13. ASSUME NEW x \in Daemons PROVE Linked(x)' /\ Cached(x)'
    <3>1. Linked(x) /\ Cached(x) BY Zenon DEF VisInv
    <3>2. CASE x = d BY <2>4, <2>5, <3>2 DEF Linked, Cached
    <3>3. CASE x # d BY <2>3, <2>4, <2>6, <3>1, <3>3 DEF Linked, Cached, Sync
    <3> QED BY Zenon, <3>2, <3>3
  <2> QED BY Zenon, <2>7, <2>9, <2>10, <2>12, <2>13 DEF VisInv
<1>20. CASE awaitReady(c)
  <2> DEFINE k == cli[c].info.key
  <2>0. PICK d : d = registry[k] OBVIOUS
  <2>1. /\ cli[c].pc = "ready" /\ UNCHANGED <<registry, info, main, shut, link, caches>> /\ End(c)
        /\ main[cli[c].wait] \in Gone \/ (d # None /\ Reachable(d))
    BY Zenon, <1>20, <2>0 DEF awaitReady, At, files, procs, Orderly
  <2>2. Gone \cap Booting = {} /\ (Reachable(cli[c].wait) => main[cli[c].wait] \notin Booting)
    BY DEF Gone, Booting, Reachable
  <2>3. ASSUME d # None, Reachable(d) PROVE d = cli[c].wait
    <3>1. d \in Daemons /\ Live(d) /\ info[d].key = k BY <1>1, <2>0, <2>3, ListedLive
    <3>2. Stage(c) \in Replaced /\ Left(c) = {cli[c].wait} BY <2>1 DEF Stage, Left, Replaced, Chosen
    <3> QED BY <1>2, <3>1, <3>2 DEF Apart
  <2>4. main[cli[c].wait] \notin Booting BY <2>1, <2>2, <2>3
  <2>5. \A x \in Daemons : main[x] \notin Booting
    <3>1. \A b \in Clis : b = c BY Zenon DEF Orderly
    <3> QED BY Zenon, <2>4, <3>1 DEF VisInv, Awaited
  <2> QED BY Zenon, <1>6, <2>1, <2>5
<1>21. CASE SendRequest(c)
  <2>1. /\ cli[c].pc = "send" /\ End(c) /\ UNCHANGED <<info, main, shut, link, caches>>
        /\ UNCHANGED registry \/ (~Reachable(cli[c].wait) /\ EvictMountEntry(cli[c].wait))
    BY Zenon, <1>21 DEF SendRequest, At
  <2>2. cli[c].pc # "ready" /\ Entry(cli[c].wait) BY <1>2, <2>1 DEF Held
  <2>3. CASE UNCHANGED registry BY Zenon, <1>3, <1>6, <2>1, <2>2, <2>3
  <2>4. CASE ~Reachable(cli[c].wait) /\ EvictMountEntry(cli[c].wait)
    <3>1. PICK d : d = cli[c].wait OBVIOUS
    <3>2. Entry(d) /\ ~Reachable(d) /\ EvictMountEntry(d) BY <2>2, <2>4, <3>1
    <3>3. /\ \A q \in Keys : registry'[q] \in {registry[q], None}
          /\ \A e \in Daemons : Live(e) => registry'[info[e].key] = e
      BY Zenon, <2>1, <3>2, EvictVis
    <3> QED BY Zenon, <1>3, <1>5, <2>1, <2>2, <3>3
  <2> QED BY Zenon, <2>1, <2>3, <2>4
<1>22. CASE mvRename(c)
  <2>1. cli[c].pc = "move" /\ UNCHANGED <<registry, info, main, shut, link, caches>>
    BY Zenon, <1>22 DEF mvRename, At, procs
  <2>2. End(c) \/ cli'[c].pc = "save" BY <1>1, <1>22 DEF mvRename, CliType
  <2>3. cli[c].pc # "ready" BY <2>1
  <2>4. CASE End(c) BY Zenon, <1>3, <1>6, <2>1, <2>3, <2>4
  <2>5. CASE cli'[c].pc = "save"
    <3>1. Stage(c)' = "save" BY <2>5 DEF Stage
    <3>2. "save" \notin Alone \cup Sole \cup Replaced \cup Chosen BY DEF Alone, Sole, Replaced, Chosen
    <3>3. Apart(c)' BY <3>1, <3>2 DEF Apart
    <3>4. Held(c)' BY <2>5 DEF Held
    <3>5. cli'[c].pc # "ready" BY <2>5
    <3> QED BY Zenon, <1>3, <1>4, <2>1, <2>3, <3>3, <3>4, <3>5
  <2> QED BY Zenon, <2>2, <2>4, <2>5
<1>23. CASE mvSave(c) \/ Interrupted(c)
  <2>1. /\ cli[c].pc # "ready" /\ End(c) /\ UNCHANGED <<registry, info, main, shut, link, caches>>
    BY <1>23 DEF mvSave, Interrupted, At, files, procs, Orderly
  <2> QED BY Zenon, <1>3, <1>6, <2>1
<1> QED
  BY Zenon, <1>7, <1>9, <1>10, <1>11, <1>12, <1>13, <1>14, <1>15, <1>16, <1>17, <1>18, <1>19, <1>20,
     <1>21, <1>22, <1>23 DEF Commands, Continues

\* The first state: no daemon, no entry, no command.
LEMMA MInitVisible == MInit => VisInv
<1> SUFFICES ASSUME MInit PROVE VisInv
  OBVIOUS
<1>1. \A d \in Daemons : main[d] = "none"
  BY DEF MInit
<1>2. \A d \in Daemons : ~Live(d) /\ main[d] \notin Booting
  BY <1>1 DEF Live, Reachable, Booting
<1>3. Registered /\ Awaited /\ PointsApart
  BY <1>2 DEF MInit, Registered, Awaited, PointsApart
<1>4. ASSUME NEW c \in Clis PROVE Apart(c) /\ Held(c)
  <2>1. cli[c].pc = "idle" BY DEF MInit, NoCli
  <2> QED BY <1>2, <2>1 DEF Apart, Held
<1>5. \A d \in Daemons : Linked(d) /\ Cached(d)
  BY <1>1, <1>2 DEF Linked, Cached
<1> QED
  BY Zenon, <1>3, <1>4, <1>5 DEF VisInv

\* The inductive invariant, for one command at a time that does not give up.
THEOREM VisInvariant ==
    ASSUME Orderly
    PROVE  MSpec => []VisInv
<1>1. MTypeOK /\ MInv /\ VisInv /\ [MNext]_mvars => VisInv'
  <2> SUFFICES ASSUME MTypeOK, MInv, VisInv, [MNext]_mvars PROVE VisInv'
    OBVIOUS
  <2>1. CASE UNCHANGED mvars
    <3>1. UNCHANGED <<registry, cli, info, link, caches, shut, main>>
      BY Zenon, <2>1 DEF mvars, files, procs
    <3> QED BY Zenon, <3>1, VisKept
  <2> QED BY Zenon, <2>1, DaemonVisible, CommandVisible DEF MNext
<1> QED
  BY MInitVisible, MountTypes, MInvariant, <1>1, PTL DEF MSpec

\* A daemon that serves and was not told to stop can be found and used: the registry names
\* it, its mount point leads to its folder, its cache is there; whatever the daemons do and
\* wherever they are killed, as long as the commands come one after the other and each waits
\* for the daemons it stops and starts.
THEOREM ServingFound ==
    ASSUME Orderly
    PROVE  MSpec => []ServingIsVisible
<1>1. VisInv => ServingIsVisible
  BY DEF VisInv, Registered, Linked, Cached, Live, ServingIsVisible
<1> QED
  BY VisInvariant, <1>1, PTL
-----------------------------------------------------------------------------
(* A folder and its account.                                                *)

\* What a command or a daemon has read of the owner file is what it says when the claim is
\* written; a folder that was claimed is the account's when the database is opened, which is
\* after the folder was chosen.
Known(c) == cli[c].pc = "claim" => cli[c].info.seen = owner[cli[c].info.folder]
Claims(d) ==
    /\ main[d] = "claiming" => info[d].folder \in there /\ info[d].seen = owner[info[d].folder]
    /\ main[d] = "claimed" => Holds(d)
    /\ main[d] = "spawned" => db[d] # "open"
FolderInv == (\A c \in Clis : Known(c)) /\ (\A d \in Daemons : Claims(d))

\* No step gives a folder that is there and has an owner to another one.
KeepsOwners == \A f \in there : owner[f] # None => f \notin there' \/ owner'[f] = owner[f]

\* A claim is written over no other.
LEMMA ClaimKeeps ==
    ASSUME MTypeOK, NEW f \in Folders, NEW o, ClaimWrite(f, owner[f], o),
           owner[f] \in {None, o}
    PROVE  /\ KeepsOwners /\ f \in there' /\ owner'[f] = o
           /\ \A g \in Folders \ {f} : owner'[g] = owner[g]
  BY DEF ClaimWrite, KeepsOwners, MTypeOK

\* A step of a daemon: only its own claim touches the owner file, and no one else is at it.
LEMMA DaemonFolders ==
    ASSUME Orderly, MTypeOK, Resolved, MInv, VisInv, FolderInv, NEW d \in Daemons,
           Starts(d) \/ Shuts(d) \/ Runs(d) \/ Faults(d)
    PROVE  FolderInv' /\ KeepsOwners
<1>1. cli' = cli
  BY Zenon DEF Starts, Shuts, Runs, Faults, ResolveSyncDir, ClaimSyncDir, openMountRuntime,
     MapDrive, WriteMountEntry, ShutdownRequested, Signalled, beginShutdown, DrainIPC,
     AwaitInitialSync, StopLoops, Unmount, Cleanup, Exit, InitialSyncReturns, GateRun,
     BackendMount, EndMutation, LoopEnds, StartFails, Killed, Umounted
<1>2. CASE main[d] \in Booting /\ (ResolveSyncDir(d) \/ ClaimSyncDir(d))
  <2>1. /\ \A e \in Daemons \ {d} : main[e] \notin Booting
        /\ \A c \in Clis : cli[c].pc = "ready"
    BY Zenon, <1>2, BootAlone
  <2>2. \A c \in Clis : Known(c)'
    BY <1>1, <2>1 DEF Known
  <2>3. \A e \in Daemons \ {d} : main'[e] = main[e]
    BY <1>2 DEF ResolveSyncDir, ClaimSyncDir, Step, MTypeOK
  <2>4. \A e \in Daemons \ {d} : Claims(e)'
    BY <2>1, <2>3 DEF Claims, Booting
  <2>5. CASE ResolveSyncDir(d)
    <3> DEFINE f == GetSyncDir(paths, info[d].key)
    <3>1. /\ main'[d] = "claiming" /\ there' = there \cup {f} /\ owner' = owner
          /\ info'[d].folder = f /\ info'[d].seen = owner[f]
      BY <2>5 DEF ResolveSyncDir, Step, MTypeOK, Infos
    <3> HIDE DEF f
    <3>2. Claims(d)'
      BY <3>1 DEF Claims
    <3>3. KeepsOwners
      BY <3>1 DEF KeepsOwners
    <3> QED
      BY Zenon, <2>2, <2>4, <3>2, <3>3 DEF FolderInv
  <2>6. CASE ClaimSyncDir(d)
    <3>1. main[d] = "claiming" /\ info' = info
      BY <2>6 DEF ClaimSyncDir, Step
    <3>2. info[d].folder \in Folders /\ info[d].seen = owner[info[d].folder]
      BY Zenon, <3>1 DEF Resolved, FolderInv, Claims
    <3>3. CASE main'[d] = "exited" /\ UNCHANGED <<owner, there>>
      <4>1. Claims(d)'
        BY <3>3 DEF Claims
      <4>2. KeepsOwners
        BY <3>3 DEF KeepsOwners
      <4> QED
        BY Zenon, <2>2, <2>4, <4>1, <4>2 DEF FolderInv
    <3>4. CASE /\ main'[d] = "claimed" /\ ~ClaimRefused(info[d].seen, Owner(info[d].key))
               /\ ClaimWrite(info[d].folder, info[d].seen, Owner(info[d].key))
      <4>1. owner[info[d].folder] \in {None, Owner(info[d].key)}
        BY <3>2, <3>4 DEF ClaimRefused
      <4>0. ClaimWrite(info[d].folder, owner[info[d].folder], Owner(info[d].key))
        BY Zenon, <3>2, <3>4
      <4>2. /\ KeepsOwners /\ info[d].folder \in there'
            /\ owner'[info[d].folder] = Owner(info[d].key)
        BY Zenon, <3>2, <4>0, <4>1, ClaimKeeps
      <4>3. Claims(d)'
        <5>1. Holds(d)'
          BY Zenon, <3>1, <4>2 DEF Holds
        <5> QED
          BY <3>4, <5>1 DEF Claims
      <4> QED
        BY Zenon, <2>2, <2>4, <4>2, <4>3 DEF FolderInv
    <3>5. \A to : Step(d, "claiming", to) => main'[d] = to
      BY DEF Step, MTypeOK
    <3> QED
      BY Zenon, <2>6, <3>3, <3>4, <3>5 DEF ClaimSyncDir
  <2> QED
    BY Zenon, <1>2, <2>5, <2>6
<1>3. CASE ~(ResolveSyncDir(d) \/ ClaimSyncDir(d))
  <2>1. UNCHANGED <<there, owner, info>>
    BY Zenon, <1>3 DEF Starts, Shuts, Runs, Faults, openMountRuntime,
       MapDrive, WriteMountEntry, ShutdownRequested, Signalled, beginShutdown, DrainIPC,
       AwaitInitialSync, StopLoops, Unmount, Cleanup, Exit, InitialSyncReturns, GateRun,
       BackendMount, EndMutation, LoopEnds, StartFails, Killed, Umounted, files
  <2>2. \A e \in Daemons :
          main'[e] \in {"spawned", "claiming", "claimed"} => main'[e] = main[e] /\ db'[e] = db[e]
    <3> USE DEF Step
    <3>1. main \in [Daemons -> MainPcs] /\ db \in [Daemons -> {"none", "open", "closed"}]
      BY Zenon DEF MTypeOK
    <3>2. CASE Starts(d)
      BY <1>3, <3>1, <3>2 DEF Starts, openMountRuntime, MapDrive, WriteMountEntry
    <3>3. CASE Cleanup(d)
      <4>1. main[d] \notin Booting /\ main' = main /\ db' = [db EXCEPT ![d] = "closed"]
        BY <3>3 DEF Cleanup, Phase, MInv, Quiet
      <4> QED
        BY <3>1, <4>1 DEF Booting
    <3>4. CASE Shuts(d) /\ ~Cleanup(d)
      BY <3>1, <3>4 DEF Shuts, ShutdownRequested, beginShutdown, DrainIPC,
         AwaitInitialSync, StopLoops, Unmount, Exit, EndProcess
    <3>5. CASE Runs(d)
      BY <3>1, <3>5 DEF Runs, InitialSyncReturns, GateRun, BackendMount, EndMutation, LoopEnds
    <3>6. CASE Faults(d)
      BY <3>1, <3>6 DEF Faults, StartFails, Killed, Signalled, beginShutdown, Umounted,
         EndProcess
    <3> QED
      BY Zenon, <3>2, <3>3, <3>4, <3>5, <3>6
  <2>3. \A e \in Daemons : Claims(e)'
    BY <2>1, <2>2 DEF FolderInv, Claims, Holds
  <2>4. \A c \in Clis : Known(c)'
    BY <1>1, <2>1 DEF FolderInv, Known
  <2>5. KeepsOwners
    BY <2>1 DEF KeepsOwners
  <2> QED
    BY Zenon, <2>3, <2>4, <2>5 DEF FolderInv
<1>4. ResolveSyncDir(d) \/ ClaimSyncDir(d) => main[d] \in Booting
  BY DEF ResolveSyncDir, ClaimSyncDir, Step, Booting
<1> QED
  BY Zenon, <1>2, <1>3, <1>4

\* A spawn takes one daemon that is gone.
LEMMA SpawnsOne ==
    ASSUME NEW c, spawnBackground(c)
    PROVE  \E d \in Daemons : \E i :
             /\ cli[c].pc = "spawn" /\ cli' = [cli EXCEPT ![c].pc = "ready", ![c].wait = d]
             /\ main' = [main EXCEPT ![d] = "spawned"] /\ db' = [db EXCEPT ![d] = "none"]
             /\ info' = [info EXCEPT ![d] = i] /\ UNCHANGED <<there, owner>>
<1> DEFINE d == CHOOSE x \in FreeDaemons : TRUE
<1>1. d \in Daemons
  BY Zenon DEF spawnBackground, FreeDaemons
<1>2. /\ cli[c].pc = "spawn" /\ cli' = [cli EXCEPT ![c].pc = "ready", ![c].wait = d]
      /\ main' = [main EXCEPT ![d] = "spawned"] /\ db' = [db EXCEPT ![d] = "none"]
      /\ info' = [info EXCEPT ![d] = [cli[c].info EXCEPT !.folder = None, !.seen = None]]
      /\ UNCHANGED <<there, owner>>
  BY Zenon DEF spawnBackground, At, files
<1> HIDE DEF d
<1> QED
  BY Zenon, <1>1, <1>2

\* A step of a command: it claims what it has read, and moves a folder to a free place.
LEMMA CommandFolders ==
    ASSUME Orderly, MTypeOK, Resolved, VisInv, FolderInv, NEW c \in Clis, Commands(c) \/ Continues(c)
    PROVE  FolderInv' /\ KeepsOwners
<1>1. \A b \in Clis : b = c
  BY Zenon DEF Orderly
<1>2. cli[c] \in CliType /\ DOMAIN cli = Clis
  BY Zenon, TypeParts
<1>3. ASSUME UNCHANGED <<there, owner, info, main, db>>, cli'[c].pc # "claim"
      PROVE  FolderInv' /\ KeepsOwners
  <2>1. \A d \in Daemons : Claims(d)'
    BY <1>3 DEF FolderInv, Claims, Holds
  <2>2. KeepsOwners
    BY <1>3 DEF KeepsOwners
  <2>3. \A b \in Clis : Known(b)'
    BY Zenon, <1>1, <1>3 DEF Known
  <2> QED
    BY Zenon, <2>1, <2>2, <2>3 DEF FolderInv
<1>4. ASSUME UNCHANGED <<info, main, db>>, cli[c].pc # "ready", Known(c)', KeepsOwners
      PROVE  FolderInv' /\ KeepsOwners
  <2>1. \A d \in Daemons : main[d] \notin Booting
    BY Zenon, <1>4, NoneBooting
  <2>2. \A d \in Daemons : Claims(d)'
    BY <1>4, <2>1 DEF Claims, Booting
  <2>3. \A b \in Clis : Known(b)'
    BY Zenon, <1>1, <1>4
  <2> QED
    BY Zenon, <1>4, <2>2, <2>3 DEF FolderInv
<1>5. /\ End(c) => cli'[c].pc # "claim"
      /\ \A pc : Go(c, pc) /\ pc # "claim" => cli'[c].pc # "claim"
      /\ \A ds, pc : StopThen(c, ds, pc) => cli'[c].pc # "claim"
  <2>1. DOMAIN cli[c] = {"pc", "info", "todo", "then", "wait", "paths"}
    BY <1>2 DEF CliType
  <2>2. End(c) => cli'[c].pc # "claim"
    BY Zenon, <1>2, NoCliType DEF End
  <2>3. ASSUME NEW pc, Go(c, pc), pc # "claim" PROVE cli'[c].pc # "claim"
    BY Zenon, <1>2, <2>1, <2>3 DEF Go
  <2>4. ASSUME NEW ds, NEW pc, StopThen(c, ds, pc) PROVE cli'[c].pc # "claim"
    BY Zenon, <1>2, <2>1, <2>4 DEF StopThen
  <2> QED
    BY Zenon, <2>2, <2>3, <2>4
<1>6. UNCHANGED <<files, procs>> => UNCHANGED <<there, owner, info, main, db>>
  BY Zenon DEF files, procs
<1>7. CASE Commands(c)
  <2>1. UNCHANGED <<files, procs>>
    BY Zenon, <1>7 DEF Commands, runMountStart, runMountStop, runMountRequest, runMountMv
  <2>2. cli'[c].pc # "claim"
    <3>1. CASE runMountStop(c)
      BY Zenon, <1>5, <3>1 DEF runMountStop
    <3>2. CASE runMountRequest(c)
      BY <1>2, <3>2 DEF runMountRequest, withMount, CliType
    <3>3. ASSUME NEW k \in Keys, runMountMv(c, k) PROVE cli'[c].pc # "claim"
      BY <1>2, <3>3 DEF runMountMv, CliType
    <3>4. ASSUME NEW k \in Keys, NEW mode \in Modes, NEW p \in Points \cup Named,
                 runMountStart(c, k, mode, p)
          PROVE  cli'[c].pc # "claim"
      BY <1>2, <3>4 DEF runMountStart, CliType
    <3> QED
      BY Zenon, <1>7, <3>1, <3>2, <3>3, <3>4 DEF Commands
  <2> QED
    BY Zenon, <1>3, <1>6, <2>1, <2>2
<1>8. CASE stopEntry(c) \/ stopAwait(c)
  <2>1. UNCHANGED <<there, owner, info, main, db>>
    BY Zenon, <1>6, <1>8 DEF stopEntry, stopAwait
  <2>2. cli'[c].pc # "claim"
    <3>1. CASE stopAwait(c)
      BY <1>2, <3>1 DEF stopAwait, CliType
    <3>2. CASE stopEntry(c)
      <4>1. cli[c].pc = "stop" /\ \E d \in cli[c].todo :
              \/ cli' = [cli EXCEPT ![c].pc = "await", ![c].wait = d, ![c].todo = @ \ {d}]
              \/ cli' = [cli EXCEPT ![c].todo = @ \ {d}]
        BY Zenon, <3>2 DEF stopEntry, At
      <4> QED
        BY <1>2, <4>1 DEF CliType
    <3> QED
      BY Zenon, <1>8, <3>1, <3>2
  <2> QED
    BY Zenon, <1>3, <2>1, <2>2
<1>9. CASE stopDone(c)
  <2>1. cli[c].then # "claim"
    BY Zenon DEF Resolved, Fit
  <2> QED
    BY Zenon, <1>3, <1>5, <1>6, <1>9, <2>1 DEF stopDone
<1>10. CASE stopOthers(c) \/ checkPoint(c) \/ awaitReady(c) \/ mvSave(c) \/ Interrupted(c)
  <2>1. UNCHANGED <<there, owner, info, main, db>>
    BY Zenon, <1>6, <1>10 DEF stopOthers, checkPoint, awaitReady, mvSave, Interrupted, procs
  <2>2. cli'[c].pc # "claim"
    <3>1. \A m : (IF m = "sync" THEN "folder" ELSE "spawn") # "claim"
      OBVIOUS
    <3> QED
      BY Zenon, <1>5, <1>10, <3>1 DEF stopOthers, checkPoint, awaitReady, mvSave, Interrupted
  <2> QED
    BY Zenon, <1>3, <2>1, <2>2
<1>11. CASE replaceExisting(c) \/ loadPaths(c) \/ SendRequest(c)
  <2>1. UNCHANGED <<there, owner, info, main, db>>
    BY Zenon, <1>6, <1>11 DEF replaceExisting, loadPaths, SendRequest, procs
  <2>2. CASE replaceExisting(c) \/ SendRequest(c)
    <3>1. "point" # "claim"
      OBVIOUS
    <3> QED
      BY Zenon, <1>3, <1>5, <2>1, <2>2, <3>1 DEF replaceExisting, SendRequest
  <2>3. CASE loadPaths(c)
    <3>1. cli'[c].pc # "claim"
      BY <1>2, <2>3 DEF loadPaths, CliType
    <3> QED
      BY Zenon, <1>3, <2>1, <3>1
  <2> QED
    BY Zenon, <1>11, <2>2, <2>3
<1>12. CASE claimFolder(c)
  <2> DEFINE f == cli[c].info.folder
             o == Owner(cli[c].info.key)
  <2>1. cli[c].pc = "claim" /\ UNCHANGED <<info, main, db>>
    BY Zenon, <1>12 DEF claimFolder, At, procs
  <2>2. f \in Folders /\ cli[c].info.seen = owner[f]
    BY Zenon, <2>1 DEF Resolved, Fit, FolderInv, Known
  <2>3. cli'[c].pc # "claim"
    <3>1. "spawn" # "claim"
      OBVIOUS
    <3> QED
      BY Zenon, <1>5, <1>12, <3>1 DEF claimFolder
  <2>4. KeepsOwners
    <3>1. CASE ClaimRefused(owner[f], o)
      <4>1. UNCHANGED <<owner, there>>
        BY Zenon, <1>12, <2>2, <3>1 DEF claimFolder
      <4> QED
        BY <4>1 DEF KeepsOwners
    <3>2. CASE ~ClaimRefused(owner[f], o)
      <4>1. ClaimWrite(f, owner[f], o)
        BY Zenon, <1>12, <2>2, <3>2 DEF claimFolder
      <4>2. owner[f] \in {None, o}
        BY <3>2 DEF ClaimRefused
      <4> QED
        BY Zenon, <2>2, <4>1, <4>2, ClaimKeeps
    <3> QED
      BY Zenon, <3>1, <3>2
  <2>5. cli[c].pc # "ready" /\ Known(c)'
    BY <2>1, <2>3 DEF Known
  <2> QED
    BY Zenon, <1>4, <2>1, <2>4, <2>5
<1>13. CASE spawnBackground(c)
  <2>0. PICK d \in Daemons : \E i :
          /\ cli[c].pc = "spawn" /\ cli' = [cli EXCEPT ![c].pc = "ready", ![c].wait = d]
          /\ main' = [main EXCEPT ![d] = "spawned"] /\ db' = [db EXCEPT ![d] = "none"]
          /\ info' = [info EXCEPT ![d] = i] /\ UNCHANGED <<there, owner>>
    BY Zenon, <1>13, SpawnsOne
  <2>1. PICK i :
          /\ cli[c].pc = "spawn" /\ cli' = [cli EXCEPT ![c].pc = "ready", ![c].wait = d]
          /\ main' = [main EXCEPT ![d] = "spawned"] /\ db' = [db EXCEPT ![d] = "none"]
          /\ info' = [info EXCEPT ![d] = i] /\ UNCHANGED <<there, owner>>
    BY Zenon, <2>0
  <2>2. DOMAIN main = Daemons /\ DOMAIN db = Daemons /\ DOMAIN info = Daemons
    BY Zenon DEF MTypeOK
  <2>3. Claims(d)'
    <3>1. main'[d] = "spawned" /\ db'[d] = "none"
      BY <2>1, <2>2
    <3> QED
      BY <3>1 DEF Claims
  <2>4. ASSUME NEW e \in Daemons, e # d PROVE Claims(e)'
    <3>1. main'[e] = main[e] /\ db'[e] = db[e] /\ info'[e] = info[e]
      BY <2>1, <2>2, <2>4
    <3> QED
      BY <2>1, <3>1 DEF FolderInv, Claims, Holds
  <2>5. cli'[c].pc = "ready"
    BY <1>2, <2>1 DEF CliType
  <2>6. KeepsOwners /\ \A b \in Clis : Known(b)'
    BY <1>1, <2>1, <2>5 DEF KeepsOwners, Known
  <2> QED
    BY Zenon, <2>3, <2>4, <2>6 DEF FolderInv
<1>14. CASE mvRename(c)
  <2> DEFINE cur == cli[c].info.folder
  <2>1. cli[c].pc = "move" /\ UNCHANGED <<info, main, db>>
    BY Zenon, <1>14 DEF mvRename, At, procs
  <2>2. cli'[c].pc # "claim"
    <3>1. CASE End(c)
      BY Zenon, <1>5, <3>1
    <3>2. CASE ~End(c)
      BY <1>2, <1>14, <3>2 DEF mvRename, CliType
    <3> QED
      BY Zenon, <3>1, <3>2
  <2>3. KeepsOwners
    BY <1>14 DEF mvRename, copyDir, KeepsOwners, MTypeOK
  <2>4. cli[c].pc # "ready" /\ Known(c)'
    BY <2>1, <2>2 DEF Known
  <2> QED
    BY Zenon, <1>4, <2>1, <2>3, <2>4
<1>15. CASE chooseFolder(c)
  <2> DEFINE i == cli[c].info
             sp == cli[c].paths
             o == Owner(i.key)
  <2>1. cli[c].pc = "prompt" /\ UNCHANGED <<info, main, db>>
    BY Zenon, <1>15 DEF chooseFolder, At, procs
  <2>2. ASSUME NEW f, NEW was,
               cli' = [cli EXCEPT ![c].pc = "claim", ![c].info.folder = f, ![c].info.seen = was]
        PROVE  cli'[c].info.folder = f /\ cli'[c].info.seen = was
    BY <1>2, <2>2 DEF CliType, Infos
  <2>3. Known(c)' /\ KeepsOwners
    <3>1. CASE End(c) /\ owner' = owner /\ there \subseteq there'
      <4>1. KeepsOwners
        BY <3>1 DEF KeepsOwners
      <4> QED
        BY Zenon, <1>5, <3>1, <4>1 DEF Known
    <3>2. CASE /\ i.point \in Folders /\ DirectAllowed(c, i.point) /\ there' = there
               /\ owner' = [owner EXCEPT ![i.point] = o]
               /\ cli' = [cli EXCEPT ![c].pc = "claim", ![c].info.folder = i.point,
                                     ![c].info.seen = o]
      <4>1. owner[i.point] \in {None, o}
        BY <3>2 DEF DirectAllowed, ClaimRefused
      <4>2. owner'[i.point] = o
        BY <3>2 DEF MTypeOK
      <4>3. KeepsOwners
        BY <3>2, <4>1 DEF KeepsOwners, MTypeOK
      <4>4. Known(c)'
        BY Zenon, <2>2, <3>2, <4>2 DEF Known
      <4> QED
        BY Zenon, <4>3, <4>4
    <3>3. CASE \E f : /\ owner' = owner /\ there \subseteq there'
                      /\ cli' = [cli EXCEPT ![c].pc = "claim", ![c].info.folder = f,
                                            ![c].info.seen = owner[f]]
      <4>1. KeepsOwners
        BY <3>3 DEF KeepsOwners
      <4>2. Known(c)'
        BY Zenon, <2>2, <3>3 DEF Known
      <4> QED
        BY Zenon, <4>1, <4>2
    <3>4. \A f : there' = there \cup {f} => there \subseteq there'
      OBVIOUS
    <3>5. there' = there => there \subseteq there'
      OBVIOUS
    <3> QED
      BY ZenonT(30), <1>15, <3>1, <3>2, <3>3, <3>4, <3>5 DEF chooseFolder
  <2>4. cli[c].pc # "ready"
    BY <2>1
  <2> QED
    BY Zenon, <1>4, <2>1, <2>3, <2>4
<1> QED
  BY Zenon, <1>7, <1>8, <1>9, <1>10, <1>11, <1>12, <1>13, <1>14, <1>15 DEF Continues

\* A daemon opens its database where its folder is claimed, and keeps to that folder.
LEMMA OpensClaimed ==
    ASSUME MTypeOK, FolderInv, [MNext]_mvars, NEW d \in Daemons, db'[d] = "open"
    PROVE  \/ db[d] = "open" /\ info'[d] = info[d]
           \/ UNCHANGED <<info, there, owner>> /\ (Sync(d) => Holds(d))
<1>1. DOMAIN db = Daemons /\ DOMAIN info = Daemons
  BY Zenon DEF MTypeOK
<1>2. ASSUME NEW e \in Daemons, openMountRuntime(e) PROVE db'[d] = db[d] \/ e = d
  BY <1>1, <1>2 DEF openMountRuntime
<1>3. CASE openMountRuntime(d)
  <2>1. UNCHANGED <<info, there, owner>>
    BY Zenon, <1>3 DEF openMountRuntime, files
  <2>2. Sync(d) => main[d] = "claimed"
    BY Zenon, <1>3 DEF openMountRuntime, Step
  <2> QED
    BY Zenon, <2>1, <2>2 DEF FolderInv, Claims
<1>4. CASE \E e \in Daemons : ResolveSyncDir(e)
  <2>1. PICK e \in Daemons : ResolveSyncDir(e)
    BY <1>4
  <2>2. main[e] = "spawned" /\ db' = db /\ (e # d => info'[d] = info[d])
    BY <1>1, <2>1 DEF ResolveSyncDir, Step
  <2>3. e # d
    BY Zenon, <2>2 DEF FolderInv, Claims
  <2> QED
    BY Zenon, <2>2, <2>3
<1>5. CASE \E c \in Clis : spawnBackground(c)
  <2>0. PICK e \in Daemons : \E i : db' = [db EXCEPT ![e] = "none"] /\ info' = [info EXCEPT ![e] = i]
    BY Zenon, <1>5, SpawnsOne
  <2>1. PICK i : db' = [db EXCEPT ![e] = "none"] /\ info' = [info EXCEPT ![e] = i]
    BY Zenon, <2>0
  <2> QED
    BY <1>1, <2>1
<1>6. CASE /\ ~openMountRuntime(d) /\ ~(\E e \in Daemons : ResolveSyncDir(e))
           /\ ~(\E c \in Clis : spawnBackground(c))
  <2>1. CASE \E c \in Clis : Commands(c) \/ Continues(c)
    <3>1. PICK c \in Clis : Commands(c) \/ Continues(c)
      BY <2>1
    <3>2. UNCHANGED procs => info' = info /\ db' = db
      BY Zenon DEF procs
    <3>3. ASSUME Commands(c)
          PROVE  info' = info /\ db' = db
      BY Zenon, <3>2, <3>3 DEF Commands, runMountStart, runMountStop, runMountRequest, runMountMv
    <3>4. ASSUME \/ stopEntry(c) \/ stopAwait(c) \/ stopDone(c) \/ stopOthers(c)
                 \/ replaceExisting(c) \/ checkPoint(c) \/ loadPaths(c)
          PROVE  info' = info /\ db' = db
      BY Zenon, <3>2, <3>4 DEF stopEntry, stopAwait, stopDone, stopOthers, replaceExisting,
         checkPoint, loadPaths
    <3>5. ASSUME \/ claimFolder(c) \/ awaitReady(c) \/ SendRequest(c) \/ mvRename(c)
                 \/ mvSave(c) \/ Interrupted(c)
          PROVE  info' = info /\ db' = db
      BY Zenon, <3>2, <3>5 DEF claimFolder, awaitReady, SendRequest, mvRename, mvSave, Interrupted
    <3>6. ASSUME chooseFolder(c)
          PROVE  info' = info /\ db' = db
      BY Zenon, <3>2, <3>6 DEF chooseFolder
    <3>7. ~spawnBackground(c)
      BY Zenon, <1>6
    <3>8. info' = info /\ db' = db
      BY Zenon, <3>1, <3>3, <3>4, <3>5, <3>6, <3>7 DEF Continues
    <3> QED
      BY Zenon, <3>8
  <2>2. CASE \E e \in Daemons : Starts(e) \/ Shuts(e) \/ Runs(e) \/ Faults(e)
    <3>1. PICK e \in Daemons : Starts(e) \/ Shuts(e) \/ Runs(e) \/ Faults(e)
      BY <2>2
    <3>2. info' = info
      BY Zenon, <1>6, <3>1 DEF Starts, Shuts, Runs, Faults, ClaimSyncDir, openMountRuntime,
         MapDrive, WriteMountEntry, ShutdownRequested, Signalled, beginShutdown, DrainIPC,
         AwaitInitialSync, StopLoops, Unmount, Cleanup, Exit, InitialSyncReturns, GateRun,
         BackendMount, EndMutation, LoopEnds, StartFails, Killed, Umounted
    <3>3. \/ db' = db \/ openMountRuntime(e)
          \/ \E how \in {"none", "closed"} : db' = [db EXCEPT ![e] = how]
          \/ db' = [db EXCEPT ![e] = IF @ = "open" THEN "closed" ELSE @]
      BY Zenon, <1>6, <3>1 DEF Starts, Shuts, Runs, Faults, ClaimSyncDir,
         MapDrive, WriteMountEntry, ShutdownRequested, Signalled, beginShutdown, DrainIPC,
         AwaitInitialSync, StopLoops, Unmount, Cleanup, Exit, InitialSyncReturns, GateRun,
         BackendMount, EndMutation, LoopEnds, StartFails, Killed, Umounted
    <3>4. db[d] = "open"
      <4>1. CASE openMountRuntime(e)
        BY Zenon, <1>2, <1>6, <4>1
      <4>2. CASE ~openMountRuntime(e)
        BY <1>1, <3>3, <4>2
      <4> QED
        BY Zenon, <4>1, <4>2
    <3> QED
      BY Zenon, <3>2, <3>4
  <2>3. CASE UNCHANGED mvars
    BY Zenon, <2>3 DEF mvars, procs
  <2> QED
    BY Zenon, <2>1, <2>2, <2>3 DEF MNext
<1> QED
  BY Zenon, <1>3, <1>4, <1>5, <1>6

LEMMA MInitFolders == MInit => FolderInv
<1> SUFFICES ASSUME MInit PROVE FolderInv
  OBVIOUS
<1>1. \A d \in Daemons : main[d] = "none"
  BY DEF MInit
<1>2. \A c \in Clis : cli[c].pc = "idle"
  BY Zenon, NoCliType DEF MInit
<1> QED
  BY <1>1, <1>2 DEF FolderInv, Known, Claims

\* A daemon works only in a folder that its account holds, until the folder is moved away:
\* with any number of accounts, remote paths, folders and daemons, whatever the daemons do
\* and wherever they are killed, as long as the commands come one after the other and each
\* waits for the daemons it stops and starts (ClaimSyncDir, promptSyncDir, runMountMv).
THEOREM FoldersAreOwn ==
    ASSUME Orderly
    PROVE  MSpec => NoForeignFolder
<1> DEFINE Inv == MTypeOK /\ Resolved /\ MInv /\ VisInv /\ FolderInv
<1>1. Inv /\ [MNext]_mvars => FolderInv' /\ KeepsOwners
  <2> SUFFICES ASSUME Inv, [MNext]_mvars PROVE FolderInv' /\ KeepsOwners
    OBVIOUS
  <2>1. CASE UNCHANGED mvars
    <3>1. UNCHANGED <<there, owner, cli, info, main, db>>
      BY Zenon, <2>1 DEF mvars, files, procs
    <3> QED
      BY <3>1 DEF FolderInv, Known, Claims, Holds, KeepsOwners
  <2> QED
    BY Zenon, <2>1, DaemonFolders, CommandFolders DEF MNext
<1>2. ASSUME Inv, [MNext]_mvars, NEW d \in Daemons, db'[d] = "open", Sync(d)'
      PROVE  Holds(d)' \/ (db[d] = "open" /\ (Holds(d) => info[d].folder \notin there'))
  <2>1. CASE db[d] = "open" /\ info'[d] = info[d]
    <3>1. ASSUME Holds(d), info[d].folder \in there' PROVE Holds(d)'
      <4>1. owner[info[d].folder] # None
        <5>1. info[d].key \in Keys
          BY <1>2 DEF MTypeOK, Infos
        <5> QED
          BY Zenon, <3>1, <5>1, OwnerType, OwnersAssumption DEF Holds
      <4>2. owner'[info[d].folder] = owner[info[d].folder]
        BY Zenon, <1>1, <1>2, <3>1, <4>1 DEF KeepsOwners, Holds
      <4> QED
        BY Zenon, <2>1, <3>1, <4>2 DEF Holds
    <3> QED
      BY Zenon, <2>1, <3>1
  <2>2. CASE UNCHANGED <<info, there, owner>> /\ (Sync(d) => Holds(d))
    BY Zenon, <1>2, <2>2 DEF Sync, Holds
  <2> QED
    BY Zenon, <1>2, <2>1, <2>2, OpensClaimed
<1>3. Inv /\ [MNext]_mvars =>
        [\A d \in Daemons : db'[d] = "open" /\ Sync(d)' =>
           \/ Holds(d)'
           \/ db[d] = "open" /\ (Holds(d) => info[d].folder \notin there')]_mvars
  BY Zenon, <1>2
<1> QED
  BY MInitFolders, TypesInvariant, MInvariant, VisInvariant, <1>1, <1>3, PTL
     DEF MSpec, NoForeignFolder

==============================================================================
