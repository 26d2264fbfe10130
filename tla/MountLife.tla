------------------------------ MODULE MountLife ------------------------------
(***************************************************************************)
(* The life of mounts: the `pc mn` commands, the files they share with the  *)
(* daemons (the registry mounts.d, sync-paths.json, the owner file of a     *)
(* sync folder, the symlink of a mount point) and the daemons themselves,   *)
(* from ServeSync or ServeVirtual through the IPC requests and the mutation *)
(* gate to the last step of a shutdown.                                     *)
(***************************************************************************)
EXTENDS Integers, FiniteSets

CONSTANTS
    Clis,           \* `pc mn` commands that can run at the same time
    Daemons,        \* daemon processes; an id is used again once nothing names it
    Keys,           \* pairs <<account, remote path>>: one registry entry each
    Folders,        \* local folders
    Named,          \* the folders a user names: at the prompt, for --sync-dir and for mv
    Points,         \* mount points; a folder is its own mount point (--sync-dir)
    DefaultDir,     \* Keys -> Folders: DefaultSyncDir of the key
    LegacyDir,      \* Keys -> Folders: the folder older versions used, shared by accounts
    Readers,        \* loops of every mount: poller and downloader
    Writers,        \* loops of a writable mount: writeback, watcher, reconciler
    MaxHandlers,    \* bound: requests a daemon serves at once
    StopGivesUp,    \* stopEntry's 30 pings (6 s) can end before the daemon has
    StartGivesUp,   \* the 30 pings of a start can end before the daemon answers
    None

ASSUME MaxHandlersAssumption == MaxHandlers \in Nat
ASSUME NoneAssumption == None \notin Daemons \cup Folders
ASSUME DirsAssumption ==
    /\ Keys # {} /\ Points # {} /\ Named \subseteq Folders
    /\ DefaultDir \in [Keys -> Folders] /\ LegacyDir \in [Keys -> Folders]
ASSUME LoopsAssumption == {"handlers", "initial"} \cap (Readers \cup Writers) = {}

Owner(k) == k[1]
Remote(k) == k[2]
Owners == {Owner(k) : k \in Keys}
ASSUME OwnersAssumption == None \notin Owners
Loops == Readers \cup Writers

VARIABLES
    registry,   \* mounts.d: key -> the daemon its entry names
    paths,      \* sync-paths.json: key -> folder
    there,      \* the folders that exist
    owner,      \* owner.json of each folder
    link,       \* mount point -> the folder its symlink leads to
    cli,        \* per command: where it is and what it read
    info,       \* per daemon: MountInfo
    main,       \* per daemon: its main goroutine
    shut,       \* per daemon: how far shutdown() is
    asked,      \* daemons with a shutdown request answered and not begun
    db,         \* per daemon: its cache database
    handlers,   \* per daemon: mutating requests inside the gate
    loops,      \* per daemon: loops that run
    overrun,    \* per daemon: what shutdown() stopped waiting for
    caches      \* the virtual daemons whose cache directory exists

files == <<registry, paths, there, owner, link>>
procs == <<info, main, shut, asked, db, handlers, loops, overrun, caches>>
mvars == <<files, cli, procs>>

Modes == {"sync", "virtual"}
NoInfo == [key |-> CHOOSE k \in Keys : TRUE, mode |-> "sync",
           point |-> CHOOSE p \in Points : TRUE, folder |-> None, seen |-> None]
NoCli == [pc |-> "idle", info |-> NoInfo, todo |-> {}, then |-> "idle",
          wait |-> None, paths |-> [k \in Keys |-> None]]

Gone == {"none", "exited", "dead"}
\* From WriteMountEntry to the close of the listener a ping is answered.
Reachable(d) == main[d] \in {"initial", "synced", "serving", "leaving",
                             "mounting", "mounted", "unmounted"}
Listed == {registry[k] : k \in Keys} \ {None}

-----------------------------------------------------------------------------
(* sync-paths.json, owner.json and the registry.                            *)

\* DefaultSyncDir: a folder of an older version, which accounts shared, is used unless
\* another account owns it.
DefaultSyncDir(k) ==
    IF LegacyDir[k] \in there /\ owner[LegacyDir[k]] \in {None, Owner(k)}
    THEN LegacyDir[k] ELSE DefaultDir[k]
GetSyncDir(sp, k) == IF sp[k] # None THEN sp[k] ELSE DefaultSyncDir(k)

\* EvictMountEntry removes the file of the key, whatever it now holds.
EvictMountEntry(d) == registry' = [registry EXCEPT ![info[d].key] = None]

ClaimRefused_Never(seen, o) == FALSE
\* ClaimSyncDir read `seen`; it fails, keeps or writes the owner file.
ClaimRefused(seen, o) == seen \notin {None, o}
ClaimWrite(f, seen, o) == /\ owner' = [owner EXCEPT ![f] = IF seen = None THEN o ELSE @]
                          /\ there' = there \cup {f}

-----------------------------------------------------------------------------
(* A daemon starts.                                                         *)

Sync(d) == info[d].mode = "sync"
Direct(i) == i.point = i.folder
Step(d, from, to) == main[d] = from /\ main' = [main EXCEPT ![d] = to]

\* ServeSync: the folder and its .pigcloud are made and ClaimSyncDir reads the owner.
ResolveSyncDir(d) ==
    /\ Sync(d) /\ Step(d, "spawned", "claiming")
    /\ LET f == GetSyncDir(paths, info[d].key) IN
           /\ info' = [info EXCEPT ![d].folder = f, ![d].seen = owner[f]]
           /\ there' = there \cup {f}
    /\ UNCHANGED <<registry, paths, owner, link, cli, shut, asked, db, handlers, loops,
                   overrun, caches>>

\* ClaimSyncDir writes the owner file, or refuses the folder of another account.
ClaimSyncDir(d) ==
    LET i == info[d]
        o == Owner(i.key)
    IN  /\ \/ ClaimRefused(i.seen, o) /\ Step(d, "claiming", "exited") /\ UNCHANGED <<owner, there>>
           \/ ~ClaimRefused(i.seen, o) /\ Step(d, "claiming", "claimed")
              /\ ClaimWrite(i.folder, i.seen, o)
        /\ UNCHANGED <<registry, paths, link, cli, info, shut, asked, db, handlers, loops,
                       overrun, caches>>

\* openMountRuntime, NewWatcher and listenIPC.  A virtual mount first removes every
\* cache directory but its own.
openMountRuntime(d) ==
    /\ IF Sync(d) THEN Step(d, "claimed", "open") /\ UNCHANGED caches
                  ELSE Step(d, "spawned", "open") /\ caches' = {d}
    /\ db' = [db EXCEPT ![d] = "open"]
    /\ UNCHANGED <<files, cli, info, shut, asked, handlers, loops, overrun>>

\* Mapper.Map: a symlink that already leads to the folder is taken as it is, one that
\* leads elsewhere, or a directory that is not the folder itself, is an error (StartFails).
Mappable(i) == IF i.point \in Points THEN link[i.point] \in {None, i.folder} ELSE Direct(i)
MapDrive(d) ==
    /\ Step(d, "open", "mapped") /\ Sync(d) /\ Mappable(info[d])
    /\ link' = IF Direct(info[d]) THEN link ELSE [link EXCEPT ![info[d].point] = info[d].folder]
    /\ UNCHANGED <<registry, paths, there, owner, cli, info, shut, asked, db, handlers, loops,
                   overrun, caches>>

\* A read-only mount has no write-back.
StartLoops(d) == \E ls \in {Readers, Loops} : loops' = [loops EXCEPT ![d] = ls]

\* WriteMountEntry; then the accept loop and the signal handler run.  A virtual mount
\* starts its loops here, a sync mount only after the initial sync.
WriteMountEntry(d) ==
    /\ registry' = [registry EXCEPT ![info[d].key] = d]
    /\ IF Sync(d) THEN Step(d, "mapped", "initial") /\ UNCHANGED loops
                  ELSE Step(d, "open", "mounting") /\ StartLoops(d)
    /\ UNCHANGED <<paths, there, owner, link, cli, info, shut, asked, db, handlers, overrun,
                   caches>>

Unmapped(i) == IF i.mode = "sync" /\ ~Direct(i) THEN [link EXCEPT ![i.point] = None] ELSE link

\* Any of these steps can fail: what was opened is closed, the process ends.
StartFails(d) ==
    /\ main[d] \in {"spawned", "claimed", "open", "mapped"}
    /\ main' = [main EXCEPT ![d] = "exited"]
    /\ db' = [db EXCEPT ![d] = IF @ = "open" THEN "closed" ELSE @]
    /\ link' = IF main[d] = "mapped" THEN Unmapped(info[d]) ELSE link
    /\ caches' = caches \ {d}
    /\ UNCHANGED <<registry, paths, there, owner, cli, info, shut, asked, handlers, loops, overrun>>

\* InitialSync returns, done, failed or cancelled, and close(initialSyncDone).
InitialSyncReturns(d) ==
    /\ Step(d, "initial", "synced")
    /\ UNCHANGED <<files, cli, info, shut, asked, db, handlers, loops, overrun, caches>>

GateRun_IgnoresClose(d) ==
    /\ Step(d, "synced", "serving") /\ StartLoops(d)
    /\ UNCHANGED <<files, cli, info, shut, asked, db, handlers, overrun, caches>>

\* gate.run: the loops start under the gate's mutex, unless it is closed.
GateRun(d) ==
    /\ \/ shut[d] = "no" /\ Step(d, "synced", "serving") /\ StartLoops(d)
       \/ shut[d] # "no" /\ Step(d, "synced", "leaving") /\ UNCHANGED loops
    /\ UNCHANGED <<files, cli, info, shut, asked, db, handlers, overrun, caches>>

\* Backend.Mount: the FUSE server starts, or Mount returns an error; once it runs, it
\* ends when the kernel unmounts it (`umount`, or Unmount of the shutdown).
BackendMount(d) ==
    /\ Step(d, "mounting", "mounted") \/ Step(d, "mounting", "unmounted")
    /\ UNCHANGED <<files, cli, info, shut, asked, db, handlers, loops, overrun, caches>>

Umounted(d) ==
    /\ Step(d, "mounted", "unmounted")
    /\ UNCHANGED <<files, cli, info, shut, asked, db, handlers, loops, overrun, caches>>

-----------------------------------------------------------------------------
(* Requests, and the shutdown.                                              *)

\* mutationGate.begin of a mutating request; a closed gate refuses it.
BeginMutation(d) ==
    /\ handlers[d] < MaxHandlers
    /\ handlers' = [handlers EXCEPT ![d] = IF shut[d] = "no" THEN @ + 1 ELSE @]

EndMutation_Twice(d) ==
    /\ handlers[d] > 0
    /\ handlers' = [handlers EXCEPT ![d] = @ - 2]
    /\ UNCHANGED <<files, cli, info, main, shut, asked, db, loops, overrun, caches>>

EndMutation(d) ==
    /\ handlers[d] > 0
    /\ handlers' = [handlers EXCEPT ![d] = @ - 1]
    /\ UNCHANGED <<files, cli, info, main, shut, asked, db, loops, overrun, caches>>

Phase(d, from, to) == main[d] \notin Gone /\ shut[d] \in from /\ shut' = [shut EXCEPT ![d] = to]
Overran(d, what) == overrun' = [overrun EXCEPT ![d] = @ \cup what]

\* shutdown() runs once: for a request, for a signal, or when Mount returned.  It
\* closes the gate and cancels the downloads.
beginShutdown(d) ==
    /\ Reachable(d) /\ Phase(d, {"no"}, "closed")
    /\ asked' = asked \ {d}
    /\ UNCHANGED <<files, cli, info, main, db, handlers, loops, overrun, caches>>

ShutdownRequested(d) == (d \in asked \/ main[d] = "unmounted") /\ beginShutdown(d)
Signalled(d) == d \notin asked /\ main[d] # "unmounted" /\ beginShutdown(d)

DrainIPC_NoDeadline(d) ==
    /\ Phase(d, {"closed"}, IF Sync(d) THEN "drained" ELSE "settled") /\ handlers[d] = 0
    /\ UNCHANGED <<files, cli, info, main, asked, db, handlers, loops, overrun, caches>>

\* drainIPC waits for the handlers, at most FlushDeadline.
DrainIPC(d) ==
    /\ Phase(d, {"closed"}, IF Sync(d) THEN "drained" ELSE "settled")
    /\ IF handlers[d] = 0 THEN UNCHANGED overrun ELSE Overran(d, {"handlers"})
    /\ UNCHANGED <<files, cli, info, main, asked, db, handlers, loops, caches>>

\* The sync daemon cancels its initial sync and waits for it, at most initialSyncStopWait.
AwaitInitialSync(d) ==
    /\ Phase(d, {"drained"}, "settled")
    /\ IF main[d] = "initial" THEN Overran(d, {"initial"}) ELSE UNCHANGED overrun
    /\ UNCHANGED <<files, cli, info, main, asked, db, handlers, loops, caches>>

\* FlushAll, then Stop of each loop: cancel, and wait for its end at most stopWait.
StopLoops(d) ==
    /\ Phase(d, {"settled"}, "stopped")
    /\ \E late \in SUBSET loops[d] :
           loops' = [loops EXCEPT ![d] = late] /\ Overran(d, late)
    /\ UNCHANGED <<files, cli, info, main, asked, db, handlers, caches>>

\* A loop that was stopped and not waited for ends.
LoopEnds(d) ==
    /\ main[d] \notin Gone /\ shut[d] \in {"stopped", "unmapped", "done"}
    /\ \E l \in loops[d] : loops' = [loops EXCEPT ![d] = @ \ {l}]
    /\ UNCHANGED <<files, cli, info, main, shut, asked, db, handlers, overrun, caches>>

\* Mapper.Unmap removes the symlink of the mount point, wherever it leads.  Backend.
\* Unmount ends a FUSE server that runs, and does nothing for one that does not yet.
Unmount(d) ==
    /\ Phase(d, {"stopped"}, "unmapped")
    /\ link' = Unmapped(info[d])
    /\ main' = IF main[d] = "mounted" THEN [main EXCEPT ![d] = "unmounted"] ELSE main
    /\ UNCHANGED <<registry, paths, there, owner, cli, info, asked, db, handlers, loops,
                   overrun, caches>>

\* cleanup(): store and database close, the entry is removed, and so is the cache of
\* a virtual mount; close(shutdownCh).
Cleanup(d) ==
    /\ Phase(d, {"unmapped"}, "done")
    /\ db' = [db EXCEPT ![d] = "closed"]
    /\ EvictMountEntry(d)
    /\ caches' = caches \ {d}
    /\ UNCHANGED <<paths, there, owner, link, cli, info, main, asked, handlers, loops, overrun>>

\* The process is gone, and with it everything it ran.
EndProcess(d, how) ==
    /\ main' = [main EXCEPT ![d] = how]
    /\ handlers' = [handlers EXCEPT ![d] = 0]
    /\ loops' = [loops EXCEPT ![d] = {}]
    /\ asked' = asked \ {d}

\* The main goroutine waits for the shutdown, closes the listener and returns.
Exit(d) ==
    /\ shut[d] = "done" /\ main[d] \in {"serving", "leaving", "unmounted"}
    /\ EndProcess(d, "exited")
    /\ UNCHANGED <<files, cli, info, shut, db, overrun, caches>>

\* The process is killed: its files stay as they are.
Killed(d) ==
    /\ main[d] \notin Gone
    /\ EndProcess(d, "dead")
    /\ db' = [db EXCEPT ![d] = "none"]
    /\ UNCHANGED <<files, cli, info, shut, overrun, caches>>

-----------------------------------------------------------------------------
(* The commands.  `info` of a command holds what it will spawn.             *)

At(c, pc) == cli[c].pc = pc
Go(c, pc) == cli' = [cli EXCEPT ![c].pc = pc]
End(c) == cli' = [cli EXCEPT ![c] = NoCli]
\* Stop the daemons of ds one after the other, then go on.
StopThen(c, ds, pc) == cli' = [cli EXCEPT ![c].pc = "stop", ![c].todo = ds, ![c].then = pc]

\* runMountStart: mounts of another account are stopped first.
runMountStart(c, k, mode, p) ==
    /\ At(c, "idle")
    /\ p \in Folders => mode = "sync" /\ p \in there
    /\ cli' = [cli EXCEPT ![c].pc = "stop", ![c].then = "others",
                          ![c].todo = {d \in Listed : Owner(info[d].key) # Owner(k)},
                          ![c].info = [NoInfo EXCEPT !.key = k, !.mode = mode,
                                                     !.point = p]]
    /\ UNCHANGED <<files, procs>>

\* stopEntry, the request: an unreachable daemon's entry is removed, a reachable one
\* answers OK and shuts down a little later.
stopEntry(c) ==
    /\ At(c, "stop")
    /\ \E d \in cli[c].todo :
           IF Reachable(d)
           THEN /\ asked' = IF shut[d] = "no" THEN asked \cup {d} ELSE asked
                /\ cli' = [cli EXCEPT ![c].pc = "await", ![c].wait = d, ![c].todo = @ \ {d}]
                /\ UNCHANGED registry
           ELSE /\ EvictMountEntry(d)
                /\ cli' = [cli EXCEPT ![c].todo = @ \ {d}]
                /\ UNCHANGED asked
    /\ UNCHANGED <<paths, there, owner, link, info, main, shut, db, handlers, loops, overrun, caches>>

\* stopEntry, the wait: until the ping fails, at most 30 times; "Unmounted" either way.
stopAwait(c) ==
    /\ At(c, "await")
    /\ StopGivesUp \/ ~Reachable(cli[c].wait)
    /\ cli' = [cli EXCEPT ![c].pc = "stop", ![c].wait = None]
    /\ UNCHANGED <<files, procs>>

stopDone(c) ==
    /\ At(c, "stop") /\ cli[c].todo = {}
    /\ IF cli[c].then = "idle" THEN End(c) ELSE Go(c, cli[c].then)
    /\ UNCHANGED <<files, procs>>

\* A virtual mount replaces the account's other virtual mounts.
stopOthers(c) ==
    LET i == cli[c].info IN
    /\ At(c, "others")
    /\ StopThen(c, {d \in Listed : /\ i.mode = "virtual" /\ info[d].mode = "virtual"
                                   /\ Owner(info[d].key) = Owner(i.key)
                                   /\ info[d].key # i.key}, "existing")
    /\ UNCHANGED <<files, procs>>

replaceExisting_NoStop(c) ==
    LET d == registry[cli[c].info.key]
        Same == info[d].point = cli[c].info.point /\ info[d].mode = cli[c].info.mode
    IN  /\ At(c, "existing")
        /\ IF d # None /\ Reachable(d) /\ Same THEN End(c) ELSE Go(c, "point")
        /\ UNCHANGED <<files, procs>>

\* The key's own entry: a stale one is removed, the same mount is left running, a
\* different one is stopped.
replaceExisting(c) ==
    LET i == cli[c].info
        d == registry[i.key]
        Same == info[d].point = i.point /\ info[d].mode = i.mode
    IN  /\ At(c, "existing")
        /\ \/ d = None /\ Go(c, "point") /\ UNCHANGED registry
           \/ d # None /\ ~Reachable(d) /\ EvictMountEntry(d) /\ Go(c, "point")
           \/ d # None /\ Reachable(d) /\ Same /\ End(c) /\ UNCHANGED registry
           \/ d # None /\ Reachable(d) /\ ~Same /\ StopThen(c, {d}, "point") /\ UNCHANGED registry
        /\ UNCHANGED <<paths, there, owner, link, procs>>

\* A mount point in use refuses the command; so does a locked key agent (external).
PointInUse(i) == \E d \in Listed : /\ Owner(info[d].key) = Owner(i.key) /\ info[d].key # i.key
                                   /\ info[d].point = i.point /\ Reachable(d)
checkPoint(c) ==
    LET i == cli[c].info IN
    /\ At(c, "point")
    /\ \/ End(c)
       \/ ~PointInUse(i) /\ Go(c, IF i.mode = "sync" THEN "folder" ELSE "spawn")
    /\ UNCHANGED <<files, procs>>

loadPaths(c) ==
    /\ At(c, "folder")
    /\ cli' = [cli EXCEPT ![c].pc = "prompt", ![c].paths = paths]
    /\ UNCHANGED <<files, procs>>

\* The folder: --sync-dir names one, a first sync asks for one, else it is known.
\* configureDirectSyncDir refuses a folder of another remote path, a second folder for
\* the same one, and another account's.
DirectAllowed(c, f) ==
    LET k == cli[c].info.key
        sp == cli[c].paths
        cur == GetSyncDir(sp, k)
    IN  /\ cur \in there => cur = f
        /\ \A q \in Keys : sp[q] = f => Remote(q) = Remote(k)
        /\ ~ClaimRefused(owner[f], Owner(k))

chooseFolder(c) ==
    LET i == cli[c].info
        sp == cli[c].paths
        o == Owner(i.key)
        Use(f) == cli' = [cli EXCEPT ![c].pc = "claim", ![c].info.folder = f,
                                     ![c].info.seen = owner[f]]
        Save(f) == paths' = [sp EXCEPT ![i.key] = f]
    IN  /\ At(c, "prompt")
        /\ \/ /\ i.point \in Folders
              /\ IF DirectAllowed(c, i.point)
                 THEN /\ owner' = [owner EXCEPT ![i.point] = o]
                      /\ Save(i.point)
                      /\ cli' = [cli EXCEPT ![c].pc = "claim", ![c].info.folder = i.point,
                                            ![c].info.seen = o]
                 ELSE End(c) /\ UNCHANGED <<owner, paths>>
              /\ UNCHANGED there
           \/ /\ i.point \notin Folders
              /\ Use(GetSyncDir(sp, i.key))
              /\ UNCHANGED <<owner, paths, there>>
           \/ /\ i.point \notin Folders /\ GetSyncDir(sp, i.key) \notin there
              /\ \E f \in Named :
                     /\ there' = there \cup {f}
                     /\ IF ClaimRefused(owner[f], o) THEN End(c) /\ UNCHANGED paths
                                                     ELSE Use(f) /\ Save(f)
              /\ UNCHANGED owner
        /\ UNCHANGED <<registry, link, procs>>

claimFolder(c) ==
    LET i == cli[c].info IN
    /\ At(c, "claim")
    /\ IF ClaimRefused(i.seen, Owner(i.key))
       THEN End(c) /\ UNCHANGED <<owner, there>>
       ELSE Go(c, "spawn") /\ ClaimWrite(i.folder, i.seen, Owner(i.key))
    /\ UNCHANGED <<registry, paths, link, procs>>

\* spawn.Background: a new process, which reads sync-paths.json itself.
FreeDaemons == {d \in Daemons : /\ main[d] \in Gone /\ d \notin Listed
                                /\ \A c \in Clis : d # cli[c].wait /\ d \notin cli[c].todo}
spawnBackground(c) ==
    LET d == CHOOSE x \in FreeDaemons : TRUE IN
    /\ At(c, "spawn") /\ FreeDaemons # {}
    /\ cli' = [cli EXCEPT ![c].pc = "ready", ![c].wait = d]
    /\ info' = [info EXCEPT ![d] = [cli[c].info EXCEPT !.folder = None, !.seen = None]]
    /\ main' = [main EXCEPT ![d] = "spawned"]
    /\ shut' = [shut EXCEPT ![d] = "no"]
    /\ db' = [db EXCEPT ![d] = "none"]
    /\ overrun' = [overrun EXCEPT ![d] = {}]
    /\ caches' = caches \ {d}
    /\ UNCHANGED <<files, asked, handlers, loops>>

\* Up to 30 pings of the key's entry; "Mounted", or "failed to start".
awaitReady(c) ==
    LET d == registry[cli[c].info.key] IN
    /\ At(c, "ready")
    /\ \/ StartGivesUp \/ main[cli[c].wait] \in Gone
       \/ d # None /\ Reachable(d)
    /\ End(c)
    /\ UNCHANGED <<files, procs>>

\* runMountStop: one mount, or all.
runMountStop(c) ==
    /\ At(c, "idle") /\ Listed # {}
    /\ \E ds \in {{d} : d \in Listed} \cup {Listed} : StopThen(c, ds, "idle")
    /\ UNCHANGED <<files, procs>>

\* pin, unpin, clean, retry, resolve, and the detailed status: the entry is read, then
\* the request is sent.  A failed dial removes the entry.
withMount(c, d) == cli' = [cli EXCEPT ![c].pc = "send", ![c].wait = d]
runMountRequest(c) ==
    /\ At(c, "idle")
    /\ \E d \in Listed : withMount(c, d)
    /\ UNCHANGED <<files, procs>>

SendRequest(c) ==
    LET d == cli[c].wait IN
    /\ At(c, "send") /\ End(c)
    /\ IF Reachable(d) THEN BeginMutation(d) /\ UNCHANGED registry
                       ELSE EvictMountEntry(d) /\ UNCHANGED handlers
    /\ UNCHANGED <<paths, there, owner, link, info, main, shut, asked, db, loops, overrun, caches>>

\* Across devices the folder is copied, and what a failed copy leaves stays.
copyDir(cur, dest) == /\ there' = there \cup {dest}
                      /\ \E o \in {None, owner[cur]} : owner' = [owner EXCEPT ![dest] = o]

\* runMountMv reads the paths, stops the mount if it answers, renames the folder with
\* its owner file, and saves the paths it read with the new one.
runMountMv(c, k) ==
    LET cur == GetSyncDir(paths, k)
        d == registry[k]
    IN  /\ At(c, "idle") /\ cur \in there
        /\ cli' = [cli EXCEPT ![c].paths = paths, ![c].then = "move",
                              ![c].pc = IF d # None /\ Reachable(d) THEN "stop" ELSE "move",
                              ![c].todo = IF d # None /\ Reachable(d) THEN {d} ELSE {},
                              ![c].info = [NoInfo EXCEPT !.key = k, !.folder = cur]]
        /\ UNCHANGED <<files, procs>>

mvRename(c) ==
    LET cur == cli[c].info.folder IN
    /\ At(c, "move")
    /\ \E dest \in Named \ {cur} :
           IF dest \in there \/ cur \notin there THEN End(c) /\ UNCHANGED <<there, owner>>
           ELSE \/ /\ there' = (there \cup {dest}) \ {cur}
                   /\ owner' = [owner EXCEPT ![dest] = owner[cur], ![cur] = None]
                   /\ cli' = [cli EXCEPT ![c].pc = "save",
                                         ![c].paths = [@ EXCEPT ![cli[c].info.key] = dest]]
                \/ copyDir(cur, dest) /\ End(c)
    /\ UNCHANGED <<registry, paths, link, procs>>

mvSave(c) ==
    /\ At(c, "save") /\ End(c)
    /\ paths' = cli[c].paths
    /\ UNCHANGED <<registry, there, owner, link, procs>>

\* The user interrupts a command; while it waits for its daemon, this is giving up.
Interrupted(c) == ~At(c, "idle") /\ (StartGivesUp \/ ~At(c, "ready")) /\ End(c) /\ UNCHANGED <<files, procs>>

-----------------------------------------------------------------------------
(* The specification.                                                       *)

MInit ==
    /\ registry = [k \in Keys |-> None] /\ paths = [k \in Keys |-> None]
    /\ there \in {{}} \cup {{LegacyDir[k]} : k \in Keys}
    /\ owner = [f \in Folders |-> None] /\ link = [p \in Points |-> None]
    /\ cli = [c \in Clis |-> NoCli]
    /\ info = [d \in Daemons |-> NoInfo]
    /\ main = [d \in Daemons |-> "none"] /\ shut = [d \in Daemons |-> "no"]
    /\ asked = {} /\ caches = {}
    /\ db = [d \in Daemons |-> "none"] /\ handlers = [d \in Daemons |-> 0]
    /\ loops = [d \in Daemons |-> {}] /\ overrun = [d \in Daemons |-> {}]

Starts(d) == \/ ResolveSyncDir(d) \/ ClaimSyncDir(d) \/ openMountRuntime(d) \/ MapDrive(d)
             \/ WriteMountEntry(d)
Shuts(d) == \/ ShutdownRequested(d) \/ DrainIPC(d) \/ AwaitInitialSync(d) \/ StopLoops(d)
            \/ Unmount(d) \/ Cleanup(d) \/ Exit(d)
Runs(d) == InitialSyncReturns(d) \/ GateRun(d) \/ BackendMount(d) \/ EndMutation(d) \/ LoopEnds(d)
Faults(d) == StartFails(d) \/ Killed(d) \/ Signalled(d) \/ Umounted(d)
Commands(c) == \/ runMountStop(c) \/ runMountRequest(c)
               \/ \E k \in Keys : runMountMv(c, k)
               \/ \E k \in Keys, mode \in Modes, p \in Points \cup Named :
                      runMountStart(c, k, mode, p)
Continues(c) == \/ stopEntry(c) \/ stopAwait(c) \/ stopDone(c) \/ stopOthers(c)
                \/ replaceExisting(c) \/ checkPoint(c) \/ loadPaths(c) \/ chooseFolder(c)
                \/ claimFolder(c) \/ spawnBackground(c) \/ awaitReady(c) \/ SendRequest(c)
                \/ mvRename(c) \/ mvSave(c) \/ Interrupted(c)

MNext == \/ \E d \in Daemons : Starts(d) \/ Shuts(d) \/ Runs(d) \/ Faults(d)
         \/ \E c \in Clis : Commands(c) \/ Continues(c)

MSpec == MInit /\ [][MNext]_mvars

-----------------------------------------------------------------------------
(* Properties.                                                              *)

Infos == [key : Keys, mode : Modes, point : Points \cup Folders,
          folder : Folders \cup {None}, seen : Owners \cup {None}]
MainPcs == {"none", "spawned", "claiming", "claimed", "open", "mapped", "initial", "synced",
            "serving", "leaving", "mounting", "mounted", "unmounted", "exited", "dead"}
Phases == {"no", "closed", "drained", "settled", "stopped", "unmapped", "done"}
CliPcs == {"idle", "stop", "await", "others", "existing", "point", "folder", "prompt", "claim",
           "spawn", "ready", "send", "move", "save"}

\* The type invariant.
MTypeOK ==
    /\ registry \in [Keys -> Daemons \cup {None}] /\ paths \in [Keys -> Folders \cup {None}]
    /\ there \subseteq Folders /\ owner \in [Folders -> Owners \cup {None}]
    /\ link \in [Points -> Folders \cup {None}]
    /\ cli \in [Clis -> [pc : CliPcs, info : Infos, todo : SUBSET Daemons, then : CliPcs,
                         wait : Daemons \cup {None}, paths : [Keys -> Folders \cup {None}]]]
    /\ info \in [Daemons -> Infos] /\ main \in [Daemons -> MainPcs]
    /\ shut \in [Daemons -> Phases]
    /\ asked \subseteq Daemons /\ caches \subseteq Daemons
    /\ db \in [Daemons -> {"none", "open", "closed"}]
    /\ handlers \in [Daemons -> 0 .. MaxHandlers] /\ loops \in [Daemons -> SUBSET Loops]
    /\ overrun \in [Daemons -> SUBSET (Loops \cup {"handlers", "initial"})]

\* Once a daemon has closed its database (cleanup), nothing of it runs on the closed
\* store: no mutating request, no loop, no initial sync, except what the shutdown waited
\* for in vain for as long as drainIPC, initialSyncStopWait and stopWait say.
ClosedStoreQuiet ==
    \A d \in Daemons : db[d] = "closed" =>
        /\ handlers[d] > 0 => "handlers" \in overrun[d]
        /\ main[d] = "initial" => "initial" \in overrun[d]
        /\ loops[d] \subseteq overrun[d]

\* The folder of a daemon is there and claimed by the daemon's account.
Holds(d) == info[d].folder \in there /\ owner[info[d].folder] = Owner(info[d].key)

\* A daemon opens its database only in a folder that its account holds, and while the
\* database is open the account loses the folder only when it is moved away: whatever folder
\* a user names, a `mv` brings along, an older version has left or another account's mount
\* claims in between (ClaimSyncDir).  That a folder is moved away under a daemon can happen
\* where two remote paths share it, which promptSyncDir allows.
NoForeignFolder ==
    [][\A d \in Daemons : db'[d] = "open" /\ Sync(d)' =>
           \/ Holds(d)'
           \/ db[d] = "open" /\ (Holds(d) => info[d].folder \notin there')]_mvars

\* A daemon that serves and was not told to stop can be found and used: the registry
\* names it, its mount point leads to its folder, its cache is there.  A command that
\* removed the entry, the symlink or the cache of another daemon would break this.
ServingIsVisible ==
    \A d \in Daemons : Reachable(d) /\ shut[d] = "no" /\ d \notin asked =>
        /\ registry[info[d].key] = d
        /\ Sync(d) /\ ~Direct(info[d]) => link[info[d].point] = info[d].folder
        /\ ~Sync(d) => d \in caches

\* `pc mn mv` renames a folder only when no daemon has its database open there.
MoveOnlyStopped ==
    [][\A c \in Clis : At(c, "move") /\ cli'[c].pc = "save" =>
           \A d \in Daemons : db[d] = "open" => info[d].folder # cli[c].info.folder]_mvars

\* The FUSE server of a virtual mount that started after its shutdown had unmounted.
LateMount(d) == main[d] = "mounted" /\ shut[d] \in {"unmapped", "done"}

\* A shutdown that begins ends: the process exits, whatever its handlers, loops and
\* initial sync do, unless the FUSE server starts after Unmount.
ShutdownCompletes ==
    \A d \in Daemons : shut[d] # "no" ~> main[d] \in Gone \/ LateMount(d)

==============================================================================
