------------------------------ MODULE Download ------------------------------
(***************************************************************************)
(* One download command: pc dl of a file or a folder (to a path, to the     *)
(* standard output, file by file, or into an archive) and pc vh download.   *)
(* Every one of them hands a path to client.Download, which leaves the      *)
(* sealed content there, and decryptDownloadedFile then verifies it in      *)
(* place and puts the clear content where the sealed one was.  The user     *)
(* goes on saving files next to it.                                         *)
(***************************************************************************)
EXTENDS Integers, Sequences, Functions, Absent

CONSTANTS
    Root,        \* the path asked for
    Listing,     \* the files below it, if it is a folder
    DlAttempts   \* len(retryDelays) + 1

ASSUME DlAssumption == DlAttempts \in Nat \ {0} /\ Root \notin Range(Listing)
ASSUME ListingAssumption == Listing \in Seq(Range(Listing)) /\ IsInjective(Listing)
ASSUME ContentAssumption == None \notin {"mine", "sealed", "clear", "partial"}

VARIABLES
    dl,         \* the command: [mode, over, skip, pc, cur, todo, tries]
    local,      \* per path: None, a content of the user ("mine"), or what the command put there
    temp,       \* its working file, where the content is not meant to stay
    archive,    \* the archive: None, "mine", "open" or "closed"
    served,     \* server: "dir", or what a download of the path gives
    interrupted, \* Ctrl-C: the command's context is over
    mineFirst,  \* history: the paths that held a content of the user before the command
    saved,      \* history: the paths the user saved to while the command was at them
    reported,   \* history: the paths the command said it downloaded
    passed,     \* history: contents that went to the standard output or into the archive
    faulty      \* history: the last write failed, or the keys were gone after the download

dvars == <<dl, local, temp, archive, served, interrupted, mineFirst, saved, reported, passed, faulty>>
files == <<local, temp, archive>>
dworld == <<served, interrupted, mineFirst, saved>>
told == <<reported, passed>>

Paths == {Root} \cup Range(Listing)
DlOver == {"ended", "failed", "killed"}

DlAt(pc) == dl.pc = pc
Step(pc) == dl' = [dl EXCEPT !.pc = pc]

\* The path given to client.Download, and what is there.
InPlace == dl.mode \in {"file", "version", "extract"}
Here == IF InPlace THEN local[dl.cur] ELSE temp
Put(c) ==
    IF InPlace THEN local' = [local EXCEPT ![dl.cur] = c] /\ UNCHANGED <<temp, archive>>
    ELSE temp' = c /\ UNCHANGED <<local, archive>>

-----------------------------------------------------------------------------
(* The commands.                                                            *)

\* A path that is taken: skipped, refused, or overwritten.
Existing(there) == IF ~there THEN "go" ELSE IF dl.skip THEN "skip" ELSE IF dl.over THEN "go" ELSE "refuse"

runDownload ==
    /\ DlAt("start") /\ dl.mode = "file"
    /\ Step(CASE Existing(local[Root] # None) = "go" -> "request"
              [] Existing(local[Root] # None) = "skip" -> "ended"
              [] OTHER -> "failed")
    /\ UNCHANGED <<files, dworld, told, faulty>>

\* It asks no question about the path.
runVersionDownload ==
    /\ DlAt("start") /\ dl.mode = "version"
    /\ Step("request")
    /\ UNCHANGED <<files, dworld, told, faulty>>

runStdoutDownload ==
    /\ DlAt("start") /\ dl.mode = "stdout"
    /\ Step("request")
    /\ UNCHANGED <<files, dworld, told, faulty>>

\* The listing of a folder, or an error and the end.
listFolder ==
    /\ DlAt("list") \/ (DlAt("start") /\ dl.mode \in {"extract", "zip"})
    /\ \/ dl' = [dl EXCEPT !.pc = IF dl.mode = "zip" THEN "create" ELSE "next", !.todo = Listing]
       \/ Step("failed")
    /\ UNCHANGED <<files, dworld, told, faulty>>

\* The next file: one that is there already is left or overwritten.
runExtractDownload ==
    /\ DlAt("next") /\ dl.mode = "extract"
    /\ IF dl.todo = <<>> THEN Step("ended")
       ELSE LET f == Head(dl.todo) IN
            dl' = [dl EXCEPT !.todo = Tail(@), !.cur = f, !.tries = 0,
                             !.pc = IF Existing(local[f] # None) = "go" THEN "request" ELSE "next"]
    /\ UNCHANGED <<files, dworld, told, faulty>>

createArchive ==
    /\ DlAt("create")
    /\ LET e == Existing(archive # None) IN
       /\ Step(CASE e = "go" -> "next" [] e = "skip" -> "ended" [] OTHER -> "failed")
       /\ archive' = IF e = "go" THEN "open" ELSE archive
    /\ UNCHANGED <<local, temp, dworld, told, faulty>>

\* A working file per entry; the archive is closed after the last one.
runZipDownload ==
    /\ DlAt("next") /\ dl.mode = "zip"
    /\ IF dl.todo = <<>> THEN Step("ended") /\ archive' = "closed" /\ UNCHANGED temp
       ELSE /\ dl' = [dl EXCEPT !.todo = Tail(@), !.cur = Head(dl.todo), !.tries = 0, !.pc = "request"]
            /\ temp' = None /\ UNCHANGED archive
    /\ UNCHANGED <<local, dworld, told, faulty>>

-----------------------------------------------------------------------------
(* client.Download.                                                         *)

\* streamDownload: an attempt fails; a transient failure is tried again, unless the context
\* is over.
streamDownload ==
    /\ DlAt("request")
    /\ \/ /\ ~interrupted /\ dl.tries + 1 < DlAttempts
          /\ dl' = [dl EXCEPT !.tries = @ + 1]
       \/ Step("unserved")
    /\ UNCHANGED <<files, dworld, told, faulty>>

\* fileSink: the body goes to a temporary file, which takes the place of the path when it
\* is complete.
fileSink ==
    /\ DlAt("request") /\ ~interrupted /\ served[dl.cur] # "dir"
    /\ Put("sealed")
    /\ Step("verify")
    /\ UNCHANGED <<dworld, told, faulty>>

\* downloadRejection: is_directory.
downloadRejection ==
    /\ DlAt("request") /\ ~interrupted /\ served[dl.cur] = "dir"
    /\ IF dl.mode = "file" THEN dl' = [dl EXCEPT !.mode = "extract", !.pc = "list"] ELSE Step("unserved")
    /\ UNCHANGED <<files, dworld, told, faulty>>

\* The download failed: the path is removed, whatever is there.
downloadFailed ==
    /\ DlAt("unserved")
    /\ IF dl.mode = "stdout" THEN UNCHANGED files ELSE Put(None)
    /\ Step(IF dl.mode \in {"extract", "zip"} THEN "next" ELSE "failed")
    /\ UNCHANGED <<dworld, told, faulty>>

-----------------------------------------------------------------------------
(* decryptDownloadedFile, on the path.  Whatever fails ends the command,     *)
(* with files still to come as well.                                        *)

Refuse_Keeps == Step("failed") /\ UNCHANGED files
Refuse == Step("failed") /\ Put(None)

\* RequireEncryptedDownload, VerifyDownloadIntegrity: of the file that is there now.
VerifyDownloadIntegrity ==
    /\ DlAt("verify")
    /\ IF Here = "sealed" /\ served[dl.cur] \in {"good", "garbled"} THEN Step("keys") /\ UNCHANGED files
       ELSE Refuse
    /\ UNCHANGED <<dworld, told, faulty>>

\* GetKeyPair: without keys the command ends there and then.
GetKeyPair ==
    /\ DlAt("keys")
    /\ \/ Step("decrypt") /\ UNCHANGED faulty
       \/ Step("failed") /\ faulty' = TRUE
    /\ UNCHANGED <<files, dworld, told>>

\* DecryptFile: from the path to a temporary file.
DecryptFile ==
    /\ DlAt("decrypt")
    /\ IF Here = "sealed" /\ served[dl.cur] = "good" THEN Step("swap") /\ Put(None) ELSE Refuse
    /\ UNCHANGED <<dworld, told, faulty>>

\* The temporary file takes the place of the path, or is copied there; nobody looks at an
\* error of the copy.
renameOrCopy ==
    /\ DlAt("swap")
    /\ \/ Put("clear") /\ UNCHANGED faulty
       \/ Put("partial") /\ faulty' = TRUE
    /\ Step("decrypted")
    /\ UNCHANGED <<dworld, told>>

-----------------------------------------------------------------------------
(* What each command does with the content.                                 *)

reportDownloaded ==
    /\ DlAt("decrypted") /\ InPlace
    /\ reported' = reported \cup {dl.cur}
    /\ Step(IF dl.mode = "extract" THEN "next" ELSE "ended")
    /\ UNCHANGED <<files, passed, dworld, faulty>>

\* io.Copy to the standard output; an entry of the archive, whose working file goes.
passOn ==
    /\ DlAt("decrypted") /\ ~InPlace
    /\ passed' = passed \cup {temp}
    /\ temp' = None
    /\ Step(IF dl.mode = "zip" THEN "next" ELSE "ended")
    /\ UNCHANGED <<local, archive, reported, dworld, faulty>>

-----------------------------------------------------------------------------
(* The world.                                                               *)

Cancel ==
    /\ dl.pc \notin DlOver /\ ~interrupted
    /\ interrupted' = TRUE
    /\ UNCHANGED <<dl, files, served, mineFirst, saved, told, faulty>>
KillDownload ==
    /\ dl.pc \notin DlOver
    /\ Step("killed")
    /\ UNCHANGED <<files, dworld, told, faulty>>
\* Once the command has looked at a path, a save there is not seen.
UserSaves ==
    /\ saved = {} /\ InPlace /\ dl.pc \notin DlOver
    /\ local' = [local EXCEPT ![dl.cur] = "mine"]
    /\ saved' = {dl.cur}
    /\ UNCHANGED <<dl, temp, archive, served, interrupted, mineFirst, told, faulty>>

DInit ==
    /\ \E mode \in {"file", "version", "stdout", "extract", "zip"}, over, skip \in BOOLEAN :
         dl = [mode |-> mode, over |-> over, skip |-> skip, pc |-> "start", cur |-> Root,
               todo |-> <<>>, tries |-> 0]
    /\ served \in {s \in [Paths -> {"good", "garbled", "forged", "dir"}] :
                     \A f \in Range(Listing) : s[f] # "dir"}
    /\ dl.mode \in {"extract", "zip"} => served[Root] = "dir"
    /\ local \in [Paths -> {None, "mine"}]
    /\ temp = None /\ archive \in {None, "mine"}
    /\ interrupted = FALSE /\ saved = {} /\ reported = {} /\ passed = {} /\ faulty = FALSE
    /\ mineFirst = {f \in Paths : local[f] = "mine"}

DNext ==
    \/ runDownload \/ runVersionDownload \/ runStdoutDownload \/ listFolder \/ runExtractDownload
    \/ createArchive \/ runZipDownload
    \/ streamDownload \/ fileSink \/ downloadRejection \/ downloadFailed
    \/ VerifyDownloadIntegrity \/ GetKeyPair \/ DecryptFile \/ renameOrCopy
    \/ reportDownloaded \/ passOn
    \/ Cancel \/ KillDownload \/ UserSaves

DSpec == DInit /\ [][DNext]_dvars

-----------------------------------------------------------------------------
(* Properties.                                                              *)

\* The command, its files and its history have the values the code gives them.
DTypeOK ==
    /\ dl.cur \in Paths /\ dl.tries \in 0..DlAttempts - 1
    /\ local \in [Paths -> {None, "mine", "sealed", "clear", "partial"}]
    /\ archive \in {None, "mine", "open", "closed"}
    /\ mineFirst \cup saved \cup reported \subseteq Paths

\* What pc dl and pc vh leave behind.  A path that was reported holds the clear content, and
\* only clear content went to the standard output or into the archive; a command that ended
\* by itself leaves no sealed content under a name of the user's; and pc dl without
\* --overwrite leaves the user's files and archive as they were.  Not so where
\* decryptDownloadedFile looks at no error (faulty), and at a path the user saved to while
\* the command was at it.
DownloadSound ==
    /\ ~faulty => /\ \A f \in reported \ saved : local[f] = "clear"
                  /\ passed \subseteq {"clear"}
                  /\ dl.pc \in {"ended", "failed"} => \A f \in Paths : local[f] # "sealed"
    /\ (dl.mode # "version" /\ ~dl.over) => \A f \in mineFirst \ saved : local[f] = "mine"
=============================================================================
