------------------------------ MODULE Updater ------------------------------
(***************************************************************************)
(* The self-update (src/internal/core/updater.go), driven by a checker and *)
(* by the requests of src/internal/api/updates.go.  One mutex guards the   *)
(* status and is held for all of a check and of an apply; the downloads    *)
(* write without it, and a rollback never takes it.                        *)
(*                                                                         *)
(* Versions are numbers in the order of compareVersions.  A file is the    *)
(* version it comes from and whether it is complete.                       *)
(***************************************************************************)
EXTENDS Integers

CONSTANTS
    MaxVersion,    \* bound: versions 1..MaxVersion, the first is installed
    Downloads,     \* bound: DownloadUpdate goroutines at one time
    MaxApplies,    \* bound: apply and rollback requests in a behaviour
    MaxFaults      \* bound: failed downloads, failed renames and crashes together

ASSUME UpdaterAssumption ==
    MaxVersion \in Nat \ {0} /\ MaxApplies \in Nat /\ MaxFaults \in Nat

Versions == 1..MaxVersion
NoVersion == 0
NoFile == [version |-> NoVersion, whole |-> FALSE]
Whole(v) == [version |-> v, whole |-> TRUE]
Part(v) == [version |-> v, whole |-> FALSE]

VARIABLES
    installed,    \* the executable
    backup,       \* the file beside it
    archive,      \* sampmail-update/sampmail-<version>.zip: who created it last, complete
    running,      \* Version of the process; NoVersion when the executable does not run
    release,      \* UpdateStatus: Available and the version of ReleaseInfo
    ready,        \* UpdateStatus: DownloadReady, as the version of DownloadedPath
    download,     \* the DownloadUpdate goroutines
    apply,        \* ApplyUpdate, the holder of the mutex; where its copy goes
    restart,      \* a goroutine will restart the service
    rolledBack,   \* history: Rollback since the process started
    cutShort,     \* history: the process died while a backup was copied
    requests, faults

updaterVars == <<installed, backup, archive, running, release, ready, download, apply,
                 restart, rolledBack, cutShort, requests, faults>>
processVars == <<running, release, ready, download, apply, restart>>
fileVars == <<installed, backup, archive>>
historyOfUpdate == <<rolledBack, cutShort>>
boundVars == <<requests, faults>>

NoDownload == [pc |-> "rest", version |-> NoVersion]
NoApply == [pc |-> "rest", source |-> NoFile, target |-> "backup"]
NotOffered == [available |-> FALSE, version |-> NoVersion]
MutexFree == apply.pc = "rest" /\ running # NoVersion

UpdaterInit ==
    /\ installed = Whole(1) /\ backup = NoFile
    /\ archive = [v \in Versions |-> [by |-> "none", whole |-> FALSE]]
    /\ running = 1
    /\ release = NotOffered /\ ready = NoVersion
    /\ download = [d \in Downloads |-> NoDownload]
    /\ apply = NoApply /\ restart = FALSE
    /\ rolledBack = FALSE /\ cutShort = FALSE
    /\ requests = 0 /\ faults = 0

Fault == faults < MaxFaults /\ faults' = faults + 1
Asked == requests < MaxApplies /\ requests' = requests + 1

-----------------------------------------------------------------------------
\* The latest stable release, NoVersion when there is none; a release that is
\* withdrawn leaves ReleaseInfo as it was.
CheckForUpdates ==
    /\ MutexFree
    /\ \E latest \in Versions \cup {NoVersion} :
        release' = IF latest > running THEN [available |-> TRUE, version |-> latest]
                                       ELSE [release EXCEPT !.available = FALSE]
    /\ UNCHANGED <<running, ready, download, apply, restart, fileVars, historyOfUpdate, boundVars>>

BeginDownload(d) ==
    /\ MutexFree /\ download[d].pc = "rest"
    /\ release.available
    /\ download' = [download EXCEPT ![d] = [pc |-> "create", version |-> release.version]]
    /\ UNCHANGED <<running, release, ready, apply, restart, fileVars, historyOfUpdate, boundVars>>

\* os.Create truncates what another download of the version has written.
CreateArchive(d) ==
    /\ download[d].pc = "create"
    /\ archive' = [archive EXCEPT ![download[d].version] = [by |-> d, whole |-> FALSE]]
    /\ download' = [download EXCEPT ![d].pc = "copy"]
    /\ UNCHANGED <<installed, backup, running, release, ready, apply, restart,
                   historyOfUpdate, boundVars>>

\* The file is complete with its last creator.  No release has a checksum, so
\* nothing else is verified.
EndOfBody(d) ==
    /\ download[d].pc = "copy"
    /\ archive' = [archive EXCEPT ![download[d].version].whole = @ \/
                     archive[download[d].version].by = d]
    /\ download' = [download EXCEPT ![d].pc = "publish"]
    /\ UNCHANGED <<installed, backup, running, release, ready, apply, restart,
                   historyOfUpdate, boundVars>>

\* The connection never comes about, or breaks: then the file is removed.
DownloadFails(d) ==
    /\ Fault
    /\ download[d].pc \in {"create", "copy"}
    /\ archive' = IF download[d].pc = "create" THEN archive
                  ELSE [archive EXCEPT ![download[d].version] = [by |-> "none", whole |-> FALSE]]
    /\ download' = [download EXCEPT ![d] = NoDownload]
    /\ UNCHANGED <<installed, backup, running, release, ready, apply, restart,
                   historyOfUpdate, requests>>

PublishDownload(d) ==
    /\ MutexFree /\ download[d].pc = "publish"
    /\ ready' = download[d].version
    /\ download' = [download EXCEPT ![d] = NoDownload]
    /\ UNCHANGED <<running, release, apply, restart, fileVars, historyOfUpdate, boundVars>>

-----------------------------------------------------------------------------
(* ApplyUpdate *)

\* copyFile opens the executable and truncates the backup.
BeginApply ==
    /\ MutexFree /\ ready # NoVersion
    /\ Asked
    /\ backup' = Part(installed.version)
    /\ apply' = [pc |-> "copy", source |-> installed, target |-> "backup"]
    /\ UNCHANGED <<installed, archive, running, release, ready, download, restart,
                   historyOfUpdate, faults>>

\* A rollback meanwhile has renamed the half copy: the rest goes on into it.
EndBackup ==
    /\ apply.pc = "copy"
    /\ IF apply.target = "backup"
       THEN backup' = apply.source /\ UNCHANGED installed
       ELSE installed' = apply.source /\ UNCHANGED backup
    /\ apply' = [apply EXCEPT !.pc = "extract"]
    /\ UNCHANGED <<archive, running, release, ready, download, restart, historyOfUpdate, boundVars>>

\* Mutant: what was extracted is not verified.
ExtractUnverified ==
    /\ apply.pc = "extract"
    /\ apply' = [apply EXCEPT !.pc = "replace",
                   !.source = [version |-> ready, whole |-> archive[ready].whole]]
    /\ UNCHANGED <<running, release, ready, download, restart, fileVars, historyOfUpdate, boundVars>>

\* The archive's own sums betray an incomplete one.
Extract ==
    /\ apply.pc = "extract"
    /\ apply' = IF archive[ready].whole
                THEN [apply EXCEPT !.pc = "replace", !.source = Whole(ready)] ELSE NoApply
    /\ UNCHANGED <<running, release, ready, download, restart, fileVars, historyOfUpdate, boundVars>>

\* The download stays ready, and may be applied again before the restart.
Replace ==
    /\ apply.pc = "replace"
    /\ installed' = apply.source
    /\ restart' = TRUE
    /\ apply' = NoApply
    /\ UNCHANGED <<backup, archive, running, release, ready, download, historyOfUpdate, boundVars>>

\* The backup goes back to its place, if there is one.
ReplaceFails ==
    /\ Fault
    /\ apply.pc = "replace"
    /\ IF backup = NoFile THEN UNCHANGED <<installed, backup>>
                          ELSE installed' = backup /\ backup' = NoFile
    /\ apply' = NoApply
    /\ UNCHANGED <<archive, running, release, ready, download, restart, historyOfUpdate, requests>>

-----------------------------------------------------------------------------
Rollback ==
    /\ Asked /\ running # NoVersion
    /\ backup # NoFile
    /\ installed' = backup /\ backup' = NoFile
    /\ apply' = IF apply.pc = "copy" THEN [apply EXCEPT !.target = "executable"] ELSE apply
    /\ restart' = TRUE /\ rolledBack' = TRUE
    /\ UNCHANGED <<archive, running, release, ready, download, cutShort, faults>>

\* The new process knows nothing of the old one's downloads.
StartProcess ==
    /\ running' = IF installed.whole THEN installed.version ELSE NoVersion
    /\ release' = NotOffered /\ ready' = NoVersion
    /\ download' = [d \in Downloads |-> NoDownload]
    /\ apply' = NoApply /\ restart' = FALSE /\ rolledBack' = FALSE
    /\ cutShort' = (cutShort \/ apply.pc = "copy")
    /\ UNCHANGED <<fileVars, requests>>

RestartService == restart /\ StartProcess /\ UNCHANGED faults

UpdaterCrash == running # NoVersion /\ Fault /\ StartProcess

UpdaterNext ==
    \/ CheckForUpdates
    \/ \E d \in Downloads :
        \/ BeginDownload(d) \/ CreateArchive(d) \/ EndOfBody(d)
        \/ DownloadFails(d) \/ PublishDownload(d)
    \/ BeginApply \/ EndBackup \/ Extract \/ Replace \/ ReplaceFails
    \/ Rollback
    \/ RestartService \/ UpdaterCrash

UpdaterSpec == UpdaterInit /\ [][UpdaterNext]_updaterVars

-----------------------------------------------------------------------------
File == [version : Versions \cup {NoVersion}, whole : BOOLEAN]

UpdaterTypeOK ==
    /\ installed \in File /\ backup \in File
    /\ archive \in [Versions -> [by : Downloads \cup {"none"}, whole : BOOLEAN]]
    /\ running \in Versions \cup {NoVersion}
    /\ release \in [available : BOOLEAN, version : Versions \cup {NoVersion}]
    /\ ready \in Versions \cup {NoVersion}
    /\ download \in [Downloads -> [pc : {"rest", "create", "copy", "publish"},
                                   version : Versions \cup {NoVersion}]]
    /\ apply \in [pc : {"rest", "copy", "extract", "replace"}, source : File,
                  target : {"backup", "executable"}]
    /\ restart \in BOOLEAN /\ rolledBack \in BOOLEAN /\ cutShort \in BOOLEAN
    /\ requests \in 0..MaxApplies /\ faults \in 0..MaxFaults

(***************************************************************************)
(* Downloads that truncate or remove each other's file, applies, rollbacks *)
(* and restarts leave an executable that runs and is not older than the    *)
(* process: it is incomplete only while the copy goes on that a rollback   *)
(* took for a backup, or when a crash has cut such a copy short; it is     *)
(* older only if it was rolled back.                                       *)
(***************************************************************************)
InstalledStaysGood ==
    /\ ~installed.whole => cutShort \/ (apply.pc = "copy" /\ apply.target = "executable")
    /\ installed.version < running => rolledBack
=============================================================================
