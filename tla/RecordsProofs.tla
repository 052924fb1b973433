--------------------------- MODULE RecordsProofs ----------------------------
(***************************************************************************)
(* What is proved of Updater, Warmup, Audience, SenderSetup and            *)
(* BounceHandling, for any number of requests, rows, files and failures.   *)
(* Each keeps a promise about rows and files that several hands write, and *)
(* in each the promise rests on what those hands have read and have yet to *)
(* write; the invariant of a section says that.                            *)
(***************************************************************************)
EXTENDS Updater, Warmup, Audience, SenderSetup, BounceHandling, SequenceTheorems, FiniteSetTheorems,
        WellFoundedInduction, TLAPS

-----------------------------------------------------------------------------
(* Updater *)

\* Only a copy that a crash has cut short, or that goes on, leaves a file incomplete.
FilesSound ==
    /\ installed.version \in Versions
    /\ backup # NoFile =>
         /\ backup.version \in Versions
         /\ ~backup.whole => cutShort \/ (apply.pc = "copy" /\ apply.target = "backup")
    /\ apply.pc # "rest" =>
         /\ apply.source.version \in Versions
         /\ ~apply.source.whole => cutShort
    /\ apply.pc = "copy" /\ apply.target = "executable" => backup = NoFile

\* What is offered, downloaded or applied is not older than the process.
NotOlder ==
    /\ release.available => release.version \in Versions /\ running <= release.version
    /\ \A d \in Downloads : download[d].pc # "rest" =>
         download[d].version \in Versions /\ running <= download[d].version
    /\ ready # NoVersion => running <= ready
    /\ apply.pc # "rest" =>
         /\ ready # NoVersion
         /\ running <= apply.source.version \/ rolledBack
    /\ apply.pc \in {"extract", "replace"} /\ backup # NoFile =>
         running <= backup.version \/ rolledBack

UpdaterInv == UpdaterTypeOK /\ FilesSound /\ NotOlder /\ InstalledStaysGood

LEMMA FileFields ==
    /\ NoFile \in File /\ NoFile.version = NoVersion /\ ~NoFile.whole
    /\ \A v \in Versions \cup {NoVersion} :
         /\ Whole(v) \in File /\ Whole(v).version = v /\ Whole(v).whole
         /\ Part(v) \in File /\ Part(v).version = v /\ ~Part(v).whole
    /\ \A f \in File : f = [version |-> f.version, whole |-> f.whole]
  BY DEF NoFile, Whole, Part, File

LEMMA UpdaterInvInit == UpdaterInit => UpdaterInv
<1> SUFFICES ASSUME UpdaterInit PROVE UpdaterInv
  OBVIOUS
<1>1. UpdaterTypeOK
  <2>1. 1 \in Versions /\ Whole(1) \in File /\ NoFile \in File /\ NoVersion = 0
    BY UpdaterAssumption, FileFields DEF Versions, NoVersion
  <2>2. /\ installed \in File /\ backup \in File /\ running \in Versions \cup {NoVersion}
        /\ ready \in Versions \cup {NoVersion}
    BY <2>1 DEF UpdaterInit
  <2>3. archive \in [Versions -> [by : Downloads \cup {"none"}, whole : BOOLEAN]]
    BY DEF UpdaterInit
  <2>4. download \in [Downloads -> [pc : {"rest", "create", "copy", "publish"},
                                   version : Versions \cup {NoVersion}]]
    BY DEF UpdaterInit, NoDownload
  <2>8. restart \in BOOLEAN /\ rolledBack \in BOOLEAN /\ cutShort \in BOOLEAN
    BY DEF UpdaterInit
  <2>5. /\ requests \in 0..MaxApplies /\ faults \in 0..MaxFaults
    BY UpdaterAssumption DEF UpdaterInit
  <2>7. release \in [available : BOOLEAN, version : Versions \cup {NoVersion}]
    BY DEF UpdaterInit, NotOffered
  <2>6. apply \in [pc : {"rest", "copy", "extract", "replace"}, source : File,
                  target : {"backup", "executable"}]
    BY <2>1 DEF UpdaterInit, NoApply
  <2> QED
    BY <2>2, <2>3, <2>4, <2>5, <2>6, <2>7, <2>8 DEF UpdaterTypeOK
<1>2. FilesSound /\ NotOlder /\ InstalledStaysGood
  BY UpdaterAssumption DEF UpdaterInit, FilesSound, NotOlder, InstalledStaysGood, Versions, Whole,
     NoFile, NoVersion, NotOffered, NoDownload, NoApply
<1> QED BY <1>1, <1>2 DEF UpdaterInv

LEMMA StartKeeps ==
    ASSUME UpdaterInv, StartProcess, faults' \in 0..MaxFaults
    PROVE  UpdaterInv'
<1>1. installed \in File /\ backup \in File /\ apply.pc \in {"rest", "copy", "extract", "replace"}
      /\ apply.target \in {"backup", "executable"}
  BY DEF UpdaterInv, UpdaterTypeOK
<1>2. UpdaterTypeOK'
  BY <1>1, UpdaterAssumption DEF UpdaterInv, UpdaterTypeOK, StartProcess, fileVars, File, NoFile, NoVersion,
     NotOffered, NoDownload, NoApply, Versions
<1>3. FilesSound'
  BY <1>1 DEF UpdaterInv, FilesSound, StartProcess, fileVars, NoApply
<1>4. NotOlder' /\ InstalledStaysGood'
  <2>1. ~release'.available /\ ready' = NoVersion /\ apply'.pc = "rest"
        /\ \A d \in Downloads : download'[d].pc = "rest"
    BY DEF StartProcess, NotOffered, NoApply, NoDownload
  <2>2. NotOlder'
    BY <2>1 DEF NotOlder
  <2>3. ~installed'.whole => cutShort'
    BY <1>1 DEF UpdaterInv, InstalledStaysGood, StartProcess, fileVars
  <2>4. ~(installed'.version < running')
    BY <1>1, UpdaterAssumption DEF UpdaterInv, FilesSound, StartProcess, fileVars, NoVersion, Versions
  <2> QED BY <2>2, <2>3, <2>4 DEF InstalledStaysGood
<1> QED BY <1>2, <1>3, <1>4 DEF UpdaterInv

LEMMA DownloadsKeep ==
    ASSUME UpdaterInv, NEW d \in Downloads,
           \/ BeginDownload(d) \/ CreateArchive(d) \/ EndOfBody(d)
           \/ DownloadFails(d) \/ PublishDownload(d)
    PROVE  UpdaterInv'
<1> USE UpdaterAssumption
<1> DEFINE DType == [pc : {"rest", "create", "copy", "publish"}, version : Versions \cup {NoVersion}]
           AType == [by : Downloads \cup {"none"}, whole : BOOLEAN]
<1>1. /\ download \in [Downloads -> DType] /\ archive \in [Versions -> AType]
      /\ download[d] \in DType
      /\ download[d].pc # "rest" => download[d].version \in Versions /\ running <= download[d].version
  BY DEF UpdaterInv, UpdaterTypeOK, NotOlder
<1>2. NoDownload \in DType /\ NoDownload.pc = "rest"
  BY DEF NoDownload, NoVersion, Versions
<1>3. UNCHANGED <<installed, backup, running, release, apply, restart, historyOfUpdate, requests>>
  BY DEF BeginDownload, CreateArchive, EndOfBody, DownloadFails, PublishDownload, fileVars, boundVars, Fault
<1>4. faults' \in 0..MaxFaults
  BY DEF UpdaterInv, UpdaterTypeOK, BeginDownload, CreateArchive, EndOfBody, DownloadFails,
     PublishDownload, boundVars, Fault
<1>5. archive' \in [Versions -> AType]
  <2>1. \A v \in Versions, by \in Downloads \cup {"none"}, w \in BOOLEAN :
          [archive EXCEPT ![v] = [by |-> by, whole |-> w]] \in [Versions -> AType]
    BY <1>1
  <2>2. \A v \in Versions, w \in BOOLEAN :
          [archive EXCEPT ![v].whole = w] \in [Versions -> AType]
    BY <1>1
  <2> HIDE DEF AType
  <2>3. CASE BeginDownload(d) \/ PublishDownload(d)
    BY <1>1, <2>3 DEF BeginDownload, PublishDownload, fileVars
  <2>4. CASE CreateArchive(d)
    BY <1>1, <2>1, <2>4 DEF CreateArchive
  <2>5. CASE EndOfBody(d)
    <3>1. (archive[download[d].version].whole \/ archive[download[d].version].by = d) \in BOOLEAN
      BY <1>1, <2>5 DEF EndOfBody, AType
    <3>2. download[d].version \in Versions
      BY <1>1, <2>5 DEF EndOfBody
    <3> QED BY <2>2, <2>5, <3>1, <3>2 DEF EndOfBody
  <2>6. CASE DownloadFails(d)
    BY <1>1, <2>1, <2>6 DEF DownloadFails
  <2> QED BY <2>3, <2>4, <2>5, <2>6
<1>6. /\ download' \in [Downloads -> DType]
      /\ \A e \in Downloads : download'[e].pc # "rest" =>
           download'[e].version \in Versions /\ running <= download'[e].version
  <2>1. CASE BeginDownload(d)
    <3>1. release.available /\ release.version \in Versions /\ running <= release.version
      BY <2>1 DEF BeginDownload, UpdaterInv, NotOlder
    <3>2. download' = [download EXCEPT ![d] = [pc |-> "create", version |-> release.version]]
      BY <2>1 DEF BeginDownload
    <3> QED BY <1>1, <3>1, <3>2 DEF UpdaterInv, NotOlder
  <2>2. CASE CreateArchive(d) \/ EndOfBody(d)
    <3>1. PICK q \in {"copy", "publish"} : download' = [download EXCEPT ![d].pc = q] /\ download[d].pc # "rest"
      BY <2>2 DEF CreateArchive, EndOfBody
    <3> QED BY <1>1, <3>1 DEF UpdaterInv, NotOlder
  <2>3. CASE DownloadFails(d) \/ PublishDownload(d)
    <3>1. download' = [download EXCEPT ![d] = NoDownload]
      BY <2>3 DEF DownloadFails, PublishDownload
    <3> QED BY <1>1, <1>2, <3>1 DEF UpdaterInv, NotOlder
  <2> QED BY <2>1, <2>2, <2>3
<1>7. /\ ready' \in Versions \cup {NoVersion}
      /\ ready' # NoVersion => running <= ready'
      /\ apply.pc # "rest" => ready' # NoVersion
  BY <1>1 DEF UpdaterInv, UpdaterTypeOK, NotOlder, BeginDownload, CreateArchive, EndOfBody,
     DownloadFails, PublishDownload, MutexFree
<1>8. UpdaterTypeOK'
  BY <1>3, <1>4, <1>5, <1>6, <1>7 DEF UpdaterInv, UpdaterTypeOK, historyOfUpdate
<1>9. FilesSound' /\ InstalledStaysGood'
  BY <1>3 DEF UpdaterInv, FilesSound, InstalledStaysGood, historyOfUpdate
<1>10. NotOlder'
  BY <1>3, <1>6, <1>7 DEF UpdaterInv, NotOlder, historyOfUpdate
<1> QED BY <1>8, <1>9, <1>10 DEF UpdaterInv

LEMMA UpdaterInvStep == UpdaterInv /\ [UpdaterNext]_updaterVars => UpdaterInv'
<1> SUFFICES ASSUME UpdaterInv, [UpdaterNext]_updaterVars PROVE UpdaterInv'
  OBVIOUS
<1> USE UpdaterAssumption
<1> DEFINE Apply == [pc : {"rest", "copy", "extract", "replace"}, source : File,
                     target : {"backup", "executable"}]
<1>1. /\ installed \in File /\ backup \in File /\ apply \in Apply
      /\ running \in Versions \cup {NoVersion} /\ ready \in Versions \cup {NoVersion}
      /\ rolledBack \in BOOLEAN /\ cutShort \in BOOLEAN
      /\ installed.version \in Versions
  BY DEF UpdaterInv, UpdaterTypeOK, FilesSound
<1>2. NoApply \in Apply /\ NoApply.pc = "rest"
  BY FileFields DEF NoApply
<1>3. /\ Fault => faults' \in 0..MaxFaults
      /\ Asked => requests' \in 0..MaxApplies
  BY DEF UpdaterInv, UpdaterTypeOK, Fault, Asked
<1>4. CASE UNCHANGED updaterVars
  BY <1>4 DEF updaterVars, UpdaterInv, UpdaterTypeOK, FilesSound, NotOlder, InstalledStaysGood
<1>5. CASE CheckForUpdates
  <2>1. PICK latest \in Versions \cup {NoVersion} :
          release' = IF latest > running THEN [available |-> TRUE, version |-> latest]
                                         ELSE [release EXCEPT !.available = FALSE]
    BY <1>5 DEF CheckForUpdates
  <2>2. UNCHANGED <<running, ready, download, apply, restart, installed, backup, archive, rolledBack,
                    cutShort, requests, faults>>
    BY <1>5 DEF CheckForUpdates, fileVars, historyOfUpdate, boundVars
  <2>3. UpdaterTypeOK'
    BY <2>1, <2>2 DEF UpdaterInv, UpdaterTypeOK
  <2>4. release'.available => release'.version \in Versions /\ running <= release'.version
    BY <1>1, <2>1 DEF UpdaterInv, UpdaterTypeOK, NoVersion, Versions
  <2>5. NotOlder'
    BY <2>2, <2>4 DEF UpdaterInv, NotOlder
  <2>6. FilesSound' /\ InstalledStaysGood'
    BY <2>2 DEF UpdaterInv, FilesSound, InstalledStaysGood
  <2> QED BY <2>3, <2>5, <2>6 DEF UpdaterInv
<1>6. ASSUME NEW d \in Downloads,
             \/ BeginDownload(d) \/ CreateArchive(d) \/ EndOfBody(d)
             \/ DownloadFails(d) \/ PublishDownload(d)
      PROVE  UpdaterInv'
  BY <1>6, DownloadsKeep
<1>7. CASE BeginApply
  <2>1. /\ backup' = Part(installed.version) /\ apply' = [pc |-> "copy", source |-> installed, target |-> "backup"]
        /\ UNCHANGED <<installed, archive, running, release, ready, download, restart, rolledBack,
                       cutShort, faults>>
        /\ ready # NoVersion /\ apply.pc = "rest" /\ requests' \in 0..MaxApplies
    BY <1>3, <1>7 DEF BeginApply, historyOfUpdate, MutexFree
  <2>2. backup' \in File /\ backup'.version = installed.version
    BY <1>1, <2>1, FileFields
  <2>3. UpdaterTypeOK'
    BY <1>1, <2>1, <2>2 DEF UpdaterInv, UpdaterTypeOK
  <2>4. FilesSound' /\ NotOlder' /\ InstalledStaysGood'
    BY <1>1, <2>1, <2>2 DEF UpdaterInv, UpdaterTypeOK, FilesSound, NotOlder, InstalledStaysGood, Versions,
       NoVersion, File
  <2> QED BY <2>3, <2>4 DEF UpdaterInv
<1>8. CASE EndBackup
  <2>1. /\ apply.pc = "copy" /\ apply' = [apply EXCEPT !.pc = "extract"]
        /\ UNCHANGED <<archive, running, release, ready, download, restart, rolledBack, cutShort, requests, faults>>
    BY <1>8 DEF EndBackup, historyOfUpdate, boundVars
  <2>2. apply' \in Apply /\ apply'.pc = "extract" /\ apply'.source = apply.source /\ apply.source \in File
        /\ apply'.target = apply.target
    BY <1>1, <2>1
  <2>3. \/ apply.target = "backup" /\ backup' = apply.source /\ installed' = installed
        \/ apply.target = "executable" /\ installed' = apply.source /\ backup' = backup
    BY <1>1, <1>8 DEF EndBackup
  <2>4. UpdaterTypeOK'
    BY <1>1, <2>1, <2>2, <2>3 DEF UpdaterInv, UpdaterTypeOK
  <2>5. apply.source.version \in Versions /\ (~apply.source.whole => cutShort)
        /\ (running <= apply.source.version \/ rolledBack)
    BY <2>1 DEF UpdaterInv, FilesSound, NotOlder
  <2>6. CASE apply.target = "backup"
    BY <1>1, <2>1, <2>2, <2>3, <2>4, <2>5, <2>6 DEF UpdaterInv, FilesSound, NotOlder, InstalledStaysGood
  <2>7. CASE apply.target = "executable"
    <3>1. backup = NoFile /\ installed' = apply.source
      BY <2>1, <2>3, <2>7 DEF UpdaterInv, FilesSound
    <3>2. FilesSound' /\ NotOlder'
      BY <1>1, <2>1, <2>2, <2>3, <2>5, <2>7, <3>1 DEF UpdaterInv, FilesSound, NotOlder
    <3>3. InstalledStaysGood'
      BY <1>1, <2>1, <2>2, <2>5, <3>1 DEF InstalledStaysGood, Versions, NoVersion
    <3> QED BY <2>4, <3>2, <3>3 DEF UpdaterInv
  <2> QED BY <1>1, <2>4, <2>6, <2>7 DEF UpdaterInv
<1>9. CASE Extract
  <2>1. /\ apply.pc = "extract" /\ ready \in Versions
        /\ UNCHANGED <<running, release, ready, download, restart, installed, backup, archive, rolledBack,
                       cutShort, requests, faults>>
    BY <1>1, <1>9 DEF Extract, fileVars, historyOfUpdate, boundVars, UpdaterInv, NotOlder
  <2>2. \/ apply' = NoApply
        \/ apply' = [apply EXCEPT !.pc = "replace", !.source = Whole(ready)]
    BY <1>9 DEF Extract
  <2>3. apply' \in Apply
    <3>1. Whole(ready) \in File
      BY <2>1, FileFields
    <3>2. \A f \in File : [apply EXCEPT !.pc = "replace", !.source = f] \in Apply
      BY <1>1
    <3> QED BY <1>2, <2>2, <3>1, <3>2
  <2>4. UpdaterTypeOK'
    BY <2>1, <2>3 DEF UpdaterInv, UpdaterTypeOK
  <2>5. \/ apply'.pc = "rest"
        \/ /\ apply'.pc = "replace" /\ apply'.source.version = ready /\ apply'.source.whole
           /\ running <= ready /\ ready # NoVersion
    BY <1>1, <1>2, <2>1, <2>2, FileFields DEF UpdaterInv, NotOlder
  <2>6. FilesSound' /\ NotOlder' /\ InstalledStaysGood'
    BY <2>1, <2>5 DEF UpdaterInv, FilesSound, NotOlder, InstalledStaysGood
  <2> QED BY <2>4, <2>6 DEF UpdaterInv
<1>10. CASE Replace
  <2>1. /\ apply.pc = "replace" /\ installed' = apply.source /\ apply' = NoApply /\ restart' = TRUE
        /\ UNCHANGED <<backup, archive, running, release, ready, download, rolledBack, cutShort, requests, faults>>
    BY <1>10 DEF Replace, historyOfUpdate, boundVars
  <2>2. installed' \in File /\ apply' \in Apply /\ apply'.pc = "rest"
    BY <1>1, <1>2, <2>1
  <2>3. UpdaterTypeOK'
    BY <2>1, <2>2 DEF UpdaterInv, UpdaterTypeOK
  <2>4. FilesSound' /\ NotOlder' /\ InstalledStaysGood'
    BY <1>1, <2>1, <2>2 DEF UpdaterInv, FilesSound, NotOlder, InstalledStaysGood, Versions, NoVersion
  <2> QED BY <2>3, <2>4 DEF UpdaterInv
<1>11. CASE ReplaceFails
  <2>1. /\ apply.pc = "replace" /\ apply' = NoApply /\ faults' \in 0..MaxFaults
        /\ UNCHANGED <<archive, running, release, ready, download, restart, rolledBack, cutShort, requests>>
    BY <1>3, <1>11 DEF ReplaceFails, historyOfUpdate
  <2>2. \/ installed' = installed /\ backup' = backup
        \/ backup # NoFile /\ installed' = backup /\ backup' = NoFile
    BY <1>11 DEF ReplaceFails
  <2>3. installed' \in File /\ backup' \in File /\ apply' \in Apply /\ apply'.pc = "rest"
    BY <1>1, <1>2, <2>1, <2>2, FileFields
  <2>4. UpdaterTypeOK'
    BY <2>1, <2>3 DEF UpdaterInv, UpdaterTypeOK
  <2>5. FilesSound' /\ NotOlder' /\ InstalledStaysGood'
    BY <1>1, <2>1, <2>2, <2>3 DEF UpdaterInv, FilesSound, NotOlder, InstalledStaysGood, Versions, NoVersion
  <2> QED BY <2>4, <2>5 DEF UpdaterInv
<1>12. CASE Rollback
  <2>1. /\ backup # NoFile /\ installed' = backup /\ backup' = NoFile /\ restart' = TRUE /\ rolledBack' = TRUE
        /\ requests' \in 0..MaxApplies
        /\ UNCHANGED <<archive, running, release, ready, download, cutShort, faults>>
    BY <1>3, <1>12 DEF Rollback
  <2>2. apply' = IF apply.pc = "copy" THEN [apply EXCEPT !.target = "executable"] ELSE apply
    BY <1>12 DEF Rollback
  <2>3. /\ apply' \in Apply /\ apply'.pc = apply.pc /\ apply'.source = apply.source
        /\ apply.pc = "copy" => apply'.target = "executable"
    BY <1>1, <2>2
  <2>4. UpdaterTypeOK'
    BY <1>1, <2>1, <2>3, FileFields DEF UpdaterInv, UpdaterTypeOK
  <2>5. FilesSound' /\ NotOlder' /\ InstalledStaysGood'
    BY <1>1, <2>1, <2>3 DEF UpdaterInv, FilesSound, NotOlder, InstalledStaysGood
  <2> QED BY <2>4, <2>5 DEF UpdaterInv
<1>13. CASE RestartService \/ UpdaterCrash
  <2>1. StartProcess /\ faults' \in 0..MaxFaults
    BY <1>3, <1>13 DEF RestartService, UpdaterCrash, UpdaterInv, UpdaterTypeOK
  <2> QED BY <2>1, StartKeeps
<1> QED
  BY <1>4, <1>5, <1>6, <1>7, <1>8, <1>9, <1>10, <1>11, <1>12, <1>13 DEF UpdaterNext

(***************************************************************************)
(* The executable that is installed runs and is not older than the         *)
(* process, for any number of downloads, versions, applies and failures,   *)
(* but for the two cases that the property names: the copy that            *)
(* rollbackUpdate makes of a backup, and what a crash left of one.         *)
(***************************************************************************)
THEOREM UpdateAlwaysGood == UpdaterSpec => []InstalledStaysGood
<1>1. UpdaterInv => InstalledStaysGood
  BY DEF UpdaterInv
<1> QED
  BY <1>1, UpdaterInvInit, UpdaterInvStep, PTL DEF UpdaterSpec

-----------------------------------------------------------------------------
(* Warmup *)

\* Where a row stands now, in a schedule that began at `start'.
OnPace(w, start, now) ==
    /\ w.last <= now
    /\ w.last # NoTime => start # NoTime
    /\ w.day > 0 =>
         /\ w.last # NoTime
         /\ (w.day - 1) * Day <= w.last - start

WarmupInv ==
    /\ WarmupTypeOK
    /\ began <= ticks /\ NoTime <= began
    /\ OnPace(sender, began, ticks) /\ OnPace(file, began, ticks)
    /\ \A a \in Actors : actor[a] # Rest => OnPace(actor[a].row, began, ticks)
    /\ WarmupRunsItsCourse
    /\ finished # NoTime => began # NoTime

LEMMA DayLater ==
    ASSUME NEW n \in Nat, NEW last \in Int, NEW start \in Int, NEW now \in Int,
           (n - 1) * Day <= last - start, Day <= now - last
    PROVE  n * Day <= now - start
<1>1. Day \in Nat
  BY WarmupAssumption
<1>2. (n - 1) * Day = n * Day - Day /\ n * Day \in Nat
  BY <1>1
<1> QED BY <1>1, <1>2

LEMMA Longer ==
    ASSUME NEW m \in Nat, NEW n \in Nat, m <= n
    PROVE  m * Day <= n * Day
<1>1. Day \in Nat
  BY WarmupAssumption
<1>2. n * Day = m * Day + (n - m) * Day /\ (n - m) * Day \in Nat /\ m * Day \in Nat
  BY <1>1
<1> QED BY <1>2

LEMMA Rows ==
    /\ \A w \in Row : w.enabled \in BOOLEAN /\ w.plan \in Plans /\ w.day \in Nat /\ w.last \in Int
    /\ \A w \in Row, e \in BOOLEAN : [w EXCEPT !.enabled = e] \in Row
    /\ \A w \in Row, p \in Plans, e \in BOOLEAN : [w EXCEPT !.enabled = e, !.plan = p] \in Row
    /\ \A w \in Row, d \in Nat, l \in Int : [w EXCEPT !.day = d, !.last = l] \in Row
    /\ \A w \in Row, l \in Int : [w EXCEPT !.last = l] \in Row
    /\ \A e \in BOOLEAN, p \in Plans, d \in Nat, l \in Int :
         [enabled |-> e, plan |-> p, day |-> d, last |-> l] \in Row
  BY DEF Row

LEMMA PaceLasts ==
    ASSUME NEW w \in Row, NEW start \in Int, NEW now \in Int, NEW begin \in Int, NEW then \in Int,
           OnPace(w, start, now), begin = start \/ start = NoTime, now <= then
    PROVE  OnPace(w, begin, then)
<1>1. w.last \in Int /\ w.day \in Nat
  BY Rows
<1>2. CASE begin = start
  BY <1>1, <1>2 DEF OnPace
<1>3. CASE start = NoTime
  BY <1>1, <1>3 DEF OnPace
<1> QED BY <1>2, <1>3

LEMMA WarmupInvInit == WarmupInit => WarmupInv
<1> SUFFICES ASSUME WarmupInit PROVE WarmupInv
  OBVIOUS
<1>1. sender \in Row /\ sender.day = 0 /\ sender.last = NoTime
  BY DEF WarmupInit, Row, NoTime
<1>2. WarmupTypeOK
  BY <1>1, WarmupAssumption DEF WarmupInit, WarmupTypeOK, NoTime, Rest
<1>3. OnPace(sender, began, ticks) /\ OnPace(file, began, ticks)
  BY <1>1 DEF WarmupInit, OnPace, NoTime
<1>4. \A a \in Actors : actor[a] = Rest
  BY DEF WarmupInit
<1>5. began <= ticks /\ NoTime <= began /\ WarmupRunsItsCourse /\ finished = NoTime
  BY DEF WarmupInit, WarmupRunsItsCourse, NoTime
<1> QED
  BY <1>2, <1>3, <1>4, <1>5 DEF WarmupInv

\* A step takes one row on, and writes it nowhere but to the sender's row, to the
\* configuration and to the copy of the one who takes the step.
LEMMA RowsKeep ==
    ASSUME WarmupInv, NEW a \in Actors, NEW w \in Row,
           UNCHANGED ticks, began' \in Int, NoTime <= began', began' <= ticks',
           began' = began \/ began = NoTime,
           OnPace(w, began', ticks'),
           \/ actor' = [actor EXCEPT ![a] = Rest]
           \/ \E pc \in {"decide", "snapshot", "write", "warmup", "edit"} : Steps(a, pc, w),
           sender' \in {sender, w}, file' \in {file, w},
           finished' \in Int, edits' \in 0..MaxEdits, WarmupRunsItsCourse',
           finished' # NoTime => began' # NoTime
    PROVE  WarmupInv'
<1> DEFINE Held == [pc : {"decide", "snapshot", "write", "warmup", "edit"}, row : Row]
<1>1. /\ ticks \in Int /\ began \in Int /\ sender \in Row /\ file \in Row
      /\ actor \in [Actors -> {Rest} \cup Held]
  BY WarmupAssumption DEF WarmupInv, WarmupTypeOK
<1>2. \A v \in Row : OnPace(v, began, ticks) => OnPace(v, began', ticks')
  BY <1>1, PaceLasts
<1>3. OnPace(sender', began', ticks') /\ OnPace(file', began', ticks')
  BY <1>1, <1>2 DEF WarmupInv
<1>4. \A b \in Actors : actor[b] # Rest => actor[b].row \in Row
  BY <1>1
<1>5. \A pc \in {"decide", "snapshot", "write", "warmup", "edit"} :
        [pc |-> pc, row |-> w] \in Held /\ [pc |-> pc, row |-> w].row = w
  OBVIOUS
<1>6. actor' \in [Actors -> {Rest} \cup Held]
  BY <1>1, <1>5 DEF Steps
<1>7. ASSUME NEW b \in Actors, actor'[b] # Rest
      PROVE  OnPace(actor'[b].row, began', ticks')
  <2>1. CASE b = a
    <3>1. actor'[b].row = w
      BY <1>1, <1>5, <1>7, <2>1 DEF Steps
    <3> QED BY <3>1
  <2>2. CASE b # a
    <3>1. actor'[b] = actor[b]
      BY <1>1, <2>2 DEF Steps
    <3> QED BY <1>2, <1>4, <1>7, <3>1 DEF WarmupInv
  <2> QED BY <2>1, <2>2
<1>8. WarmupTypeOK'
  BY <1>1, <1>6 DEF WarmupInv, WarmupTypeOK
<1> QED
  BY <1>3, <1>7, <1>8 DEF WarmupInv

LEMMA WarmupInvStep == WarmupInv /\ [WarmupNext]_warmupVars => WarmupInv'
<1> SUFFICES ASSUME WarmupInv, [WarmupNext]_warmupVars PROVE WarmupInv'
  OBVIOUS
<1>1. /\ ticks \in Nat /\ began \in Int /\ finished \in Int /\ sender \in Row /\ file \in Row
      /\ edits \in 0..MaxEdits /\ MaxTicks \in Nat /\ MaxEdits \in Nat
      /\ Day \in Nat \ {0} /\ \A p \in Plans : PlanLength[p] \in Nat \ {0}
      /\ began <= ticks /\ NoTime <= began
      /\ OnPace(sender, began, ticks) /\ OnPace(file, began, ticks) /\ WarmupRunsItsCourse
      /\ finished # NoTime => began # NoTime
  BY WarmupAssumption DEF WarmupInv, WarmupTypeOK
<1>2. \A a \in Actors : actor[a] # Rest =>
        actor[a].row \in Row /\ OnPace(actor[a].row, began, ticks)
  BY DEF WarmupInv, WarmupTypeOK
<1>3. ASSUME NEW a \in Actors, actor[a].pc # "rest"
      PROVE  /\ actor[a].row \in Row /\ OnPace(actor[a].row, began, ticks)
             /\ actor[a].row.day \in Nat /\ actor[a].row.last \in Int /\ actor[a].row.plan \in Plans
  <2>1. actor[a] # Rest
    BY <1>3 DEF Rest
  <2> QED BY <1>2, <2>1, Rows
<1>4. EarlierOf(ticks) \in Int /\ NoTime <= EarlierOf(ticks) /\ EarlierOf(ticks) <= ticks
      /\ EarlierOf(ticks) # NoTime /\ (EarlierOf(ticks) = began \/ began = NoTime)
  BY <1>1 DEF EarlierOf, NoTime
<1>5. ASSUME finished' = finished, began' = began \/ began = NoTime
      PROVE  WarmupRunsItsCourse' /\ (finished' # NoTime => began' # NoTime)
  BY <1>1, <1>5 DEF WarmupRunsItsCourse
<1>6. CASE UNCHANGED warmupVars
  BY <1>6 DEF warmupVars, WarmupInv, WarmupTypeOK, WarmupRunsItsCourse
<1>7. CASE ClockTick
  <2>1. ticks' = ticks + 1 /\ ticks' \in 0..MaxTicks
        /\ UNCHANGED <<sender, actor, file, began, finished, edits>>
    BY <1>1, <1>7 DEF ClockTick
  <2>2. \A v \in Row : OnPace(v, began, ticks) => OnPace(v, began', ticks')
    BY <1>1, <2>1, PaceLasts
  <2>3. WarmupTypeOK'
    BY <2>1 DEF WarmupInv, WarmupTypeOK
  <2> QED BY <1>1, <1>2, <1>5, <2>1, <2>2, <2>3 DEF WarmupInv
<1>8. ASSUME NEW p \in Passes, Pass(p)
      PROVE  WarmupInv'
  <2>0. p \in Actors
    BY DEF Actors
  <2>1. CASE ReadSenders(p)
    BY <1>1, <1>5, <2>0, <2>1, RowsKeep DEF ReadSenders
  <2>2. CASE NothingDue(p)
    BY <1>1, <1>5, <2>0, <2>2, RowsKeep DEF NothingDue
  <2>3. CASE Stamp(p)
    <3> DEFINE r == actor[p].row
               w == [r EXCEPT !.last = ticks]
    <3>1. r \in Row /\ OnPace(r, began, ticks) /\ r.day \in Nat /\ r.last = NoTime
      BY <1>3, <2>0, <2>3 DEF Stamp, Has
    <3>2. w \in Row /\ w.last = ticks /\ w.day = r.day
      <4>1. ticks \in Int
        BY <1>1
      <4>2. w \in Row
        <5> HIDE DEF r
        <5> QED BY <3>1, <4>1, Rows
      <4>3. w.last = ticks /\ w.day = r.day
        <5> HIDE DEF r
        <5> QED BY <3>1 DEF Row
      <4> QED BY <4>2, <4>3
    <3>3. r.day = 0
      BY <3>1 DEF OnPace
    <3>4. /\ sender' = w /\ actor' = [actor EXCEPT ![p] = Rest] /\ began' = EarlierOf(ticks)
          /\ UNCHANGED <<ticks, file, finished, edits>>
      BY <2>3 DEF Stamp
    <3>5. OnPace(w, began', ticks')
      BY <1>1, <1>4, <3>2, <3>3, <3>4 DEF OnPace
    <3> HIDE DEF w
    <3> QED BY <1>1, <1>4, <1>5, <2>0, <3>2, <3>4, <3>5, RowsKeep
  <2>4. CASE Finish(p)
    <3> DEFINE r == actor[p].row
               w == [r EXCEPT !.enabled = FALSE]
    <3>1. /\ r \in Row /\ OnPace(r, began, ticks) /\ r.day \in Nat /\ r.last \in Int /\ r.plan \in Plans
          /\ r.last # NoTime /\ Day <= ticks - r.last /\ PlanLength[r.plan] <= r.day
      BY <1>3, <2>0, <2>4, <1>1 DEF Finish, StepDue, Has
    <3>2. w \in Row /\ w.last = r.last /\ w.day = r.day
      BY <3>1, Rows DEF Row
    <3>3. /\ sender' = w /\ Steps(p, "snapshot", w) /\ finished' = ticks
          /\ UNCHANGED <<ticks, file, began, edits>>
      BY <2>4 DEF Finish
    <3>4. OnPace(w, began', ticks')
      BY <1>1, <3>1, <3>2, <3>3 DEF OnPace
    <3>5. r.day * Day <= ticks - began
      <4>1. (r.day - 1) * Day <= r.last - began
        BY <1>1, <3>1 DEF OnPace
      <4> HIDE DEF r
      <4> QED BY <1>1, <3>1, <4>1, DayLater
    <3>6. PlanLength[r.plan] * Day <= r.day * Day
      BY <1>1, <3>1, Longer
    <3>7. WarmupRunsItsCourse' /\ (finished' # NoTime => began' # NoTime)
      <4>1. PlanLength[r.plan] * Day \in Int /\ r.day * Day \in Int /\ began # NoTime
        BY <1>1, <3>1 DEF OnPace
      <4>2. finished' - began' >= PlanLength[r.plan] * Day
        <5> HIDE DEF r
        <5> QED BY <1>1, <3>3, <3>5, <3>6, <4>1
      <4> QED BY <3>1, <3>3, <4>1, <4>2 DEF WarmupRunsItsCourse
    <3> HIDE DEF w
    <3> QED BY <1>1, <2>0, <3>2, <3>3, <3>4, <3>7, RowsKeep
  <2>5. CASE Advance(p)
    <3> DEFINE r == actor[p].row
    <3>1. /\ r \in Row /\ OnPace(r, began, ticks) /\ r.day \in Nat /\ r.last \in Int
          /\ r.last # NoTime /\ Day <= ticks - r.last
      BY <1>3, <2>0, <2>5, <1>1 DEF Advance, StepDue, Has
    <3>2. PICK d \in {r.day, r.day + 1} : sender' = [r EXCEPT !.day = d, !.last = ticks]
      BY <2>5 DEF Advance
    <3> DEFINE w == [r EXCEPT !.day = d, !.last = ticks]
    <3>3. d \in Nat /\ w \in Row /\ w.last = ticks /\ w.day = d
      <4>1. d \in Nat /\ ticks \in Int
        BY <1>1, <3>1
      <4>2. w \in Row
        <5> HIDE DEF r
        <5> QED BY <3>1, <4>1, Rows
      <4>3. w.last = ticks /\ w.day = d
        <5> HIDE DEF r
        <5> QED BY <3>1 DEF Row
      <4> QED BY <4>1, <4>2, <4>3
    <3>4. /\ sender' = w /\ Steps(p, "snapshot", w)
          /\ UNCHANGED <<ticks, file, began, finished, edits>>
      BY <2>5, <3>2 DEF Advance
    <3>5. d > 0 => (d - 1) * Day <= ticks - began
      <4>1. r.day > 0 => (r.day - 1) * Day <= r.last - began
        BY <3>1 DEF OnPace
      <4>2. r.day > 0 => r.day * Day <= ticks - began
        <5> HIDE DEF r
        <5> QED BY <1>1, <3>1, <4>1, DayLater
      <4>3. (r.day - 1) * Day <= r.day * Day /\ (r.day - 1) * Day \in Int /\ r.day * Day \in Int
        <5> HIDE DEF r
        <5> QED BY <1>1, <3>1
      <4>4. CASE d = r.day
        <5> HIDE DEF r
        <5> QED BY <1>1, <3>1, <4>2, <4>3, <4>4
      <4>5. CASE d = r.day + 1 /\ r.day > 0
        <5>1. d - 1 = r.day
          BY <3>1, <4>5
        <5> HIDE DEF r
        <5> QED BY <4>2, <4>5, <5>1
      <4>6. CASE d = r.day + 1 /\ r.day = 0
        <5>1. (d - 1) * Day = 0
          BY <1>1, <4>6
        <5> QED BY <1>1, <5>1
      <4> QED BY <3>1, <4>4, <4>5, <4>6
    <3>6. OnPace(w, began', ticks')
      <4>1. began # NoTime /\ ticks # NoTime
        BY <1>1, <3>1 DEF OnPace, NoTime
      <4> HIDE DEF w
      <4> QED BY <1>1, <3>3, <3>4, <3>5, <4>1 DEF OnPace
    <3> HIDE DEF w
    <3> QED BY <1>1, <1>5, <2>0, <3>3, <3>4, <3>6, RowsKeep
  <2> QED BY <1>8, <2>1, <2>2, <2>3, <2>4, <2>5 DEF Pass
<1>9. ASSUME NEW a \in Requesters, Edit(a)
      PROVE  WarmupInv'
  <2>0. a \in Actors
    BY DEF Actors
  <2>1. CASE BeginEdit(a)
    <3>1. edits' \in 0..MaxEdits
      BY <1>1, <2>1 DEF BeginEdit
    <3> QED BY <1>1, <1>5, <2>0, <2>1, <3>1, RowsKeep DEF BeginEdit
  <2>2. CASE UpdateWarmup(a)
    <3> DEFINE r == actor[a].row
    <3>1. r \in Row /\ OnPace(r, began, ticks) /\ r.day \in Nat /\ r.last \in Int
      BY <1>3, <2>0, <2>2 DEF UpdateWarmup, Has
    <3>2. Steps(a, "snapshot", sender') /\ UNCHANGED <<ticks, file, finished, edits>>
      BY <2>2 DEF UpdateWarmup
    <3>3. CASE sender' = [r EXCEPT !.enabled = FALSE] /\ UNCHANGED began
      <4>1. sender' \in Row /\ sender'.last = r.last /\ sender'.day = r.day
        BY <3>1, <3>3, Rows DEF Row
      <4>2. OnPace(sender', began', ticks')
        BY <3>1, <3>2, <3>3, <4>1 DEF OnPace
      <4> QED BY <1>1, <1>5, <2>0, <3>2, <3>3, <4>1, <4>2, RowsKeep
    <3>4. ASSUME NEW plan \in Plans, sender' = [r EXCEPT !.enabled = TRUE, !.plan = plan], UNCHANGED began
          PROVE  WarmupInv'
      <4>1. sender' \in Row /\ sender'.last = r.last /\ sender'.day = r.day
        BY <3>1, <3>4, Rows DEF Row
      <4>2. OnPace(sender', began', ticks')
        BY <3>1, <3>2, <3>4, <4>1 DEF OnPace
      <4> QED BY <1>1, <1>5, <2>0, <3>2, <3>4, <4>1, <4>2, RowsKeep
    <3>5. ASSUME NEW plan \in Plans, began' = EarlierOf(ticks),
                 sender' = [enabled |-> TRUE, plan |-> plan, day |-> 1, last |-> ticks]
          PROVE  WarmupInv'
      <4>0. ticks \in Int /\ 1 \in Nat
        BY <1>1
      <4>1. sender' \in Row /\ sender'.last = ticks /\ sender'.day = 1
        <5>1. sender' \in Row
          BY <3>5, <4>0, Rows
        <5> QED BY <3>5, <5>1
      <4>2. OnPace(sender', began', ticks')
        BY <1>1, <1>4, <3>2, <3>5, <4>1 DEF OnPace, NoTime
      <4> QED BY <1>1, <1>4, <1>5, <2>0, <3>2, <3>5, <4>1, <4>2, RowsKeep
    <3> QED BY <2>2, <3>3, <3>4, <3>5 DEF UpdateWarmup
  <2>3. CASE UpdateSender(a)
    <3>1. actor[a].row \in Row /\ OnPace(actor[a].row, began, ticks)
      BY <1>3, <2>0, <2>3 DEF UpdateSender, Has
    <3> QED BY <1>1, <1>5, <2>0, <2>3, <3>1, RowsKeep DEF UpdateSender
  <2> QED BY <1>9, <2>1, <2>2, <2>3 DEF Edit
<1>10. ASSUME NEW a \in Actors, ApplyKumoConfig(a)
       PROVE  WarmupInv'
  <2>1. CASE LoadSnapshot(a)
    BY <1>1, <1>5, <2>1, RowsKeep DEF LoadSnapshot
  <2>2. CASE WriteFiles(a)
    <3>1. actor[a].row \in Row /\ OnPace(actor[a].row, began, ticks)
      BY <1>3, <2>2 DEF WriteFiles, Has
    <3> QED BY <1>1, <1>5, <2>2, <3>1, RowsKeep DEF WriteFiles
  <2> QED BY <1>10, <2>1, <2>2 DEF ApplyKumoConfig
<1> QED
  BY <1>6, <1>7, <1>8, <1>9, <1>10 DEF WarmupNext

(***************************************************************************)
(* No sender is sped up before its days have passed, for any plan, number  *)
(* of senders' editors and order of the passes of ProcessDailyWarmup, the  *)
(* saves of old copies and the writings of the MTA's configuration.        *)
(***************************************************************************)
THEOREM WarmupAlwaysSound == WarmupSpec => []WarmupSound
<1>1. WarmupInv => WarmupSound
  BY Rows DEF WarmupInv, WarmupTypeOK, WarmupSound, WarmupPace, Copies, OnPace
<1> QED
  BY <1>1, WarmupInvInit, WarmupInvStep, PTL DEF WarmupSpec

-----------------------------------------------------------------------------
(* Audience *)

AnyContact == Addresses \X Nat

AnyMember == [id : Nat, list : Lists, contact : AnyContact, status : {"active", "unsubscribed"}]

\* What a request carries: from the moment it is busy it has a list, and from the
\* moment it has found or made a contact it has that one.
AnyHandler ==
    {h \in [pc : {"ready", "find", "create", "look", "revive", "insert", "uncount", "drop"},
            op : {"none", "add", "import", "bot", "copy", "remove", "delete"},
            list : Lists \cup {"none"}, todo : SUBSET AnyContact,
            contact : AnyContact \cup {Nobody}, row : Nat, done : Nat] :
       /\ h.pc # "ready" => h.list \in Lists
       /\ h.pc \in {"create", "look", "revive", "insert"} => h.contact \in AnyContact}

HandlersSound ==
    /\ handler \in [ListRequests -> AnyHandler]
    /\ known \in [Addresses -> Nat] /\ memberId \in Nat

\* A row is of one list and one contact for ever: no key is given twice.
RowsUnique ==
    /\ members \subseteq AnyMember
    /\ \A m \in members : m.id <= memberId
    /\ \A m, n \in members : m.id = n.id => m = n

\* The row that a request has looked up is still that one, if it is there.
ReviveSound(h) ==
    /\ h.op = "add" /\ h.row <= memberId
    /\ \A m \in members : m.id = h.row => m.list = h.list /\ m.contact = h.contact

\* Who has opted out of a list has a row there, so that no import inserts another.
InsertSound(h) == h.op \in {"add", "bot"} \/ <<h.list, h.contact>> \notin optedOut

OptOutKept ==
    /\ optedOut \subseteq Lists \X Contacts
    /\ \A p \in optedOut : On(p[1], p[2]) # {}
    /\ \A q \in ListRequests : Does(q, "revive") => ReviveSound(handler[q])
    /\ \A p, q \in ListRequests :
         Does(p, "revive") /\ Does(q, "revive") /\ handler[p].row = handler[q].row =>
           handler[p].list = handler[q].list /\ handler[p].contact = handler[q].contact
    /\ \A q \in ListRequests : Does(q, "insert") => InsertSound(handler[q])

AudienceInv == HandlersSound /\ RowsUnique /\ OptOutKept /\ OptOutHolds

LEMMA LeastNumber ==
    ASSUME NEW S \in SUBSET Nat, S # {}
    PROVE  \E i \in S : \A j \in S : i <= j
<1>1. \E i \in S : \A j \in S : ~(<<j, i>> \in OpToRel(<, Nat))
  BY NatLessThanWellFounded, WFMin
<1>2. \E i \in S : \A j \in S : ~(j < i)
  BY <1>1 DEF OpToRel
<1> QED
  BY <1>2

LEMMA FirstOfRows ==
    ASSUME RowsUnique, NEW rows \in SUBSET members, rows # {}
    PROVE  FirstOf(rows) \in rows
<1>1. {m.id : m \in rows} \in SUBSET Nat /\ {m.id : m \in rows} # {}
  BY DEF RowsUnique, AnyMember
<1>2. \E m \in rows : \A n \in rows : m.id <= n.id
  <2> DEFINE ids == {m.id : m \in rows}
  <2>1. PICK i \in ids : \A j \in ids : i <= j
    <3> HIDE DEF ids
    <3> QED BY <1>1, LeastNumber DEF ids
  <2>2. PICK m \in rows : i = m.id
    OBVIOUS
  <2> QED BY <2>1, <2>2
<1> QED BY <1>2 DEF FirstOf

LEMMA AudienceInvInit == AudienceInit => AudienceInv
<1> SUFFICES ASSUME AudienceInit PROVE AudienceInv
  OBVIOUS
<1>1. Ready \in AnyHandler /\ Ready.pc = "ready"
  BY DEF Ready, AnyHandler, Nobody
<1>2. HandlersSound
  BY <1>1 DEF AudienceInit, HandlersSound
<1>3. RowsUnique
  BY DEF AudienceInit, RowsUnique
<1>4. OptOutKept /\ OptOutHolds
  BY <1>1 DEF AudienceInit, OptOutKept, OptOutHolds, Does
<1> QED BY <1>2, <1>3, <1>4 DEF AudienceInv

\* A request goes on and leaves the rows as they are.
LEMMA MoveKeeps ==
    ASSUME AudienceInv, UNCHANGED <<members, optedOut, memberId>>,
           known' \in [Addresses -> Nat],
           NEW q \in ListRequests, NEW h \in AnyHandler, Moves(q, h),
           h.pc = "revive" => ReviveSound(h) /\ \E m \in members : m.id = h.row,
           h.pc = "insert" => InsertSound(h)
    PROVE  AudienceInv'
<1>1. handler \in [ListRequests -> AnyHandler] /\ handler' = [handler EXCEPT ![q] = h]
  BY DEF AudienceInv, HandlersSound, Moves
<1>2. HandlersSound'
  BY <1>1 DEF AudienceInv, HandlersSound
<1>3. RowsUnique' /\ OptOutHolds'
  BY DEF AudienceInv, RowsUnique, OptOutHolds, On, Of
<1>4. \A p \in ListRequests : h.pc = "revive" /\ Does(p, "revive") /\ handler[p].row = h.row =>
        handler[p].list = h.list /\ handler[p].contact = h.contact
  BY DEF AudienceInv, OptOutKept, ReviveSound
<1>5. OptOutKept'
  BY <1>1, <1>4 DEF AudienceInv, OptOutKept, On, Of, Does, ReviveSound, InsertSound
<1> QED BY <1>2, <1>3, <1>5 DEF AudienceInv

\* The same when rows go, and opt-outs with them, but those that still have their rows.
LEMMA RemovalKeeps ==
    ASSUME AudienceInv, UNCHANGED <<memberId, known>>, members' \subseteq members,
           optedOut' \subseteq optedOut,
           \A p \in optedOut' : On(p[1], p[2]) \subseteq members',
           NEW q \in ListRequests, NEW h \in AnyHandler, Moves(q, h),
           h.pc \notin {"revive", "insert"}
    PROVE  AudienceInv'
<1>1. handler \in [ListRequests -> AnyHandler] /\ handler' = [handler EXCEPT ![q] = h]
  BY DEF AudienceInv, HandlersSound, Moves
<1>2. HandlersSound'
  BY <1>1 DEF AudienceInv, HandlersSound
<1>3. RowsUnique' /\ OptOutHolds'
  BY DEF AudienceInv, RowsUnique, OptOutHolds, On, Of
<1>4. OptOutKept'
  <2>1. \A p \in optedOut' : On(p[1], p[2])' = On(p[1], p[2])
    BY DEF On, Of
  <2> QED BY <1>1, <2>1 DEF AudienceInv, OptOutKept, Does, ReviveSound, InsertSound
<1> QED BY <1>2, <1>3, <1>4 DEF AudienceInv

\* A row becomes active, and its contact has not opted out any more.
LEMMA ActiveRowKeeps ==
    ASSUME AudienceInv, known' = known, NEW q \in ListRequests, NEW h \in AnyHandler, Moves(q, h),
           h.pc \notin {"revive", "insert"},
           NEW id \in Nat, id <= memberId', memberId' \in Nat, memberId <= memberId',
           NEW l \in Lists, NEW c \in AnyContact,
           \A m \in members : m.id = id => m.list = l /\ m.contact = c,
           members' = {m \in members : m.id # id}
                        \cup {[id |-> id, list |-> l, contact |-> c, status |-> "active"]},
           optedOut' \subseteq optedOut, <<l, c>> \notin optedOut',
           \A p \in ListRequests : Does(p, "revive") /\ handler[p].row = id =>
              handler[p].list = l /\ handler[p].contact = c
    PROVE  AudienceInv'
<1> DEFINE new == [id |-> id, list |-> l, contact |-> c, status |-> "active"]
<1>1. handler \in [ListRequests -> AnyHandler] /\ handler' = [handler EXCEPT ![q] = h]
  BY DEF AudienceInv, HandlersSound, Moves
<1>2. HandlersSound'
  BY <1>1 DEF AudienceInv, HandlersSound
<1>3. new \in AnyMember /\ new.id = id /\ new.list = l /\ new.contact = c
  BY DEF AnyMember
<1>4. \A m \in members' : m = new \/ (m \in members /\ m.id # id)
  BY <1>3
<1> HIDE DEF new
<1>5. RowsUnique'
  <2>1. \A m \in members : m.id \in Nat /\ m.id <= memberId /\ memberId \in Nat
    BY DEF AudienceInv, RowsUnique, HandlersSound, AnyMember
  <2>2. members' \subseteq AnyMember
    BY <1>3, <1>4 DEF AudienceInv, RowsUnique
  <2>3. \A m \in members' : m.id <= memberId'
    BY <1>3, <1>4, <2>1
  <2>4. \A m, n \in members' : m.id = n.id => m = n
    BY <1>3, <1>4 DEF AudienceInv, RowsUnique
  <2> QED BY <2>2, <2>3, <2>4 DEF RowsUnique
<1>6. \A p \in optedOut' : p = <<p[1], p[2]>> /\ On(p[1], p[2])' = On(p[1], p[2])
  <2> SUFFICES ASSUME NEW p \in optedOut' PROVE p = <<p[1], p[2]>> /\ On(p[1], p[2])' = On(p[1], p[2])
    OBVIOUS
  <2>1. p = <<p[1], p[2]>>
    BY DEF AudienceInv, OptOutKept
  <2>2. ~(p[1] = l /\ p[2] = c)
    BY <2>1
  <2>3. \A m \in members : m.list = p[1] /\ m.contact = p[2] => m.id # id
    BY <2>2
  <2>4. \A m : m \in On(p[1], p[2])' <=> m \in On(p[1], p[2])
    BY <1>3, <1>4, <2>2, <2>3 DEF On, Of, new
  <2> QED BY <2>1, <2>4 DEF On, Of
<1>7. OptOutHolds'
  BY <1>6 DEF AudienceInv, OptOutHolds
<1>8. OptOutKept'
  <2>1. ASSUME NEW p \in ListRequests, Does(p, "revive")'
        PROVE  ReviveSound(handler[p])'
    <3>1. handler'[p] = handler[p] /\ Does(p, "revive") /\ handler[p].row \in Nat
      BY <1>1, <2>1 DEF Does, AnyHandler
    <3>2. ReviveSound(handler[p])
      BY <3>1 DEF AudienceInv, OptOutKept
    <3>3. memberId \in Nat /\ handler[p].row <= memberId'
      BY <3>1, <3>2 DEF ReviveSound, AudienceInv, HandlersSound
    <3>4. \A m \in members' : m.id = handler[p].row =>
            m.list = handler[p].list /\ m.contact = handler[p].contact
      BY <1>3, <1>4, <3>1, <3>2 DEF ReviveSound
    <3> QED BY <3>1, <3>2, <3>3, <3>4 DEF ReviveSound
  <2>2. \A p \in ListRequests : Does(p, "insert")' => InsertSound(handler[p])'
    BY <1>1 DEF AudienceInv, OptOutKept, Does, InsertSound
  <2>3. \A p, r \in ListRequests :
          Does(p, "revive")' /\ Does(r, "revive")' /\ handler'[p].row = handler'[r].row =>
            handler'[p].list = handler'[r].list /\ handler'[p].contact = handler'[r].contact
    BY <1>1 DEF AudienceInv, OptOutKept, Does
  <2> QED BY <1>6, <2>1, <2>2, <2>3 DEF AudienceInv, OptOutKept
<1> QED BY <1>2, <1>5, <1>7, <1>8 DEF AudienceInv

LEMMA AudienceInvStep == AudienceInv /\ [AudienceNext]_audienceVars => AudienceInv'
<1> SUFFICES ASSUME AudienceInv, [AudienceNext]_audienceVars PROVE AudienceInv'
  OBVIOUS
<1>1. CASE UNCHANGED audienceVars
  BY <1>1 DEF audienceVars, AudienceInv, HandlersSound, RowsUnique, OptOutKept, OptOutHolds, On, Of,
     Does, ReviveSound, InsertSound
<1>2. /\ handler \in [ListRequests -> AnyHandler] /\ known \in [Addresses -> Nat] /\ memberId \in Nat
      /\ members \subseteq AnyMember
  BY DEF AudienceInv, HandlersSound, RowsUnique
<1>3. Ready \in AnyHandler /\ Ready.pc = "ready"
  BY DEF Ready, AnyHandler, Nobody
<1>4. NotYet \subseteq AnyContact /\ Contacts \subseteq AnyContact
  BY AudienceAssumption DEF NotYet, Contacts, AnyContact
<1>5. ASSUME NEW q \in ListRequests, BeginAddition(q)
      PROVE  AudienceInv'
  <2>1. PICK l \in Lists, op \in {"add", "import", "bot"}, S \in SUBSET NotYet :
          Moves(q, [Ready EXCEPT !.pc = "find", !.op = op, !.list = l, !.todo = S])
    BY <1>5 DEF BeginAddition
  <2> DEFINE h == [Ready EXCEPT !.pc = "find", !.op = op, !.list = l, !.todo = S]
  <2>2. h \in AnyHandler /\ h.pc = "find"
    BY <1>4 DEF Ready, AnyHandler, Nobody
  <2>3. UNCHANGED <<members, optedOut, memberId, known>>
    BY <1>5 DEF BeginAddition
  <2> HIDE DEF h
  <2> QED BY <1>2, <2>1, <2>2, <2>3, MoveKeeps DEF h
<1>6. ASSUME NEW q \in ListRequests, BeginCopy(q)
      PROVE  AudienceInv'
  <2>1. PICK source \in Lists, target \in Lists, statuses \in SUBSET {"active", "unsubscribed"} \ {{}} :
          Moves(q, [Ready EXCEPT !.pc = "find", !.op = "copy", !.list = target,
             !.todo = {m.contact : m \in {n \in Of(source) : n.status \in statuses}}])
    BY <1>6 DEF BeginCopy
  <2> DEFINE S == {m.contact : m \in {n \in Of(source) : n.status \in statuses}}
             h == [Ready EXCEPT !.pc = "find", !.op = "copy", !.list = target, !.todo = S]
  <2>2. S \in SUBSET AnyContact
    BY <1>2 DEF Of, AnyMember
  <2>3. h \in AnyHandler /\ h.pc = "find"
    <3> HIDE DEF S
    <3> QED BY <2>2 DEF Ready, AnyHandler, Nobody
  <2>4. UNCHANGED <<members, optedOut, memberId, known>>
    BY <1>6 DEF BeginCopy
  <2> HIDE DEF h
  <2> QED BY <1>2, <2>1, <2>3, <2>4, MoveKeeps DEF h
<1>7. ASSUME NEW q \in ListRequests, FindContact(q)
      PROVE  AudienceInv'
  <2> DEFINE h == handler[q]
             to(c, pc, x) == [h EXCEPT !.todo = @ \ {c}, !.pc = pc, !.contact = x]
  <2>1. h \in AnyHandler /\ h.pc = "find"
    BY <1>2, <1>7 DEF FindContact, Does
  <2>2. PICK c \in h.todo :
          \/ Moves(q, to(c, "look", c))
          \/ c \in NotYet /\ Moves(q, to(c, AfterFind(q), <<c[1], 1>>))
          \/ Moves(q, to(c, "create", c))
    BY <1>7 DEF FindContact
  <2>3. c \in AnyContact /\ (c \in NotYet => <<c[1], 1>> \in AnyContact)
    BY <2>1 DEF AnyHandler, NotYet, AnyContact
  <2>4. ASSUME NEW pc \in {"look", "create", AfterFind(q)}, NEW x \in AnyContact
        PROVE  /\ to(c, pc, x) \in AnyHandler /\ to(c, pc, x).pc = pc
               /\ to(c, pc, x).op = h.op
    BY <2>1, <2>4 DEF AnyHandler, AfterFind
  <2>5. AfterFind(q) = "insert" => h.op = "bot"
    BY DEF AfterFind
  <2>6. UNCHANGED <<members, optedOut, memberId, known>>
    BY <1>7 DEF FindContact
  <2>7. PICK pc \in {"look", "create", AfterFind(q)}, x \in AnyContact : Moves(q, to(c, pc, x))
    BY <2>2, <2>3
  <2>8. pc # "revive"
    BY DEF AfterFind
  <2>9. pc = "insert" => InsertSound(to(c, pc, x))
    BY <2>4, <2>5, <2>7 DEF InsertSound
  <2> HIDE DEF to, h
  <2> QED BY <1>2, <2>4, <2>6, <2>7, <2>8, <2>9, MoveKeeps
<1>8. ASSUME NEW q \in ListRequests, CreateContact(q)
      PROVE  AudienceInv'
  <2> DEFINE h == handler[q]
             e == h.contact[1]
             g == [h EXCEPT !.pc = AfterFind(q), !.contact = <<e, known[e] + 1>>]
  <2>1. h \in AnyHandler /\ h.pc = "create" /\ h.contact \in AnyContact /\ e \in Addresses
    BY <1>2, <1>8 DEF CreateContact, Does, AnyHandler, AnyContact
  <2>2. <<e, known[e] + 1>> \in AnyContact /\ [known EXCEPT ![e] = @ + 1] \in [Addresses -> Nat]
    BY <1>2, <2>1 DEF AnyContact
  <2>3. g \in AnyHandler /\ g.pc = AfterFind(q) /\ g.op = h.op
    <3> HIDE DEF e
    <3> QED BY <2>1, <2>2 DEF AnyHandler, AfterFind
  <2>4. g.pc # "revive" /\ (g.pc = "insert" => g.op \in {"add", "bot"})
    BY <2>3 DEF AfterFind
  <2>5. known' \in [Addresses -> Nat] /\ Moves(q, g) /\ UNCHANGED <<members, optedOut, memberId>>
    BY <1>8, <2>2 DEF CreateContact
  <2> HIDE DEF g
  <2> QED BY <2>3, <2>4, <2>5, MoveKeeps DEF InsertSound
<1>9. ASSUME NEW q \in ListRequests, LookUpMember(q)
      PROVE  AudienceInv'
  <2> DEFINE h == handler[q]
             rows == On(h.list, h.contact)
  <2>1. h \in AnyHandler /\ h.pc = "look" /\ h.list \in Lists /\ h.contact \in AnyContact
    BY <1>2, <1>9 DEF LookUpMember, Does, AnyHandler
  <2>2. UNCHANGED <<members, optedOut, memberId, known>>
    BY <1>9 DEF LookUpMember
  <2>3. CASE rows = {} /\ Moves(q, [h EXCEPT !.pc = "insert"])
    <3>1. [h EXCEPT !.pc = "insert"] \in AnyHandler
          /\ [h EXCEPT !.pc = "insert"].list = h.list /\ [h EXCEPT !.pc = "insert"].contact = h.contact
          /\ [h EXCEPT !.pc = "insert"].pc = "insert"
      BY <2>1 DEF AnyHandler
    <3>2. <<h.list, h.contact>> \notin optedOut
      BY <2>3 DEF AudienceInv, OptOutKept
    <3> HIDE DEF h
    <3> QED BY <1>2, <2>2, <2>3, <3>1, <3>2, MoveKeeps DEF InsertSound
  <2>4. CASE /\ rows # {} /\ h.op = "add"
             /\ Moves(q, [h EXCEPT !.pc = "revive", !.row = FirstOf(rows).id])
    <3> DEFINE m == FirstOf(rows)
               g == [h EXCEPT !.pc = "revive", !.row = m.id]
    <3>1. m \in rows
      <4>1. rows \in SUBSET members
        BY DEF On, Of
      <4> HIDE DEF rows
      <4> QED BY <2>4, <4>1, FirstOfRows DEF AudienceInv
    <3>2. m \in members /\ m.list = h.list /\ m.contact = h.contact /\ m.id \in Nat /\ m.id <= memberId
      BY <3>1 DEF On, Of, AudienceInv, RowsUnique, AnyMember
    <3>3. g \in AnyHandler /\ g.pc = "revive" /\ g.list = h.list /\ g.contact = h.contact
          /\ g.row = m.id /\ g.op = "add"
      <4> HIDE DEF m
      <4> QED BY <2>1, <2>4, <3>2 DEF AnyHandler
    <3>4. ReviveSound(g)
      BY <3>2, <3>3 DEF ReviveSound, AudienceInv, RowsUnique
    <3>5. Moves(q, g)
      BY <2>4
    <3> HIDE DEF g
    <3> QED BY <1>2, <2>2, <3>2, <3>3, <3>4, <3>5, MoveKeeps
  <2>5. CASE Moves(q, [h EXCEPT !.pc = "find"])
    <3>1. [h EXCEPT !.pc = "find"] \in AnyHandler /\ [h EXCEPT !.pc = "find"].pc = "find"
      BY <2>1 DEF AnyHandler
    <3> HIDE DEF h
    <3> QED BY <1>2, <2>2, <2>5, <3>1, MoveKeeps
  <2> QED BY <1>9, <2>3, <2>4, <2>5 DEF LookUpMember
<1>10. ASSUME NEW q \in ListRequests, Revive(q)
       PROVE  AudienceInv'
  <2> DEFINE h == handler[q]
             g == [h EXCEPT !.pc = "find", !.row = 0]
  <2>1. /\ h \in AnyHandler /\ h.pc = "revive" /\ h.list \in Lists /\ h.contact \in AnyContact
        /\ h.row \in Nat /\ ReviveSound(h)
    BY <1>2, <1>10 DEF Revive, Does, AnyHandler, AudienceInv, OptOutKept
  <2>2. g \in AnyHandler /\ g.pc \notin {"revive", "insert"}
    BY <2>1 DEF AnyHandler
  <2>3. \A p \in ListRequests : Does(p, "revive") /\ handler[p].row = h.row =>
          handler[p].list = h.list /\ handler[p].contact = h.contact
    BY <1>10, <2>1 DEF AudienceInv, OptOutKept, Does
  <2>4. /\ members' = {m \in members : m.id # h.row}
               \cup {[id |-> h.row, list |-> h.list, contact |-> h.contact, status |-> "active"]}
        /\ optedOut' = optedOut \ {<<h.list, h.contact>>}
        /\ known' = known /\ memberId' = memberId /\ Moves(q, g)
    BY <1>10, <2>1 DEF Revive, ReviveSound
  <2>5. optedOut' \subseteq optedOut /\ <<h.list, h.contact>> \notin optedOut'
    BY <2>4
  <2>6. \A m \in members : m.id = h.row => m.list = h.list /\ m.contact = h.contact
    BY <2>1 DEF ReviveSound
  <2>7. h.row <= memberId' /\ memberId' \in Nat /\ memberId <= memberId'
    BY <1>2, <2>1, <2>4 DEF ReviveSound
  <2> DEFINE id == h.row
             l == h.list
             c == h.contact
  <2>8. /\ id \in Nat /\ id <= memberId' /\ l \in Lists /\ c \in AnyContact
        /\ \A m \in members : m.id = id => m.list = l /\ m.contact = c
        /\ members' = {m \in members : m.id # id}
                        \cup {[id |-> id, list |-> l, contact |-> c, status |-> "active"]}
        /\ <<l, c>> \notin optedOut'
        /\ \A p \in ListRequests : Does(p, "revive") /\ handler[p].row = id =>
              handler[p].list = l /\ handler[p].contact = c
    BY <2>1, <2>3, <2>4, <2>5, <2>6, <2>7
  <2> HIDE DEF h, g, id, l, c
  <2> QED BY <2>2, <2>4, <2>5, <2>7, <2>8, ActiveRowKeeps
<1>11. ASSUME NEW q \in ListRequests, InsertMember(q)
       PROVE  AudienceInv'
  <2> DEFINE h == handler[q]
             g == IF h.op = "bot" THEN Ready ELSE [h EXCEPT !.pc = "find", !.done = @ + 1]
             id == memberId + 1
  <2>1. /\ h \in AnyHandler /\ h.pc = "insert" /\ h.list \in Lists /\ h.contact \in AnyContact
        /\ InsertSound(h)
    BY <1>2, <1>11 DEF InsertMember, Does, AnyHandler, AudienceInv, OptOutKept
  <2>2. g \in AnyHandler /\ g.pc \notin {"revive", "insert"}
    <3>1. [h EXCEPT !.pc = "find", !.done = @ + 1] \in AnyHandler
          /\ [h EXCEPT !.pc = "find", !.done = @ + 1].pc = "find"
      <4>1. h.done + 1 \in Nat
        BY <2>1 DEF AnyHandler
      <4> HIDE DEF h
      <4> QED BY <2>1, <4>1 DEF AnyHandler
    <3> QED BY <1>3, <3>1
  <2>3. \A m \in members : m.id \in Nat /\ m.id # id
    BY <1>2 DEF AudienceInv, RowsUnique, AnyMember
  <2>4. \A p \in ListRequests : Does(p, "revive") => handler[p].row # id
    <3>1. \A p \in ListRequests : handler[p].row \in Nat
      BY <1>2 DEF AnyHandler
    <3> QED BY <1>2, <3>1 DEF AudienceInv, OptOutKept, ReviveSound
  <2>5. /\ memberId' = id
        /\ members' = members \cup {[id |-> id, list |-> h.list, contact |-> h.contact,
                                     status |-> "active"]}
        /\ known' = known /\ Moves(q, g)
    BY <1>11 DEF InsertMember
  <2>6. members = {m \in members : m.id # id}
    BY <2>3
  <2>7. optedOut' \subseteq optedOut /\ <<h.list, h.contact>> \notin optedOut'
    BY <1>11, <2>1 DEF InsertMember, InsertSound
  <2>8. id \in Nat /\ id <= memberId' /\ memberId' \in Nat /\ memberId <= memberId'
    BY <1>2, <2>5
  <2> HIDE DEF h, g, id
  <2> QED BY <2>1, <2>2, <2>3, <2>4, <2>5, <2>6, <2>7, <2>8, ActiveRowKeeps
<1>12. ASSUME NEW q \in ListRequests, CountAdditions(q) \/ UncountSubscriber(q) \/ DropList(q)
       PROVE  AudienceInv'
  <2>1. Moves(q, Ready) /\ UNCHANGED <<members, known, memberId, optedOut>>
    BY <1>12 DEF CountAdditions, UncountSubscriber, DropList
  <2> QED BY <1>2, <1>3, <2>1, MoveKeeps
<1>13. ASSUME NEW q \in ListRequests, RemoveSubscriber(q)
       PROVE  AudienceInv'
  <2>1. PICK l \in Lists, c \in Contacts :
          /\ members' = members \ On(l, c) /\ optedOut' = optedOut \ {<<l, c>>}
          /\ Moves(q, [Ready EXCEPT !.pc = "uncount", !.op = "remove", !.list = l])
    BY <1>13 DEF RemoveSubscriber
  <2> DEFINE g == [Ready EXCEPT !.pc = "uncount", !.op = "remove", !.list = l]
  <2>2. g \in AnyHandler /\ g.pc = "uncount"
    BY DEF Ready, AnyHandler, Nobody
  <2>3. \A p \in optedOut' : On(p[1], p[2]) \subseteq members'
    <3>1. \A p \in optedOut' : p = <<p[1], p[2]>> /\ ~(p[1] = l /\ p[2] = c)
      BY <2>1 DEF AudienceInv, OptOutKept
    <3> QED BY <2>1, <3>1 DEF On, Of
  <2>4. UNCHANGED <<memberId, known>>
    BY <1>13 DEF RemoveSubscriber
  <2> HIDE DEF g
  <2> QED BY <2>1, <2>2, <2>3, <2>4, RemovalKeeps DEF g
<1>14. ASSUME NEW q \in ListRequests, DeleteList(q)
       PROVE  AudienceInv'
  <2>1. PICK l \in Lists :
          /\ members' = members \ Of(l) /\ optedOut' = {p \in optedOut : p[1] # l}
          /\ Moves(q, [Ready EXCEPT !.pc = "drop", !.op = "delete", !.list = l])
    BY <1>14 DEF DeleteList
  <2> DEFINE g == [Ready EXCEPT !.pc = "drop", !.op = "delete", !.list = l]
  <2>2. g \in AnyHandler /\ g.pc = "drop"
    BY DEF Ready, AnyHandler, Nobody
  <2>3. \A p \in optedOut' : On(p[1], p[2]) \subseteq members'
    BY <2>1 DEF On, Of
  <2>4. UNCHANGED <<memberId, known>>
    BY <1>14 DEF DeleteList
  <2> HIDE DEF g
  <2> QED BY <2>1, <2>2, <2>3, <2>4, RemovalKeeps DEF g
<1>15. CASE UnsubscribeFromList
  <2>1. PICK l \in Lists, c \in Contacts :
          /\ On(l, c) # {}
          /\ members' = {IF m \in On(l, c) THEN [m EXCEPT !.status = "unsubscribed"] ELSE m :
                           m \in members}
          /\ optedOut' = IF \E q \in ListRequests : Does(q, "insert") /\ handler[q].list = l
                                                   /\ handler[q].contact = c
                         THEN optedOut ELSE optedOut \cup {<<l, c>>}
    BY <1>15 DEF UnsubscribeFromList
  <2>2. UNCHANGED <<handler, known, memberId>>
    BY <1>15 DEF UnsubscribeFromList
  <2> DEFINE new(m) == IF m \in On(l, c) THEN [m EXCEPT !.status = "unsubscribed"] ELSE m
  <2>3. \A m \in members : /\ new(m) \in AnyMember /\ new(m).id = m.id
                           /\ new(m).list = m.list /\ new(m).contact = m.contact
                           /\ m.list = l /\ m.contact = c => new(m).status = "unsubscribed"
                           /\ m.status = "unsubscribed" => new(m).status = "unsubscribed"
    BY <1>2 DEF AnyMember, On, Of
  <2>4. members' = {new(m) : m \in members}
    BY <2>1
  <2> HIDE DEF new
  <2>5. \A n \in members' : \E m \in members : n = new(m)
    BY <2>4
  <2>6. HandlersSound' /\ RowsUnique'
    BY <2>2, <2>3, <2>5 DEF AudienceInv, HandlersSound, RowsUnique
  <2>7. \A l2, c2 : On(l2, c2) # {} => On(l2, c2)' # {}
    BY <2>3, <2>4 DEF On, Of
  <2>8. \A p \in optedOut' : p \in optedOut \/ p = <<l, c>>
    BY <2>1
  <2>9. OptOutHolds'
    <3> SUFFICES ASSUME NEW p \in optedOut', NEW n \in On(p[1], p[2])'
                 PROVE  n.status = "unsubscribed"
      BY DEF OptOutHolds
    <3>1. PICK m \in members : n = new(m)
      BY <2>5 DEF On, Of
    <3>2. m \in On(p[1], p[2])
      BY <2>3, <3>1 DEF On, Of
    <3>3. CASE p \in optedOut
      BY <2>3, <3>1, <3>2, <3>3 DEF AudienceInv, OptOutHolds
    <3>4. CASE p = <<l, c>>
      BY <2>3, <3>1, <3>2, <3>4 DEF On, Of
    <3> QED BY <2>8, <3>3, <3>4
  <2>10. OptOutKept'
    <3>1. optedOut' \subseteq Lists \X Contacts
      BY <2>8 DEF AudienceInv, OptOutKept
    <3>2. \A p \in optedOut' : On(p[1], p[2])' # {}
      BY <2>1, <2>7, <2>8 DEF AudienceInv, OptOutKept
    <3>3. ASSUME NEW q \in ListRequests, Does(q, "revive")' PROVE ReviveSound(handler[q])'
      <4>1. ReviveSound(handler[q])
        BY <2>2, <3>3 DEF AudienceInv, OptOutKept, Does
      <4> QED BY <2>2, <2>3, <2>5, <4>1 DEF ReviveSound
    <3>4. ASSUME NEW q \in ListRequests, Does(q, "insert")' PROVE InsertSound(handler[q])'
      <4>1. InsertSound(handler[q]) /\ Does(q, "insert")
        BY <2>2, <3>4 DEF AudienceInv, OptOutKept, Does
      <4>2. <<handler[q].list, handler[q].contact>> = <<l, c>> => optedOut' = optedOut
        BY <2>1, <4>1
      <4> QED BY <2>2, <2>8, <4>1, <4>2 DEF InsertSound
    <3> QED BY <2>2, <3>1, <3>2, <3>3, <3>4 DEF AudienceInv, OptOutKept, Does
  <2> QED BY <2>6, <2>9, <2>10 DEF AudienceInv
<1>16. CASE AudienceRestart
  <2>1. handler' = [q \in ListRequests |-> Ready] /\ UNCHANGED <<members, known, memberId, optedOut>>
    BY <1>16 DEF AudienceRestart
  <2>2. \A q \in ListRequests : handler'[q] = Ready
    BY <2>1
  <2>3. HandlersSound'
    BY <1>2, <1>3, <2>1 DEF HandlersSound
  <2>4. RowsUnique' /\ OptOutKept' /\ OptOutHolds'
    BY <1>3, <2>1, <2>2 DEF AudienceInv, RowsUnique, OptOutKept, OptOutHolds, On, Of, Does
  <2> QED BY <2>3, <2>4 DEF AudienceInv
<1> QED
  BY <1>1, <1>5, <1>6, <1>7, <1>8, <1>9, <1>10, <1>11, <1>12, <1>13, <1>14, <1>15, <1>16
  DEF AudienceNext, Addition

(***************************************************************************)
(* For any number of lists, contacts, addresses and requests that overlap, *)
(* a contact that has unsubscribed from a list stays unsubscribed there,   *)
(* unless somebody adds that contact by name or has removed it.            *)
(***************************************************************************)
THEOREM OptOutAlwaysHolds == AudienceSpec => []OptOutHolds
<1>1. AudienceInv => OptOutHolds
  BY DEF AudienceInv
<1> QED
  BY <1>1, AudienceInvInit, AudienceInvStep, PTL DEF AudienceSpec

-----------------------------------------------------------------------------
(* The counters of the lists *)

\* What may leave a counter out of step with the rows.
Exempt(l) ==
    \/ ~lists[l].live \/ l \in drifted
    \/ \E q \in ListRequests : handler[q].list = l /\ handler[q].pc = "drop"

\* A request has additions to count only while it adds.
AddingSound(h) == h.pc \in {"ready", "uncount", "drop"} \/ h.op = "bot" => h.done = 0

CounterInv ==
    /\ lists \in [Lists -> [live : BOOLEAN, count : Int]]
    /\ \A q \in ListRequests : AddingSound(handler[q])
    /\ \A l \in Lists : IsFiniteSet(Of(l)) /\ IsFiniteSet(Added(l)) /\ IsFiniteSet(Leaving(l))
    /\ CounterFollowsRows

LEMMA CountFacts ==
    ASSUME CounterInv, NEW l \in Lists
    PROVE  /\ Cardinality(Of(l)) \in Nat /\ Cardinality(Added(l)) \in Nat
           /\ Cardinality(Leaving(l)) \in Nat /\ lists[l].count \in Int
           /\ Exempt(l) \/ lists[l].count + Cardinality(Added(l)) - Cardinality(Leaving(l))
                             = Cardinality(Of(l))
<1>1. Cardinality(Of(l)) \in Nat /\ Cardinality(Added(l)) \in Nat /\ Cardinality(Leaving(l)) \in Nat
  BY FS_CardinalityType DEF CounterInv
<1>2. lists[l].count \in Int
  BY DEF CounterInv
<1>3. Exempt(l) \/ lists[l].count + OnTheWay(l) = Cardinality(Of(l))
  BY DEF CounterInv, CounterFollowsRows, Exempt
<1>4. ASSUME NEW a \in Nat, NEW b \in Nat, NEW c \in Int PROVE c + (a - b) = c + a - b
  OBVIOUS
<1> QED BY <1>1, <1>2, <1>3, <1>4 DEF OnTheWay

\* The counters are in step again after a step.
LEMMA InStep ==
    ASSUME lists' \in [Lists -> [live : BOOLEAN, count : Int]],
           \A q \in ListRequests : AddingSound(handler'[q]),
           \A l \in Lists :
             /\ IsFiniteSet(Of(l)') /\ IsFiniteSet(Added(l)') /\ IsFiniteSet(Leaving(l)')
             /\ \/ Exempt(l)'
                \/ lists'[l].count + Cardinality(Added(l)') - Cardinality(Leaving(l)')
                     = Cardinality(Of(l)')
    PROVE  CounterInv'
<1>1. \A q \in ListRequests : AddingSound(handler[q])'
  BY DEF AddingSound
<1>2. ASSUME NEW l \in Lists, ~Exempt(l)' PROVE (lists[l].count + OnTheWay(l) = Cardinality(Of(l)))'
  <2>1. Cardinality(Added(l)') \in Nat /\ Cardinality(Leaving(l)') \in Nat /\ lists'[l].count \in Int
    BY FS_CardinalityType
  <2>2. ASSUME NEW a \in Nat, NEW b \in Nat, NEW c \in Int PROVE c + (a - b) = c + a - b
    OBVIOUS
  <2> QED BY <1>2, <2>1, <2>2 DEF OnTheWay
<1>3. CounterFollowsRows'
  BY <1>2 DEF CounterFollowsRows, Exempt
<1> QED BY <1>1, <1>3 DEF CounterInv

\* The additions of the others are theirs.
LEMMA AddedFacts ==
    ASSUME NEW l, NEW x
    PROVE  /\ x \in Added(l) <=>
                \E p \in ListRequests : \E i \in 1..handler[p].done : handler[p].list = l /\ x = <<p, i>>
           /\ x \in Added(l)' <=>
                \E p \in ListRequests : \E i \in 1..handler'[p].done : handler'[p].list = l /\ x = <<p, i>>
BY DEF Added, OnList

LEMMA AddedStay ==
    ASSUME handler \in [ListRequests -> AnyHandler], NEW q \in ListRequests, NEW h \in AnyHandler,
           Moves(q, h), h.done = handler[q].done, h.done = 0 \/ h.list = handler[q].list,
           NEW l
    PROVE  Added(l)' = Added(l)
<1>1. \A p \in ListRequests : handler'[p] = IF p = q THEN h ELSE handler[p]
  BY DEF Moves
<1>2. \A p \in ListRequests : \A i \in 1..handler[p].done :
        handler[p].list = l => i \in 1..handler'[p].done /\ handler'[p].list = l
  BY <1>1
<1>3. \A p \in ListRequests : \A i \in 1..handler'[p].done :
        handler'[p].list = l => i \in 1..handler[p].done /\ handler[p].list = l
  BY <1>1
<1>4. ASSUME NEW x PROVE x \in Added(l)' <=> x \in Added(l)
  BY <1>2, <1>3, AddedFacts
<1> QED BY <1>4 DEF Added

LEMMA LeavingStay ==
    ASSUME handler \in [ListRequests -> AnyHandler], NEW q \in ListRequests, NEW h,
           Moves(q, h), h.pc # "uncount", handler[q].pc # "uncount", NEW l
    PROVE  Leaving(l)' = Leaving(l)
<1>1. \A p \in ListRequests : handler'[p] = IF p = q THEN h ELSE handler[p]
  BY DEF Moves
<1> QED BY <1>1 DEF Leaving, OnList, Does

\* A request goes on without a row more or less, and without a counter touched.
LEMMA GoingOn ==
    ASSUME AudienceInv, CounterInv, NEW q \in ListRequests, NEW h \in AnyHandler, Moves(q, h),
           AddingSound(h), h.done = handler[q].done, h.done = 0 \/ h.list = handler[q].list,
           h.pc # "uncount", handler[q].pc \notin {"uncount", "drop"}, lists' = lists,
           \A l \in Lists : IsFiniteSet(Of(l)'),
           \A l \in Lists : l \in drifted => l \in drifted',
           \A l \in Lists : Exempt(l)' \/ Cardinality(Of(l)') = Cardinality(Of(l))
    PROVE  CounterInv'
<1>1. handler \in [ListRequests -> AnyHandler]
  BY DEF AudienceInv, HandlersSound
<1>2. \A p \in ListRequests : handler'[p] = IF p = q THEN h ELSE handler[p]
  BY <1>1 DEF Moves
<1>3. \A p \in ListRequests : AddingSound(handler'[p])
  BY <1>2 DEF CounterInv
<1>4. \A l \in Lists : Added(l)' = Added(l) /\ Leaving(l)' = Leaving(l)
  <2> TAKE l \in Lists
  <2>1. Added(l)' = Added(l)
    BY <1>1, AddedStay
  <2>2. Leaving(l)' = Leaving(l)
    BY <1>1, LeavingStay
  <2> QED BY <2>1, <2>2
<1>5. \A l \in Lists : Exempt(l) => Exempt(l)'
  BY <1>2 DEF Exempt
<1>6. \A l \in Lists : Exempt(l)' \/ lists'[l].count + Cardinality(Added(l)') - Cardinality(Leaving(l)')
                                       = Cardinality(Of(l)')
  BY <1>4, <1>5, CountFacts
<1>7. \A l \in Lists : IsFiniteSet(Added(l)') /\ IsFiniteSet(Leaving(l)')
  BY <1>4 DEF CounterInv
<1> QED BY <1>3, <1>6, <1>7, InStep DEF CounterInv

LEMMA PairsCount ==
    ASSUME NEW q, NEW n \in Nat
    PROVE  IsFiniteSet({q} \X (1..n)) /\ Cardinality({q} \X (1..n)) = n
<1>1. PICK f : f = [i \in 1..n |-> <<q, i>>]
  OBVIOUS
<1>2. f \in Bijection(1..n, {q} \X (1..n))
  <2>1. f \in [1..n -> {q} \X (1..n)]
    BY <1>1
  <2>2. \A i, j \in 1..n : f[i] = f[j] => i = j
    BY <1>1
  <2>3. \A x \in {q} \X (1..n) : \E i \in 1..n : f[i] = x
    BY <1>1
  <2> QED BY <2>1, <2>2, <2>3 DEF Bijection, Injection, Surjection, IsInjective
<1>3. IsFiniteSet(1..n) /\ Cardinality(1..n) = n
  BY FS_Interval
<1> QED BY <1>2, <1>3, FS_Bijection DEF ExistsBijection

\* Requests that begin, or look for what they add.
LEMMA LookingKeepsCount ==
    ASSUME AudienceInv, AudienceInv', CounterInv, NEW q \in ListRequests,
           BeginAddition(q) \/ BeginCopy(q) \/ FindContact(q) \/ CreateContact(q) \/ LookUpMember(q)
    PROVE  CounterInv'
<1>1. handler \in [ListRequests -> AnyHandler] /\ handler' \in [ListRequests -> AnyHandler]
  BY DEF AudienceInv, HandlersSound
<1>2. PICK g : g = handler[q]
  OBVIOUS
<1>3. PICK h : h = handler'[q]
  OBVIOUS
<1>4. g \in AnyHandler /\ h \in AnyHandler /\ AddingSound(g)
  BY <1>1, <1>2, <1>3 DEF CounterInv
<1>5. /\ UNCHANGED <<lists, members, drifted>> /\ Moves(q, h)
      /\ h.pc \notin {"ready", "uncount", "drop"} /\ g.pc \notin {"uncount", "drop"}
      /\ h.done = g.done /\ (h.done = 0 \/ (h.list = g.list /\ h.op = g.op))
  <2>1. CASE BeginAddition(q)
    <3>1. PICK l \in Lists, op \in {"add", "import", "bot"}, S \in SUBSET NotYet :
            Moves(q, [Ready EXCEPT !.pc = "find", !.op = op, !.list = l, !.todo = S])
      BY <2>1 DEF BeginAddition
    <3>2. g.pc = "ready" /\ UNCHANGED <<lists, members, drifted>>
      BY <1>2, <2>1 DEF BeginAddition, Arrives, Does
    <3>3. h = [Ready EXCEPT !.pc = "find", !.op = op, !.list = l, !.todo = S]
      BY <1>1, <1>3, <3>1 DEF Moves
    <3>4. h.pc = "find" /\ h.done = 0
      BY <3>3 DEF Ready
    <3> QED BY <1>4, <3>1, <3>2, <3>3, <3>4 DEF AddingSound
  <2>2. CASE BeginCopy(q)
    <3>1. PICK l \in Lists : \E S :
            Moves(q, [Ready EXCEPT !.pc = "find", !.op = "copy", !.list = l, !.todo = S])
      BY <2>2 DEF BeginCopy
    <3>2. g.pc = "ready" /\ UNCHANGED <<lists, members, drifted>>
      BY <1>2, <2>2 DEF BeginCopy, Arrives, Does
    <3>3. \E S : h = [Ready EXCEPT !.pc = "find", !.op = "copy", !.list = l, !.todo = S]
      BY <1>1, <1>3, <3>1 DEF Moves
    <3>4. h.pc = "find" /\ h.done = 0
      BY <3>3 DEF Ready
    <3>5. Moves(q, h) /\ g.done = 0
      BY <1>1, <1>3, <1>4, <3>1, <3>2 DEF Moves, AddingSound
    <3> QED BY <3>2, <3>4, <3>5
  <2>3. CASE FindContact(q)
    <3> DEFINE to(c, pc, x) == [g EXCEPT !.todo = @ \ {c}, !.pc = pc, !.contact = x]
    <3>1. PICK c \in g.todo :
            \/ Moves(q, to(c, "look", c))
            \/ Moves(q, to(c, AfterFind(q), <<c[1], 1>>))
            \/ Moves(q, to(c, "create", c))
      BY <1>2, <2>3 DEF FindContact
    <3>2. g.pc = "find" /\ UNCHANGED <<lists, members, drifted>>
      BY <1>2, <2>3 DEF FindContact, Does
    <3>3. \E pc \in {"look", "create", "insert"} : \E x : h = to(c, pc, x)
      BY <1>1, <1>3, <3>1 DEF Moves, AfterFind
    <3>4. \A pc, x : to(c, pc, x).pc = pc /\ to(c, pc, x).done = g.done
                    /\ to(c, pc, x).list = g.list /\ to(c, pc, x).op = g.op
      BY <1>4 DEF AnyHandler
    <3> HIDE DEF to
    <3>5. /\ h.pc \in {"look", "create", "insert"}
          /\ h.done = g.done /\ h.list = g.list /\ h.op = g.op
      BY <3>3, <3>4
    <3>6. Moves(q, h)
      BY <1>1, <1>3, <3>1 DEF Moves
    <3> QED BY <3>2, <3>5, <3>6
  <2>4. CASE CreateContact(q)
    <3>1. PICK pc \in {"look", "insert"} : \E x : Moves(q, [g EXCEPT !.pc = pc, !.contact = x])
      BY <1>2, <2>4 DEF CreateContact, AfterFind
    <3>2. g.pc = "create" /\ UNCHANGED <<lists, members, drifted>>
      BY <1>2, <2>4 DEF CreateContact, Does
    <3>3. \E x : h = [g EXCEPT !.pc = pc, !.contact = x]
      BY <1>1, <1>3, <3>1 DEF Moves
    <3>4. h.pc = pc /\ h.done = g.done /\ h.list = g.list /\ h.op = g.op
      BY <1>4, <3>3 DEF AnyHandler
    <3>5. Moves(q, h)
      BY <1>1, <1>3, <3>1 DEF Moves
    <3> QED BY <3>2, <3>4, <3>5
  <2>5. CASE LookUpMember(q)
    <3>1. \/ Moves(q, [g EXCEPT !.pc = "insert"]) \/ Moves(q, [g EXCEPT !.pc = "find"])
          \/ \E r : Moves(q, [g EXCEPT !.pc = "revive", !.row = r])
      BY <1>2, <2>5 DEF LookUpMember
    <3>2. g.pc = "look" /\ UNCHANGED <<lists, members, drifted>>
      BY <1>2, <2>5 DEF LookUpMember, Does
    <3>3. \/ h = [g EXCEPT !.pc = "insert"] \/ h = [g EXCEPT !.pc = "find"]
          \/ \E r : h = [g EXCEPT !.pc = "revive", !.row = r]
      BY <1>1, <1>3, <3>1 DEF Moves
    <3>4. /\ h.pc \in {"insert", "find", "revive"}
          /\ h.done = g.done /\ h.list = g.list /\ h.op = g.op
      BY <1>4, <3>3 DEF AnyHandler
    <3>5. Moves(q, h)
      BY <1>1, <1>3, <3>1 DEF Moves
    <3> QED BY <3>2, <3>4, <3>5
  <2> QED BY <2>1, <2>2, <2>3, <2>4, <2>5
<1>6. AddingSound(h)
  BY <1>4, <1>5 DEF AddingSound
<1>7. \A l \in Lists : IsFiniteSet(Of(l)') /\ Cardinality(Of(l)') = Cardinality(Of(l))
  BY <1>5 DEF CounterInv, Of
<1> QED BY <1>2, <1>4, <1>5, <1>6, <1>7, GoingOn

\* A row that comes back in the place of the one that was read.
LEMMA ReviveKeepsCount ==
    ASSUME AudienceInv, AudienceInv', CounterInv, NEW q \in ListRequests, Revive(q)
    PROVE  CounterInv'
<1>1. handler \in [ListRequests -> AnyHandler] /\ handler' \in [ListRequests -> AnyHandler]
  BY DEF AudienceInv, HandlersSound
<1>2. PICK g : g = handler[q]
  OBVIOUS
<1>3. g \in AnyHandler /\ g.pc = "revive" /\ g.list \in Lists /\ ReviveSound(g) /\ AddingSound(g)
  BY <1>1, <1>2 DEF Revive, Does, AnyHandler, CounterInv, AudienceInv, OptOutKept
<1>4. PICK h : h = [g EXCEPT !.pc = "find", !.row = 0]
  OBVIOUS
<1>5. h.pc = "find" /\ h.done = g.done /\ h.list = g.list /\ h.op = g.op
  BY <1>3, <1>4 DEF AnyHandler
<1>6. Moves(q, h) /\ lists' = lists
  BY <1>2, <1>4 DEF Revive
<1>7. h \in AnyHandler
  BY <1>1, <1>6 DEF Moves
<1>8. PICK new : new = [id |-> g.row, list |-> g.list, contact |-> g.contact, status |-> "active"]
  OBVIOUS
<1>9. PICK others : others = {m \in members : m.id # g.row}
  OBVIOUS
<1>10. /\ members' = others \cup {new} /\ new.id = g.row /\ new.list = g.list
       /\ drifted' = IF others = members THEN drifted \cup {g.list} ELSE drifted
  BY <1>2, <1>8, <1>9 DEF Revive
<1>11. \A m \in members : m.id = g.row => m.list = g.list
  BY <1>3 DEF ReviveSound
<1>12. ASSUME NEW l \in Lists, l # g.list PROVE Of(l)' = Of(l)
  BY <1>9, <1>10, <1>11, <1>12 DEF Of
<1>13. PICK rest : rest = {m \in others : m.list = g.list}
  OBVIOUS
<1>14. Of(g.list)' = rest \cup {new} /\ new \notin rest /\ rest \subseteq Of(g.list)
  BY <1>9, <1>10, <1>13 DEF Of
<1>15. IsFiniteSet(Of(g.list)) /\ IsFiniteSet(rest)
  BY <1>3, <1>14, FS_Subset DEF CounterInv
<1>16. IsFiniteSet(Of(g.list)') /\ Cardinality(Of(g.list)') = Cardinality(rest) + 1
  BY <1>14, <1>15, FS_AddElement
<1>17. CASE others = members
  <2>1. Exempt(g.list)'
    BY <1>10, <1>17 DEF Exempt
  <2> QED BY <1>2, <1>3, <1>5, <1>6, <1>7, <1>10, <1>12, <1>16, <2>1, GoingOn DEF AddingSound, CounterInv
<1>18. CASE others # members
  <2>1. PICK m \in members : m.id = g.row
    BY <1>9, <1>18
  <2>2. m.list = g.list /\ m \in Of(g.list)
    BY <1>11, <2>1 DEF Of
  <2>3. \A n \in members : n.id = g.row => n = m
    BY <2>1 DEF AudienceInv, RowsUnique
  <2>4. rest = Of(g.list) \ {m}
    BY <1>9, <1>13, <2>1, <2>3 DEF Of
  <2>5. Cardinality(Of(g.list)) \in Nat /\ Cardinality(rest) = Cardinality(Of(g.list)) - 1
    BY <1>15, <2>2, <2>4, FS_RemoveElement, FS_CardinalityType
  <2>6. Cardinality(Of(g.list)') = Cardinality(Of(g.list))
    BY <1>16, <2>5
  <2> QED BY <1>2, <1>3, <1>5, <1>6, <1>7, <1>10, <1>12, <1>16, <2>6, GoingOn DEF AddingSound, CounterInv
<1> QED BY <1>17, <1>18

\* A row more, for its request to count; the bot's row is counted by nobody.
LEMMA InsertKeepsCount ==
    ASSUME AudienceInv, AudienceInv', CounterInv, NEW q \in ListRequests, InsertMember(q)
    PROVE  CounterInv'
<1>1. handler \in [ListRequests -> AnyHandler] /\ handler' \in [ListRequests -> AnyHandler]
  BY DEF AudienceInv, HandlersSound
<1>2. PICK g : g = handler[q]
  OBVIOUS
<1>3. g \in AnyHandler /\ g.pc = "insert" /\ g.list \in Lists /\ g.done \in Nat /\ AddingSound(g)
  BY <1>1, <1>2 DEF InsertMember, Does, AnyHandler, CounterInv
<1>4. PICK new : new = [id |-> memberId', list |-> g.list, contact |-> g.contact, status |-> "active"]
  OBVIOUS
<1>5. /\ members' = members \cup {new} /\ memberId' = memberId + 1 /\ lists' = lists
      /\ drifted' = IF g.op = "bot" THEN drifted \cup {g.list} ELSE drifted
  BY <1>2, <1>4 DEF InsertMember
<1>6. new \notin members /\ new.list = g.list
  BY <1>4, <1>5 DEF AudienceInv, RowsUnique, HandlersSound, AnyMember
<1>7. ASSUME NEW l \in Lists, l # g.list PROVE Of(l)' = Of(l)
  BY <1>5, <1>6, <1>7 DEF Of
<1>8. Of(g.list)' = Of(g.list) \cup {new} /\ new \notin Of(g.list)
  BY <1>5, <1>6 DEF Of
<1>9. IsFiniteSet(Of(g.list)') /\ Cardinality(Of(g.list)') = Cardinality(Of(g.list)) + 1
  BY <1>3, <1>8, FS_AddElement DEF CounterInv
<1>10. CASE g.op = "bot"
  <2>1. Moves(q, Ready) /\ g.done = 0
    BY <1>2, <1>3, <1>10 DEF InsertMember, AddingSound
  <2>2. Ready \in AnyHandler /\ Ready.pc = "ready" /\ Ready.done = 0
    BY DEF Ready, AnyHandler, Nobody
  <2>3. Exempt(g.list)'
    BY <1>5, <1>10 DEF Exempt
  <2> QED BY <1>2, <1>3, <1>5, <1>7, <1>9, <2>1, <2>2, <2>3, GoingOn DEF AddingSound, CounterInv
<1>11. CASE g.op # "bot"
  <2>1. PICK h : h = [g EXCEPT !.pc = "find", !.done = @ + 1]
    OBVIOUS
  <2>2. h.pc = "find" /\ h.done = g.done + 1 /\ h.list = g.list /\ h.op = g.op
    BY <1>3, <2>1 DEF AnyHandler
  <2>3. Moves(q, h)
    BY <1>2, <1>11, <2>1 DEF InsertMember
  <2>4. \A p \in ListRequests : handler'[p] = IF p = q THEN h ELSE handler[p]
    BY <1>1, <2>3 DEF Moves
  <2>5. \A p \in ListRequests : AddingSound(handler'[p])
    <3>1. AddingSound(h)
      BY <1>11, <2>2 DEF AddingSound
    <3> QED BY <2>4, <3>1 DEF CounterInv
  <2>6. \A l \in Lists : Leaving(l)' = Leaving(l)
    BY <1>1, <1>2, <1>3, <2>2, <2>3, LeavingStay
  <2>7. ASSUME NEW l \in Lists, l # g.list PROVE Added(l)' = Added(l)
    <3>1. ASSUME NEW x PROVE x \in Added(l)' <=> x \in Added(l)
      BY <1>2, <2>2, <2>4, <2>7, AddedFacts
    <3> QED BY <3>1 DEF Added
  <2>8. Added(g.list)' = Added(g.list) \cup {<<q, g.done + 1>>} /\ <<q, g.done + 1>> \notin Added(g.list)
    <3>1. \A i : i \in 1..(g.done + 1) <=> i \in 1..g.done \/ i = g.done + 1
      BY <1>3
    <3>2. ASSUME NEW x PROVE x \in Added(g.list)' <=> x \in Added(g.list) \/ x = <<q, g.done + 1>>
      BY <1>2, <2>2, <2>4, <3>1, AddedFacts
    <3>3. Added(g.list)' = Added(g.list) \cup {<<q, g.done + 1>>}
      BY <3>2 DEF Added
    <3>4. g.done + 1 \notin 1..g.done
      BY <1>3
    <3>5. <<q, g.done + 1>> \notin Added(g.list)
      BY <1>2, <3>4, AddedFacts
    <3> QED BY <3>3, <3>5
  <2>9. IsFiniteSet(Added(g.list)') /\ Cardinality(Added(g.list)') = Cardinality(Added(g.list)) + 1
    BY <1>3, <2>8, FS_AddElement DEF CounterInv
  <2>10. \A l \in Lists : Exempt(l) => Exempt(l)'
    BY <1>2, <1>3, <1>5, <1>11, <2>4 DEF Exempt
  <2>11. ASSUME NEW l \in Lists
         PROVE  /\ IsFiniteSet(Of(l)') /\ IsFiniteSet(Added(l)') /\ IsFiniteSet(Leaving(l)')
                /\ \/ Exempt(l)'
                   \/ lists'[l].count + Cardinality(Added(l)') - Cardinality(Leaving(l)')
                        = Cardinality(Of(l)')
    <3>1. CASE l = g.list
      BY <1>3, <1>5, <1>9, <2>6, <2>9, <2>10, <3>1, CountFacts DEF CounterInv
    <3>2. CASE l # g.list
      BY <1>5, <1>7, <2>6, <2>7, <2>10, <3>2, CountFacts DEF CounterInv
    <3> QED BY <3>1, <3>2
  <2>12. lists' \in [Lists -> [live : BOOLEAN, count : Int]]
    BY <1>5 DEF CounterInv
  <2> QED BY <2>5, <2>11, <2>12, InStep
<1> QED BY <1>10, <1>11

\* What a request that ends takes with it.
LEMMA RequestEnds ==
    ASSUME AudienceInv, CounterInv, NEW q \in ListRequests, Moves(q, Ready), NEW l \in Lists
    PROVE  /\ Leaving(l)' = Leaving(l) \ {q}
           /\ IsFiniteSet(Added(l)')
           /\ Cardinality(Added(l)) = Cardinality(Added(l)')
                + (IF handler[q].list = l THEN handler[q].done ELSE 0)
<1>1. handler \in [ListRequests -> AnyHandler] /\ Ready.done = 0 /\ Ready.pc = "ready"
  BY DEF AudienceInv, HandlersSound, Ready
<1>2. \A p \in ListRequests : handler'[p] = IF p = q THEN Ready ELSE handler[p]
  BY <1>1 DEF Moves
<1>3. Leaving(l)' = Leaving(l) \ {q}
  BY <1>1, <1>2 DEF Leaving, OnList, Does
<1>4. PICK n : n = handler[q].done
  OBVIOUS
<1>5. n \in Nat
  BY <1>1, <1>4 DEF AnyHandler
<1>6. PICK mine : mine = {q} \X (1..n)
  OBVIOUS
<1>7. IsFiniteSet(mine) /\ Cardinality(mine) = n
  BY <1>5, <1>6, PairsCount
<1>8. CASE handler[q].list = l
  <2>1. ASSUME NEW x PROVE x \in Added(l)' <=> x \in Added(l) /\ x \notin mine
    <3>1. x \in mine <=> \E i \in 1..n : x = <<q, i>>
      BY <1>6
    <3>2. x \in Added(l)' <=> \E p \in ListRequests : \E i \in 1..handler[p].done :
                                p # q /\ handler[p].list = l /\ x = <<p, i>>
      BY <1>1, <1>2, AddedFacts
    <3> QED BY <1>4, <1>8, <3>1, <3>2, AddedFacts
  <2>2. Added(l)' = Added(l) \ mine
    BY <2>1 DEF Added
  <2>3. mine \subseteq Added(l)
    BY <1>4, <1>6, <1>8, AddedFacts
  <2>4. Added(l) \cap mine = mine
    BY <2>3
  <2>5. IsFiniteSet(Added(l)')
        /\ Cardinality(Added(l)') = Cardinality(Added(l)) - Cardinality(mine)
    <3>1. IsFiniteSet(Added(l))
      BY DEF CounterInv
    <3>2. IsFiniteSet(Added(l) \ mine)
          /\ Cardinality(Added(l) \ mine) = Cardinality(Added(l)) - Cardinality(Added(l) \cap mine)
      BY <3>1, FS_Difference
    <3> QED BY <2>2, <2>4, <3>2
  <2>6. Cardinality(Added(l)) \in Nat
    BY CountFacts
  <2> QED BY <1>3, <1>4, <1>5, <1>7, <1>8, <2>5, <2>6
<1>9. CASE handler[q].list # l
  <2>1. ASSUME NEW x PROVE x \in Added(l)' <=> x \in Added(l)
    BY <1>1, <1>2, <1>9, AddedFacts
  <2>2. Added(l)' = Added(l)
    BY <2>1 DEF Added
  <2> QED BY <1>3, <1>9, <2>2, CountFacts DEF CounterInv
<1> QED BY <1>8, <1>9

\* The counter takes what its request has added or removed, and the list goes.
LEMMA CountingKeepsCount ==
    ASSUME AudienceInv, AudienceInv', CounterInv, NEW q \in ListRequests,
           CountAdditions(q) \/ UncountSubscriber(q) \/ DropList(q)
    PROVE  CounterInv'
<1>1. handler \in [ListRequests -> AnyHandler]
  BY DEF AudienceInv, HandlersSound
<1>2. PICK g : g = handler[q]
  OBVIOUS
<1>3. g \in AnyHandler /\ g.done \in Nat /\ AddingSound(g)
  BY <1>1, <1>2 DEF AnyHandler, CounterInv
<1>4. Moves(q, Ready) /\ UNCHANGED <<members, drifted>>
  BY DEF CountAdditions, UncountSubscriber, DropList
<1>5. \A p \in ListRequests : handler'[p] = IF p = q THEN Ready ELSE handler[p]
  BY <1>1, <1>4 DEF Moves
<1>6. \A p \in ListRequests : AddingSound(handler'[p])
  <2>1. AddingSound(Ready)
    BY DEF AddingSound, Ready
  <2> QED BY <1>5, <2>1 DEF CounterInv
<1>7. g.list \in Lists
  BY <1>2, <1>3 DEF CountAdditions, UncountSubscriber, DropList, Does, AnyHandler
<1>8. \A l \in Lists : Of(l)' = Of(l)
  BY <1>4 DEF Of
<1>9. \A l \in Lists :
        /\ Leaving(l)' = Leaving(l) \ {q} /\ IsFiniteSet(Added(l)')
        /\ Cardinality(Added(l)) = Cardinality(Added(l)') + (IF g.list = l THEN g.done ELSE 0)
  BY <1>2, <1>4, RequestEnds
<1>10. \A l \in Lists : Cardinality(Added(l)') \in Nat
  BY <1>9, FS_CardinalityType
<1>11. q \in Leaving(g.list) <=> g.pc = "uncount"
  BY <1>2 DEF Leaving, OnList, Does
<1>12. \A l \in Lists : l # g.list => q \notin Leaving(l)
  BY <1>2 DEF Leaving, OnList
<1>13. ASSUME NEW l \in Lists
       PROVE  /\ IsFiniteSet(Leaving(l)')
              /\ Cardinality(Leaving(l)') = IF l = g.list /\ g.pc = "uncount"
                                            THEN Cardinality(Leaving(l)) - 1
                                            ELSE Cardinality(Leaving(l))
  <2>1. IsFiniteSet(Leaving(l))
    BY DEF CounterInv
  <2>2. IsFiniteSet(Leaving(l) \ {q})
        /\ Cardinality(Leaving(l) \ {q}) = IF q \in Leaving(l) THEN Cardinality(Leaving(l)) - 1
                                           ELSE Cardinality(Leaving(l))
    BY <2>1, FS_RemoveElement
  <2> QED BY <1>9, <1>11, <1>12, <2>2
<1>14. lists' \in [Lists -> [live : BOOLEAN, count : Int]]
       /\ \A l \in Lists : /\ l # g.list => lists'[l] = lists[l]
                           /\ ~lists[l].live => ~lists'[l].live
                           /\ DropList(q) /\ l = g.list => ~lists'[l].live
                           /\ CountAdditions(q) /\ l = g.list /\ lists[l].live =>
                                lists'[l].count = lists[l].count + g.done
                           /\ UncountSubscriber(q) /\ l = g.list /\ lists[l].live =>
                                lists'[l].count = lists[l].count - 1
  <2>1. lists \in [Lists -> [live : BOOLEAN, count : Int]]
    BY DEF CounterInv
  <2>2. CASE CountAdditions(q)
    <3>1. /\ lists' = [lists EXCEPT ![g.list].count =
                         IF lists[g.list].live THEN @ + g.done ELSE @]
          /\ g.pc = "find"
      BY <1>2, <2>2 DEF CountAdditions, Counts, Does
    <3>2. ~DropList(q) /\ ~UncountSubscriber(q)
      BY <1>2, <3>1 DEF DropList, UncountSubscriber, Does
    <3> QED BY <1>3, <1>7, <2>1, <3>1, <3>2
  <2>3. CASE UncountSubscriber(q)
    <3>1. /\ lists' = [lists EXCEPT ![g.list].count = IF lists[g.list].live THEN @ + (-1) ELSE @]
          /\ g.pc = "uncount"
      BY <1>2, <2>3 DEF UncountSubscriber, Counts, Does
    <3>2. ~DropList(q) /\ ~CountAdditions(q)
      BY <1>2, <3>1 DEF DropList, CountAdditions, Does
    <3> QED BY <1>3, <1>7, <2>1, <3>1, <3>2
  <2>4. CASE DropList(q)
    <3>1. lists' = [lists EXCEPT ![g.list].live = FALSE] /\ g.pc = "drop"
      BY <1>2, <2>4 DEF DropList, Does
    <3>2. ~UncountSubscriber(q) /\ ~CountAdditions(q)
      BY <1>2, <3>1 DEF UncountSubscriber, CountAdditions, Does
    <3> QED BY <1>3, <1>7, <2>1, <3>1, <3>2
  <2> QED BY <2>2, <2>3, <2>4
<1>15. \A l \in Lists : Exempt(l) /\ ~Exempt(l)' => l = g.list /\ g.pc = "drop"
  BY <1>2, <1>4, <1>5, <1>14 DEF Exempt
<1>16. g.pc = "drop" <=> DropList(q)
  BY <1>2 DEF CountAdditions, UncountSubscriber, DropList, Does
<1>17. \A l \in Lists : ~lists'[l].live => Exempt(l)'
  BY DEF Exempt
<1>18. \A l \in Lists : ~lists[l].live => Exempt(l)
  BY DEF Exempt
<1>19. ASSUME NEW l \in Lists
       PROVE  \/ Exempt(l)'
              \/ lists'[l].count + Cardinality(Added(l)') - Cardinality(Leaving(l)')
                   = Cardinality(Of(l)')
  <2>1. CASE DropList(q) /\ l = g.list
    BY <1>14, <1>17, <2>1
  <2>2. CASE l # g.list
    BY <1>8, <1>9, <1>10, <1>13, <1>14, <1>15, <2>2, CountFacts
  <2>3. CASE CountAdditions(q) /\ l = g.list
    <3>1. g.pc = "find"
      BY <1>2, <2>3 DEF CountAdditions, Does
    <3> QED BY <1>3, <1>8, <1>9, <1>10, <1>13, <1>14, <1>15, <1>18, <2>3, <3>1, CountFacts
  <2>4. CASE UncountSubscriber(q) /\ l = g.list
    <3>1. g.pc = "uncount" /\ g.done = 0
      BY <1>2, <1>3, <2>4 DEF UncountSubscriber, Does, AddingSound
    <3> QED BY <1>8, <1>9, <1>10, <1>13, <1>14, <1>15, <1>18, <2>4, <3>1, CountFacts
  <2> QED BY <2>1, <2>2, <2>3, <2>4
<1>20. \A l \in Lists : IsFiniteSet(Of(l)')
  BY <1>8 DEF CounterInv
<1> QED BY <1>6, <1>9, <1>13, <1>14, <1>19, <1>20, InStep

\* A contact goes, and its counter is to follow; one that was there twice goes twice.
LEMMA RemovalKeepsCount ==
    ASSUME AudienceInv, AudienceInv', CounterInv, NEW q \in ListRequests, RemoveSubscriber(q)
    PROVE  CounterInv'
<1>1. handler \in [ListRequests -> AnyHandler]
  BY DEF AudienceInv, HandlersSound
<1>2. PICK l0 \in Lists, c \in Contacts :
        /\ lists[l0].live /\ On(l0, c) # {} /\ members' = members \ On(l0, c)
        /\ drifted' = IF Cardinality(On(l0, c)) > 1 THEN drifted \cup {l0} ELSE drifted
        /\ Moves(q, [Ready EXCEPT !.pc = "uncount", !.op = "remove", !.list = l0])
  BY DEF RemoveSubscriber
<1>3. handler[q].pc = "ready" /\ handler[q].done = 0 /\ lists' = lists
  BY DEF RemoveSubscriber, Arrives, Does, CounterInv, AddingSound
<1>4. PICK h : h = [Ready EXCEPT !.pc = "uncount", !.op = "remove", !.list = l0]
  OBVIOUS
<1>5. h \in AnyHandler /\ h.pc = "uncount" /\ h.done = 0 /\ h.list = l0
  BY <1>4 DEF Ready, AnyHandler, Nobody
<1>6. Moves(q, h)
  BY <1>2, <1>4
<1>7. \A p \in ListRequests : handler'[p] = IF p = q THEN h ELSE handler[p]
  BY <1>1, <1>6 DEF Moves
<1>8. \A p \in ListRequests : AddingSound(handler'[p])
  BY <1>5, <1>7 DEF CounterInv, AddingSound
<1>9. \A l \in Lists : Added(l)' = Added(l)
  BY <1>1, <1>3, <1>5, <1>6, AddedStay
<1>10. ASSUME NEW l \in Lists, l # l0 PROVE Of(l)' = Of(l) /\ Leaving(l)' = Leaving(l)
  <2>1. Of(l)' = Of(l)
    BY <1>2, <1>10 DEF Of, On
  <2>2. Leaving(l)' = Leaving(l)
    BY <1>3, <1>5, <1>7, <1>10 DEF Leaving, OnList, Does
  <2> QED BY <2>1, <2>2
<1>11. Leaving(l0)' = Leaving(l0) \cup {q} /\ q \notin Leaving(l0)
  BY <1>3, <1>5, <1>7 DEF Leaving, OnList, Does
<1>12. IsFiniteSet(Leaving(l0)') /\ Cardinality(Leaving(l0)') = Cardinality(Leaving(l0)) + 1
  BY <1>11, FS_AddElement DEF CounterInv
<1>13. \A l \in Lists : Exempt(l) => Exempt(l)'
  BY <1>2, <1>3, <1>7 DEF Exempt
<1>14. Of(l0)' = Of(l0) \ On(l0, c) /\ On(l0, c) \subseteq Of(l0)
  BY <1>2 DEF Of, On
<1>15. IsFiniteSet(Of(l0)) /\ IsFiniteSet(Of(l0)') /\ IsFiniteSet(On(l0, c))
  BY <1>14, FS_Subset, FS_Difference DEF CounterInv
<1>16. Exempt(l0)' \/ Cardinality(Of(l0)') = Cardinality(Of(l0)) - 1
  <2>1. CASE Cardinality(On(l0, c)) > 1
    BY <1>2, <2>1 DEF Exempt
  <2>2. CASE ~(Cardinality(On(l0, c)) > 1)
    <3>1. Cardinality(On(l0, c)) \in Nat /\ Cardinality(On(l0, c)) # 0
      BY <1>2, <1>15, FS_CardinalityType, FS_EmptySet
    <3>2. Cardinality(On(l0, c)) = 1
      BY <2>2, <3>1
    <3>3. PICK m : On(l0, c) = {m}
      BY <1>15, <3>2, FS_Singleton
    <3>4. m \in Of(l0) /\ Of(l0)' = Of(l0) \ {m}
      BY <1>14, <3>3
    <3>5. Cardinality(Of(l0) \ {m}) = Cardinality(Of(l0)) - 1
      BY <1>15, <3>4, FS_RemoveElement
    <3> QED BY <3>4, <3>5
  <2> QED BY <2>1, <2>2
<1>17. ASSUME NEW l \in Lists
       PROVE  /\ IsFiniteSet(Of(l)') /\ IsFiniteSet(Added(l)') /\ IsFiniteSet(Leaving(l)')
              /\ \/ Exempt(l)'
                 \/ lists'[l].count + Cardinality(Added(l)') - Cardinality(Leaving(l)')
                      = Cardinality(Of(l)')
  <2>1. CASE l = l0
    BY <1>3, <1>9, <1>12, <1>13, <1>15, <1>16, <2>1, CountFacts DEF CounterInv
  <2>2. CASE l # l0
    BY <1>3, <1>9, <1>10, <1>13, <2>2, CountFacts DEF CounterInv
  <2> QED BY <2>1, <2>2
<1>18. lists' \in [Lists -> [live : BOOLEAN, count : Int]]
  BY <1>3 DEF CounterInv
<1> QED BY <1>8, <1>17, <1>18, InStep

\* The rows of a list go before it; until it goes, its counter is of no rows.
LEMMA DeletionKeepsCount ==
    ASSUME AudienceInv, AudienceInv', CounterInv, NEW q \in ListRequests, DeleteList(q)
    PROVE  CounterInv'
<1>1. PICK l0 \in Lists :
        /\ members' = members \ Of(l0)
        /\ Moves(q, [Ready EXCEPT !.pc = "drop", !.op = "delete", !.list = l0])
  BY DEF DeleteList
<1>2. handler[q].pc = "ready" /\ handler[q].done = 0 /\ UNCHANGED <<lists, drifted>>
  BY DEF DeleteList, Arrives, Does, CounterInv, AddingSound
<1>3. PICK h : h = [Ready EXCEPT !.pc = "drop", !.op = "delete", !.list = l0]
  OBVIOUS
<1>4. h \in AnyHandler /\ h.pc = "drop" /\ h.done = 0 /\ h.list = l0 /\ AddingSound(h)
  BY <1>3 DEF Ready, AnyHandler, Nobody, AddingSound
<1>5. Moves(q, h)
  BY <1>1, <1>3
<1>6. Exempt(l0)'
  <2>1. handler'[q] = h
    BY <1>5 DEF Moves, AudienceInv, HandlersSound
  <2> QED BY <1>4, <2>1 DEF Exempt
<1>7. \A l \in Lists : l # l0 => Of(l)' = Of(l)
  BY <1>1 DEF Of
<1>8. Of(l0)' = {}
  BY <1>1 DEF Of
<1>9. \A l \in Lists : IsFiniteSet(Of(l)')
  BY <1>7, <1>8, FS_EmptySet DEF CounterInv
<1>10. \A l \in Lists : Exempt(l)' \/ Cardinality(Of(l)') = Cardinality(Of(l))
  BY <1>6, <1>7
<1> QED BY <1>2, <1>4, <1>5, <1>9, <1>10, GoingOn

\* A row that is unsubscribed stays a row.
LEMMA UnsubscribeKeepsCount ==
    ASSUME AudienceInv, AudienceInv', CounterInv, UnsubscribeFromList
    PROVE  CounterInv'
<1>1. PICK l0 \in Lists, c \in Contacts :
        members' = {IF m \in On(l0, c) THEN [m EXCEPT !.status = "unsubscribed"] ELSE m :
                      m \in members}
  BY DEF UnsubscribeFromList
<1>2. UNCHANGED <<lists, handler, drifted>>
  BY DEF UnsubscribeFromList
<1>3. PICK new : new = [m \in members |-> IF m \in On(l0, c) THEN [m EXCEPT !.status = "unsubscribed"]
                                          ELSE m]
  OBVIOUS
<1>4. members \subseteq AnyMember /\ \A m, n \in members : m.id = n.id => m = n
  BY DEF AudienceInv, RowsUnique
<1>5. members' = {new[m] : m \in members}
  BY <1>1, <1>3
<1>6. \A m \in members : new[m].id = m.id /\ new[m].list = m.list
  BY <1>3, <1>4 DEF AnyMember
<1>7. ASSUME NEW l \in Lists
      PROVE  IsFiniteSet(Of(l)') /\ Cardinality(Of(l)') = Cardinality(Of(l))
  <2>1. PICK f : f = [m \in Of(l) |-> new[m]]
    OBVIOUS
  <2>2. f \in [Of(l) -> Of(l)']
    BY <1>5, <1>6, <2>1 DEF Of
  <2>3. \A m, n \in Of(l) : f[m] = f[n] => m = n
    BY <1>4, <1>6, <2>1 DEF Of
  <2>4. \A y \in Of(l)' : \E m \in Of(l) : f[m] = y
    BY <1>5, <1>6, <2>1 DEF Of
  <2>5. f \in Bijection(Of(l), Of(l)')
    BY <2>2, <2>3, <2>4 DEF Bijection, Injection, Surjection, IsInjective
  <2>6. IsFiniteSet(Of(l)) /\ ExistsBijection(Of(l), Of(l)')
    BY <2>5 DEF CounterInv, ExistsBijection
  <2> QED BY <2>6, FS_Bijection
<1>8. \A l \in Lists : Added(l)' = Added(l) /\ Leaving(l)' = Leaving(l) /\ Exempt(l)' = Exempt(l)
  BY <1>2 DEF Added, Leaving, OnList, Does, Exempt
<1>9. ASSUME NEW l \in Lists
      PROVE  \/ Exempt(l)'
             \/ lists'[l].count + Cardinality(Added(l)') - Cardinality(Leaving(l)')
                  = Cardinality(Of(l)')
  BY <1>2, <1>7, <1>8, CountFacts
<1>10. \A l \in Lists : IsFiniteSet(Added(l)') /\ IsFiniteSet(Leaving(l)')
  BY <1>8 DEF CounterInv
<1>11. /\ lists' \in [Lists -> [live : BOOLEAN, count : Int]]
       /\ \A q \in ListRequests : AddingSound(handler'[q])
  BY <1>2 DEF CounterInv
<1> QED BY <1>7, <1>9, <1>10, <1>11, InStep

\* Whom the restart cuts off leaves the counter of its list behind.
LEMMA RestartKeepsCount ==
    ASSUME AudienceInv, CounterInv, AudienceRestart
    PROVE  CounterInv'
<1>1. handler \in [ListRequests -> AnyHandler]
  BY DEF AudienceInv, HandlersSound
<1>2. /\ drifted' = drifted \cup {handler[q].list : q \in {p \in ListRequests :
                       handler[p].done > 0 \/ handler[p].pc \in {"uncount", "drop"}}}
      /\ handler' = [q \in ListRequests |-> Ready]
      /\ UNCHANGED <<lists, members>>
  BY DEF AudienceRestart
<1>3. Ready.pc = "ready" /\ Ready.done = 0
  BY DEF Ready
<1>4. \A q \in ListRequests : AddingSound(handler'[q])
  BY <1>2, <1>3 DEF AddingSound
<1>5. \A l \in Lists : Of(l)' = Of(l)
  BY <1>2 DEF Of
<1>6. ASSUME NEW l PROVE Added(l)' = {} /\ Leaving(l)' = {}
  <2>1. \A q \in ListRequests : handler'[q] = Ready
    BY <1>2
  <2>2. \A q \in ListRequests : 1..handler'[q].done = {}
    BY <1>3, <2>1
  <2>3. \A x : x \notin Added(l)'
    BY <2>2, AddedFacts
  <2>4. Leaving(l)' = {}
    BY <1>3, <2>1 DEF Leaving, OnList, Does
  <2> QED BY <2>3, <2>4 DEF Added
<1>7. ASSUME NEW l \in Lists, ~Exempt(l)'
      PROVE  ~Exempt(l) /\ Added(l) = {} /\ Leaving(l) = {}
  <2>1. l \notin drifted' /\ lists[l].live
    BY <1>2, <1>7 DEF Exempt
  <2>2. \A q \in ListRequests : handler[q].list = l =>
          ~(handler[q].done > 0) /\ handler[q].pc \notin {"uncount", "drop"}
    BY <1>2, <2>1
  <2>3. \A q \in ListRequests : handler[q].list = l => 1..handler[q].done = {}
    <3>1. \A q \in ListRequests : handler[q].done \in Nat
      BY <1>1 DEF AnyHandler
    <3> QED BY <2>2, <3>1
  <2>4. \A x : x \notin Added(l)
    BY <2>3, AddedFacts
  <2>5. Leaving(l) = {}
    BY <2>2 DEF Leaving, OnList, Does
  <2>6. ~Exempt(l)
    BY <1>2, <2>1, <2>2 DEF Exempt
  <2> QED BY <2>4, <2>5, <2>6 DEF Added
<1>8. ASSUME NEW l \in Lists
      PROVE  /\ IsFiniteSet(Of(l)') /\ IsFiniteSet(Added(l)') /\ IsFiniteSet(Leaving(l)')
             /\ \/ Exempt(l)'
                \/ lists'[l].count + Cardinality(Added(l)') - Cardinality(Leaving(l)')
                     = Cardinality(Of(l)')
  <2>1. IsFiniteSet({}) /\ Cardinality({}) = 0
    BY FS_EmptySet
  <2>2. IsFiniteSet(Of(l)') /\ IsFiniteSet(Added(l)') /\ IsFiniteSet(Leaving(l)')
    BY <1>5, <1>6, <2>1 DEF CounterInv
  <2>3. CASE Exempt(l)'
    BY <2>2, <2>3
  <2>4. CASE ~Exempt(l)'
    <3>1. ~Exempt(l) /\ Added(l) = {} /\ Leaving(l) = {}
      BY <1>7, <2>4
    <3>2. lists'[l].count + Cardinality(Added(l)') - Cardinality(Leaving(l)') = Cardinality(Of(l)')
      BY <1>2, <1>5, <1>6, <3>1, CountFacts
    <3> QED BY <2>2, <3>2
  <2> QED BY <2>3, <2>4
<1>9. lists' \in [Lists -> [live : BOOLEAN, count : Int]]
  BY <1>2 DEF CounterInv
<1> QED BY <1>4, <1>8, <1>9, InStep

LEMMA CounterInvInit == AudienceInit => CounterInv
<1> SUFFICES ASSUME AudienceInit PROVE CounterInv
  OBVIOUS
<1>1. /\ lists = [l \in Lists |-> [live |-> TRUE, count |-> 0]] /\ members = {}
      /\ handler = [q \in ListRequests |-> Ready]
  BY DEF AudienceInit
<1>2. Ready.pc = "ready" /\ Ready.done = 0
  BY DEF Ready
<1>3. \A l : Of(l) = {} /\ Leaving(l) = {}
  BY <1>1, <1>2 DEF Of, Leaving, OnList, Does
<1>4. \A l : Added(l) = {}
  <2>1. \A q \in ListRequests : 1..handler[q].done = {}
    BY <1>1, <1>2
  <2>2. \A l, x : x \notin Added(l)
    BY <2>1, AddedFacts
  <2> QED BY <2>2 DEF Added
<1>5. IsFiniteSet({}) /\ Cardinality({}) = 0
  BY FS_EmptySet
<1>6. \A l \in Lists : lists[l].count = 0
  BY <1>1
<1>7. lists \in [Lists -> [live : BOOLEAN, count : Int]]
  BY <1>1
<1>8. \A q \in ListRequests : AddingSound(handler[q])
  BY <1>1, <1>2 DEF AddingSound
<1>9. CounterFollowsRows
  <2>1. ASSUME NEW l \in Lists PROVE lists[l].count + OnTheWay(l) = Cardinality(Of(l))
    <3>1. OnTheWay(l) = 0
      BY <1>3, <1>4, <1>5 DEF OnTheWay
    <3> QED BY <1>3, <1>5, <1>6, <3>1
  <2> QED BY <2>1 DEF CounterFollowsRows
<1> QED BY <1>3, <1>4, <1>5, <1>7, <1>8, <1>9 DEF CounterInv

LEMMA CounterInvStep ==
    AudienceInv /\ AudienceInv' /\ CounterInv /\ [AudienceNext]_audienceVars => CounterInv'
<1> SUFFICES ASSUME AudienceInv, AudienceInv', CounterInv, [AudienceNext]_audienceVars
             PROVE  CounterInv'
  OBVIOUS
<1>1. CASE UNCHANGED audienceVars
  <2>1. UNCHANGED <<lists, members, handler, drifted>>
    BY <1>1 DEF audienceVars
  <2>2. \A l \in Lists : /\ Of(l)' = Of(l) /\ Added(l)' = Added(l) /\ Leaving(l)' = Leaving(l)
                         /\ Exempt(l) => Exempt(l)'
    BY <2>1 DEF Of, Added, Leaving, OnList, Does, Exempt
  <2>3. ASSUME NEW l \in Lists
        PROVE  \/ Exempt(l)'
               \/ lists'[l].count + Cardinality(Added(l)') - Cardinality(Leaving(l)')
                    = Cardinality(Of(l)')
    BY <2>1, <2>2, CountFacts
  <2>4. \A l \in Lists : IsFiniteSet(Of(l)') /\ IsFiniteSet(Added(l)') /\ IsFiniteSet(Leaving(l)')
    BY <2>2 DEF CounterInv
  <2>5. /\ lists' \in [Lists -> [live : BOOLEAN, count : Int]]
        /\ \A q \in ListRequests : AddingSound(handler'[q])
    BY <2>1 DEF CounterInv
  <2> QED BY <2>3, <2>4, <2>5, InStep
<1>2. ASSUME NEW q \in ListRequests, Addition(q) PROVE CounterInv'
  BY <1>2, LookingKeepsCount, ReviveKeepsCount, InsertKeepsCount, CountingKeepsCount DEF Addition
<1> QED BY <1>1, <1>2, RemovalKeepsCount, CountingKeepsCount, DeletionKeepsCount,
           UnsubscribeKeepsCount, RestartKeepsCount DEF AudienceNext

(* The counter of a list is its number of rows, but for what the requests  *)
(* in progress have still to add to it or take away, for every number of   *)
(* lists, addresses, requests and restarts; where it is not, the bot added *)
(* a row, a contact was there twice, a removed row was saved again, or a   *)
(* restart came between (lists.go, anike_actions.go).                      *)
THEOREM CountersAlwaysFollow == AudienceSpec => []CounterFollowsRows
<1>1. AudienceInit => AudienceInv /\ CounterInv
  BY AudienceInvInit, CounterInvInit
<1>2. AudienceInv /\ CounterInv /\ [AudienceNext]_audienceVars => AudienceInv' /\ CounterInv'
  BY AudienceInvStep, CounterInvStep
<1>3. CounterInv => CounterFollowsRows
  BY DEF CounterInv
<1> QED BY <1>1, <1>2, <1>3, PTL DEF AudienceSpec

-----------------------------------------------------------------------------
(* SenderSetup *)

WorkStates == {"idle", "line", "domain", "sender", "private", "public", "user", "account",
               "save domain", "save sender", "update", "ensure", "remove", "delete", "apply"}
OnOnePart == {"domain", "sender", "private", "public", "user", "account", "update", "ensure",
              "remove", "delete"}

AnyWorker ==
    {h \in [pc : WorkStates,
            op : {"none", "import", "setup", "generate", "save", "delete", "apply"},
            todo : SUBSET Parts, part : Parts \cup {"none"},
            domain : Nat, number : Nat, alone : BOOLEAN] :
       h.pc \in OnOnePart => h.part \in Parts}

SetupSound ==
    /\ domain \in Nat /\ lastId \in Nat /\ senderRows \subseteq Parts \X Nat
    /\ keys \in [Parts -> [private : Nat, public : Nat]] /\ accounts \in [Parts -> Nat]
    /\ worker \in [SetupWorkers -> AnyWorker]

KeysPaired ==
    \A p \in Parts : keys[p].private = keys[p].public \/ p \in torn \/ Working("public", p)

\* A generation that nobody has met writes the second file of the pair whose
\* first file it wrote.
PublicSound ==
    \A w \in SetupWorkers : In(w, "public") /\ worker[w].alone =>
        keys[worker[w].part].private = worker[w].number

\* The user that has been added for an account is there, or its loss is known.
AccountSound ==
    \A w \in SetupWorkers : In(w, "account") => worker[w].part \in users \cup estranged

\* A request that has removed the user of an account is going to delete that account.
Deleting(p) ==
    \E w \in SetupWorkers : In(w, "delete") /\ worker[w].part = p /\ worker[w].number = accounts[p]

UsersPaired ==
    \A p \in Parts : accounts[p] = 0 \/ p \in users \cup estranged
                       \/ Working("ensure", p) \/ Deleting(p)

SetupInv == SetupSound /\ KeysPaired /\ PublicSound /\ AccountSound /\ UsersPaired

LEMMA SetupInvInit == SetupInit => SetupInv
<1> SUFFICES ASSUME SetupInit PROVE SetupInv
  OBVIOUS
<1>1. Idle \in AnyWorker /\ Idle.pc = "idle"
  BY DEF Idle, AnyWorker, WorkStates, OnOnePart
<1>2. SetupSound
  BY <1>1 DEF SetupInit, SetupSound
<1>3. KeysPaired /\ UsersPaired
  BY DEF SetupInit, KeysPaired, UsersPaired
<1>4. PublicSound /\ AccountSound
  BY <1>1 DEF SetupInit, PublicSound, AccountSound, In
<1> QED BY <1>2, <1>3, <1>4 DEF SetupInv

\* A worker takes a step that touches neither files nor accounts nor users.
LEMMA WorkKeeps ==
    ASSUME SetupInv, NEW w \in SetupWorkers, NEW g \in AnyWorker, Sets(w, g),
           UNCHANGED <<keys, accounts, users, torn, estranged>>,
           domain' \in Nat, lastId' \in Nat, senderRows' \subseteq Parts \X Nat,
           worker[w].pc \notin {"public", "ensure", "delete"},
           g.pc # "public", g.pc = "account" => g.part \in users \cup estranged
    PROVE  SetupInv'
<1>1. worker \in [SetupWorkers -> AnyWorker] /\ worker' = [worker EXCEPT ![w] = g]
  BY DEF SetupInv, SetupSound, Sets
<1>2. SetupSound'
  BY <1>1 DEF SetupInv, SetupSound
<1>3. \A v \in SetupWorkers : v = w \/ worker'[v] = worker[v]
  BY <1>1
<1>4. worker'[w] = g
  BY <1>1
<1>5. KeysPaired'
  <2>1. \A p \in Parts : Working("public", p) => Working("public", p)'
    BY <1>3 DEF Working, In
  <2> QED BY <2>1 DEF SetupInv, KeysPaired
<1>6. PublicSound' /\ AccountSound'
  BY <1>3, <1>4 DEF SetupInv, PublicSound, AccountSound, In
<1>7. UsersPaired'
  <2>1. \A p \in Parts : (Working("ensure", p) => Working("ensure", p)') /\ (Deleting(p) => Deleting(p)')
    BY <1>3 DEF Working, Deleting, In
  <2> QED BY <2>1 DEF SetupInv, UsersPaired
<1> QED BY <1>2, <1>5, <1>6, <1>7 DEF SetupInv

LEMMA WorkerFields ==
    /\ Idle \in AnyWorker /\ Idle.pc = "idle" /\ Idle.part = "none" /\ Idle.number = 0
    /\ \A h \in AnyWorker :
         /\ h.pc \in WorkStates /\ h.todo \in SUBSET Parts /\ h.domain \in Nat /\ h.number \in Nat
         /\ h.pc \in OnOnePart => h.part \in Parts
  BY DEF Idle, AnyWorker, WorkStates, OnOnePart

LEMMA BeginKeeps ==
    ASSUME SetupInv, NEW w \in SetupWorkers, NEW g \in AnyWorker, Begins(w, g),
           UNCHANGED <<rowsOfSetup, keys, mailboxVars, lastId, historyOfSetup>>,
           g.pc # "public", g.pc # "account"
    PROVE  SetupInv'
<1>1. /\ UNCHANGED <<keys, accounts, users, torn, estranged>>
      /\ domain' \in Nat /\ lastId' \in Nat /\ senderRows' \subseteq Parts \X Nat
  BY DEF SetupInv, SetupSound, rowsOfSetup, mailboxVars, historyOfSetup
<1>2. Sets(w, g) /\ worker[w].pc \notin {"public", "ensure", "delete"}
  BY DEF Begins, In
<1> QED BY <1>1, <1>2, WorkKeeps

LEMMA RequestsBegin ==
    ASSUME SetupInv, NEW w \in SetupWorkers,
           \/ BeginImport(w) \/ BeginSetup(w) \/ BeginGenerate(w)
           \/ BeginUpdateDomain(w) \/ BeginAddSender(w) \/ BeginUpdateSender(w)
           \/ BeginUpdate(w) \/ BeginDelete(w) \/ BeginApplyAll(w)
    PROVE  SetupInv'
<1>1. domain \in Nat /\ senderRows \subseteq Parts \X Nat /\ accounts \in [Parts -> Nat]
      /\ \A d : PartsUnder(d) \subseteq Parts
  BY DEF SetupInv, SetupSound, PartsUnder
<1>2. UNCHANGED <<rowsOfSetup, keys, mailboxVars, lastId, historyOfSetup>>
  BY DEF BeginImport, BeginSetup, BeginGenerate, BeginUpdateDomain, BeginAddSender,
     BeginUpdateSender, BeginUpdate, BeginDelete, BeginApplyAll
<1>3. PICK g \in AnyWorker : Begins(w, g) /\ g.pc # "public" /\ g.pc # "account"
  <2> USE DEF Idle, AnyWorker, WorkStates, OnOnePart
  <2>1. CASE BeginImport(w)
    <3>1. PICK S \in SUBSET Parts : Begins(w, [Idle EXCEPT !.pc = "line", !.op = "import", !.todo = S])
      BY <2>1 DEF BeginImport
    <3>2. [Idle EXCEPT !.pc = "line", !.op = "import", !.todo = S] \in AnyWorker
      OBVIOUS
    <3> QED BY <3>1, <3>2
  <2>2. CASE BeginSetup(w)
    <3>1. PICK p \in Parts : Begins(w, [Idle EXCEPT !.pc = "private", !.op = "setup", !.part = p])
      BY <1>1, <2>2 DEF BeginSetup
    <3>2. [Idle EXCEPT !.pc = "private", !.op = "setup", !.part = p] \in AnyWorker
      OBVIOUS
    <3> QED BY <3>1, <3>2
  <2>3. CASE BeginGenerate(w)
    <3>1. PICK S \in SUBSET Parts : Begins(w, [Idle EXCEPT !.pc = "line", !.op = "generate", !.todo = S])
      BY <1>1, <2>3 DEF BeginGenerate
    <3>2. [Idle EXCEPT !.pc = "line", !.op = "generate", !.todo = S] \in AnyWorker
      OBVIOUS
    <3> QED BY <3>1, <3>2
  <2>4. CASE BeginUpdateDomain(w)
    <3>1. PICK S \in SUBSET Parts :
            Begins(w, [Idle EXCEPT !.pc = "save domain", !.domain = domain, !.todo = S])
      BY <1>1, <2>4 DEF BeginUpdateDomain
    <3>2. [Idle EXCEPT !.pc = "save domain", !.domain = domain, !.todo = S] \in AnyWorker
      BY <1>1
    <3> QED BY <3>1, <3>2
  <2>5. CASE BeginAddSender(w)
    <3>1. PICK p \in Parts : Begins(w, [Idle EXCEPT !.pc = "sender", !.part = p, !.domain = domain])
      BY <2>5 DEF BeginAddSender
    <3>2. [Idle EXCEPT !.pc = "sender", !.part = p, !.domain = domain] \in AnyWorker
      BY <1>1
    <3> QED BY <3>1, <3>2
  <2>6. CASE BeginUpdateSender(w)
    <3>1. PICK q \in Parts, d \in Nat, p \in Parts :
            Begins(w, [Idle EXCEPT !.pc = "save sender", !.part = q, !.domain = d, !.todo = {p}])
      BY <1>1, <2>6 DEF BeginUpdateSender
    <3>2. [Idle EXCEPT !.pc = "save sender", !.part = q, !.domain = d, !.todo = {p}] \in AnyWorker
      OBVIOUS
    <3> QED BY <3>1, <3>2
  <2>7. CASE BeginUpdate(w) \/ BeginDelete(w)
    <3>1. PICK p \in Parts, n \in Nat, op \in {"save", "delete"}, pc \in {"update", "remove"} :
            Begins(w, [Idle EXCEPT !.pc = pc, !.op = op, !.part = p, !.number = n])
      BY <1>1, <2>7 DEF BeginUpdate, BeginDelete
    <3>2. [Idle EXCEPT !.pc = pc, !.op = op, !.part = p, !.number = n] \in AnyWorker
      OBVIOUS
    <3> QED BY <3>1, <3>2
  <2>8. CASE BeginApplyAll(w)
    <3>1. PICK S \in SUBSET Parts : Begins(w, [Idle EXCEPT !.pc = "apply", !.op = "apply", !.todo = S])
      BY <2>8 DEF BeginApplyAll
    <3>2. [Idle EXCEPT !.pc = "apply", !.op = "apply", !.todo = S] \in AnyWorker
      OBVIOUS
    <3> QED BY <3>1, <3>2
  <2> QED BY <2>1, <2>2, <2>3, <2>4, <2>5, <2>6, <2>7, <2>8
<1> QED BY <1>2, <1>3, BeginKeeps

LEMMA OnwardsIsWork ==
    ASSUME NEW w \in SetupWorkers, worker[w] \in AnyWorker
    PROVE  Onwards(w) \in AnyWorker /\ Onwards(w).pc \in {"idle", "line"}
<1>1. CASE Onwards(w) = Idle
  BY <1>1, WorkerFields
<1>2. CASE Onwards(w) = [worker[w] EXCEPT !.pc = "line", !.part = "none", !.number = 0, !.alone = TRUE]
  <2> DEFINE h == worker[w]
             g == [h EXCEPT !.pc = "line", !.part = "none", !.number = 0, !.alone = TRUE]
  <2>1. g \in AnyWorker /\ g.pc = "line"
    <3>1. h \in AnyWorker
      OBVIOUS
    <3> HIDE DEF h
    <3> QED BY <3>1 DEF AnyWorker, WorkStates, OnOnePart
  <2> QED BY <1>2, <2>1
<1> QED BY <1>1, <1>2 DEF Onwards

LEMMA RowStepsKeep ==
    ASSUME SetupInv, NEW w \in SetupWorkers,
           NextLine(w) \/ CreateDomain(w) \/ CreateSenderRow(w) \/ SaveDomain(w) \/ SaveSender(w)
    PROVE  SetupInv'
<1> DEFINE h == worker[w]
<1>1. /\ worker \in [SetupWorkers -> AnyWorker] /\ h \in AnyWorker
      /\ domain \in Nat /\ lastId \in Nat /\ senderRows \subseteq Parts \X Nat
  BY DEF SetupInv, SetupSound
<1>2. /\ h.pc \in WorkStates /\ h.todo \in SUBSET Parts /\ h.domain \in Nat
      /\ h.pc \in OnOnePart => h.part \in Parts
  BY <1>1, WorkerFields
<1>3. UNCHANGED <<keys, accounts, users, torn, estranged>>
  BY DEF NextLine, CreateDomain, CreateSenderRow, SaveDomain, SaveSender, mailboxVars, historyOfSetup
<1>4. domain' \in Nat /\ lastId' \in Nat /\ senderRows' \subseteq Parts \X Nat
  <2>1. CASE NextLine(w)
    BY <1>1, <2>1 DEF NextLine, rowsOfSetup
  <2>2. CASE CreateDomain(w)
    BY <1>1, <2>2 DEF CreateDomain, NewId
  <2>3. CASE CreateSenderRow(w)
    BY <1>1, <1>2, <2>3 DEF CreateSenderRow, In, OnOnePart
  <2>4. CASE SaveDomain(w)
    <3>1. domain' \in {0, domain, h.domain} /\ lastId' = lastId
          /\ senderRows' = senderRows \cup (h.todo \X {h.domain})
      BY <2>4 DEF SaveDomain
    <3> HIDE DEF h
    <3> QED BY <1>1, <1>2, <3>1
  <2>5. CASE SaveSender(w)
    BY <1>1, <1>2, <2>5 DEF SaveSender
  <2> QED BY <2>1, <2>2, <2>3, <2>4, <2>5
<1>5. h.pc \notin {"public", "ensure", "delete"}
  BY DEF NextLine, CreateDomain, CreateSenderRow, SaveDomain, SaveSender, In
<1>6. PICK g \in AnyWorker : Sets(w, g) /\ g.pc # "public" /\ g.pc # "account"
  <2> USE DEF AnyWorker, WorkStates, OnOnePart
  <2>1. CASE Sets(w, Idle)
    BY <2>1, WorkerFields
  <2>2. CASE NextLine(w) /\ ~Sets(w, Idle)
    <3>1. PICK p \in h.todo : \E pc \in {"private", "sender", "domain"}, d \in {h.domain, domain} :
            Sets(w, [h EXCEPT !.todo = @ \ {p}, !.part = p, !.pc = pc, !.domain = d])
      <4>0. h = [h EXCEPT !.domain = h.domain]
        BY <1>1
      <4>1. PICK p \in h.todo :
              LET line == [h EXCEPT !.todo = @ \ {p}, !.part = p]
              IN  \/ Sets(w, [line EXCEPT !.pc = "private"])
                  \/ Sets(w, [line EXCEPT !.pc = "sender"])
                  \/ Sets(w, [line EXCEPT !.pc = "sender", !.domain = domain])
                  \/ Sets(w, [line EXCEPT !.pc = "domain"])
        BY <2>2 DEF NextLine
      <4>2. \A pc \in {"private", "sender", "domain"} :
              [h EXCEPT !.todo = @ \ {p}, !.part = p, !.pc = pc, !.domain = h.domain]
                = [[h EXCEPT !.todo = @ \ {p}, !.part = p] EXCEPT !.pc = pc]
        BY <1>1
      <4>3. [h EXCEPT !.todo = @ \ {p}, !.part = p, !.pc = "sender", !.domain = domain]
              = [[h EXCEPT !.todo = @ \ {p}, !.part = p] EXCEPT !.pc = "sender", !.domain = domain]
        BY <1>1
      <4> HIDE DEF h
      <4> QED BY <4>1, <4>2, <4>3
    <3>2. PICK pc \in {"private", "sender", "domain"}, d \in {h.domain, domain} :
            Sets(w, [h EXCEPT !.todo = @ \ {p}, !.part = p, !.pc = pc, !.domain = d])
      BY <3>1
    <3>3. [h EXCEPT !.todo = @ \ {p}, !.part = p, !.pc = pc, !.domain = d] \in AnyWorker
      BY <1>1, <1>2
    <3> HIDE DEF h
    <3> QED BY <1>1, <3>2, <3>3
  <2>3. CASE CreateDomain(w)
    <3>1. lastId' \in Nat
      BY <1>4
    <3>2. [h EXCEPT !.pc = "sender", !.domain = lastId'] \in AnyWorker
          /\ [h EXCEPT !.pc = "line", !.part = "none"] \in AnyWorker
      BY <1>1, <1>2, <2>3, <3>1 DEF CreateDomain, In
    <3>3. [h EXCEPT !.pc = "sender", !.domain = lastId'].pc = "sender"
          /\ [h EXCEPT !.pc = "line", !.part = "none"].pc = "line"
      BY <1>1
    <3>4. \/ Sets(w, [h EXCEPT !.pc = "sender", !.domain = lastId'])
          \/ Sets(w, [h EXCEPT !.pc = "line", !.part = "none"])
      BY <2>3 DEF CreateDomain
    <3> HIDE DEF h
    <3> QED BY <3>2, <3>3, <3>4
  <2>4. CASE CreateSenderRow(w) /\ ~Sets(w, Idle)
    <3>1. [h EXCEPT !.pc = "private"] \in AnyWorker
      BY <1>1, <1>2, <2>4 DEF CreateSenderRow, In
    <3> QED BY <1>1, <2>4, <3>1 DEF CreateSenderRow, To
  <2> QED BY <2>1, <2>2, <2>3, <2>4 DEF SaveDomain, SaveSender
<1> QED BY <1>3, <1>4, <1>5, <1>6, WorkKeeps

LEMMA KeyStepsKeep ==
    ASSUME SetupInv, NEW w \in SetupWorkers, GenerateDKIMKey(w)
    PROVE  SetupInv'
<1> DEFINE h == worker[w]
           p == h.part
           KeyPair == [private : Nat, public : Nat]
<1>1. /\ worker \in [SetupWorkers -> AnyWorker] /\ h \in AnyWorker
      /\ domain \in Nat /\ lastId \in Nat /\ senderRows \subseteq Parts \X Nat
      /\ keys \in [Parts -> KeyPair] /\ accounts \in [Parts -> Nat]
  BY DEF SetupInv, SetupSound
<1>2. h.number \in Nat /\ h.pc \in {"private", "public"} /\ p \in Parts
  BY <1>1, WorkerFields DEF GenerateDKIMKey, WritePrivateKey, WritePublicKey, PublicKeyFails, In,
     OnOnePart
<1>3. UNCHANGED <<domain, senderRows, accounts, users, estranged>>
  BY DEF GenerateDKIMKey, WritePrivateKey, WritePublicKey, PublicKeyFails, rowsOfSetup, mailboxVars,
     historyOfSetup
<1>4. ASSUME worker' \in [SetupWorkers -> AnyWorker],
             \A v \in SetupWorkers : /\ worker'[v].pc = worker[v].pc \/ v = w
                                     /\ worker'[v].part = worker[v].part \/ v = w
                                     /\ worker'[v].number = worker[v].number \/ v = w,
             worker'[w].pc # "account"
      PROVE  AccountSound' /\ UsersPaired'
  <2>1. AccountSound'
    BY <1>3, <1>4 DEF SetupInv, AccountSound, In
  <2>2. \A x \in Parts : (Working("ensure", x) => Working("ensure", x)') /\ (Deleting(x) => Deleting(x)')
    BY <1>2, <1>3, <1>4 DEF Working, Deleting, In
  <2>3. UsersPaired'
    BY <1>3, <2>2 DEF SetupInv, UsersPaired
  <2> QED BY <2>1, <2>3
<1>5. CASE WritePrivateKey(w)
  <2> DEFINE meets == Working("public", p)
             n == lastId'
             met(v) == [worker[v] EXCEPT !.alone = FALSE]
             g == [h EXCEPT !.pc = "public", !.number = n, !.alone = ~meets]
  <2>1. /\ n \in Nat /\ keys' = [keys EXCEPT ![p].private = n]
        /\ worker' = [v \in SetupWorkers |->
              IF v = w THEN g ELSE IF In(v, "public") /\ worker[v].part = p THEN met(v) ELSE worker[v]]
        /\ torn' = torn
    BY <1>1, <1>5 DEF WritePrivateKey, NewId, historyOfSetup
  <2>2. g \in AnyWorker /\ g.pc = "public" /\ g.part = p /\ g.number = n
    <3>1. meets \in BOOLEAN
      BY DEF Working
    <3> HIDE DEF meets, n
    <3> QED BY <1>1, <1>2, <2>1, <3>1 DEF AnyWorker, WorkStates, OnOnePart
  <2>3. \A v \in SetupWorkers : /\ met(v) \in AnyWorker /\ met(v).pc = worker[v].pc
                                /\ met(v).part = worker[v].part /\ met(v).number = worker[v].number
                                /\ ~met(v).alone
    BY <1>1 DEF AnyWorker
  <2> HIDE DEF met, g, n
  <2>4. worker' \in [SetupWorkers -> AnyWorker]
    BY <1>1, <2>1, <2>2, <2>3
  <2>5. \A v \in SetupWorkers : v # w => /\ worker'[v].pc = worker[v].pc /\ worker'[v].part = worker[v].part
                                         /\ worker'[v].number = worker[v].number
    BY <2>1, <2>3
  <2>6. worker'[w] = g
    BY <2>1
  <2>7. /\ keys' \in [Parts -> KeyPair] /\ keys'[p].private = n
        /\ \A x \in Parts \ {p} : keys'[x] = keys[x]
    BY <1>1, <1>2, <2>1
  <2>8. KeysPaired'
    <3>1. \A x \in Parts : x = p => Working("public", x)'
      BY <2>2, <2>6 DEF Working, In
    <3>2. \A x \in Parts : Working("public", x) => Working("public", x)'
      BY <1>2, <2>2, <2>5, <2>6 DEF Working, In
    <3>3. ASSUME NEW x \in Parts \ {p}
          PROVE  keys'[x].private = keys'[x].public \/ x \in torn' \/ Working("public", x)'
      BY <2>1, <2>7, <3>2 DEF SetupInv, KeysPaired
    <3> QED BY <3>1, <3>3 DEF KeysPaired
  <2>9. PublicSound'
    <3> SUFFICES ASSUME NEW v \in SetupWorkers, In(v, "public")', worker'[v].alone
                 PROVE  keys'[worker'[v].part].private = worker'[v].number
      BY DEF PublicSound
    <3>1. CASE v = w
      <4>1. worker'[v].part = p /\ worker'[v].number = n
        BY <2>2, <2>6, <3>1
      <4> HIDE DEF p
      <4> QED BY <2>7, <4>1
    <3>2. CASE v # w
      <4>1. In(v, "public") /\ worker'[v].part = worker[v].part /\ worker'[v].number = worker[v].number
        BY <2>5, <3>2 DEF In
      <4>2. worker[v].part # p /\ worker'[v] = worker[v]
        BY <2>1, <2>3, <3>2, <4>1
      <4>3. worker[v].part \in Parts
        BY <1>1, <4>1, WorkerFields DEF In, OnOnePart
      <4> QED BY <2>7, <4>1, <4>2, <4>3 DEF SetupInv, PublicSound
    <3> QED BY <3>1, <3>2
  <2>10. SetupSound'
    BY <1>1, <1>3, <2>1, <2>4, <2>7 DEF SetupSound, n
  <2> QED BY <1>4, <2>2, <2>4, <2>5, <2>6, <2>8, <2>9, <2>10 DEF SetupInv
<1>6. CASE WritePublicKey(w) \/ PublicKeyFails(w)
  <2>1. PICK g \in AnyWorker : worker' = [worker EXCEPT ![w] = g] /\ g.pc \in {"idle", "line", "user"}
    <3>1. Onwards(w) \in AnyWorker /\ Onwards(w).pc \in {"idle", "line"}
      BY <1>1, OnwardsIsWork
    <3>2. [h EXCEPT !.pc = "user"] \in AnyWorker /\ [h EXCEPT !.pc = "user"].pc = "user"
      BY <1>1, <1>2 DEF AnyWorker, WorkStates, OnOnePart
    <3>3. \/ worker' = [worker EXCEPT ![w] = Onwards(w)]
          \/ worker' = [worker EXCEPT ![w] = [h EXCEPT !.pc = "user"]]
          \/ worker' = [worker EXCEPT ![w] = Idle]
      BY <1>6 DEF WritePublicKey, PublicKeyFails, Written, Sets, To
    <3> HIDE DEF h
    <3> QED BY <3>1, <3>2, <3>3, WorkerFields
  <2>2. /\ worker' \in [SetupWorkers -> AnyWorker] /\ worker'[w] = g
        /\ \A v \in SetupWorkers : v # w => worker'[v] = worker[v]
    BY <1>1, <2>1
  <2>3. \/ keys' = [keys EXCEPT ![p].public = h.number] /\ torn' = torn \cup {p}
        \/ keys' = [keys EXCEPT ![p].public = h.number] /\ h.alone /\ torn' = torn \ {p}
        \/ keys' = keys /\ torn' = torn \cup {p}
    BY <1>6 DEF WritePublicKey, PublicKeyFails
  <2>4. /\ keys' \in [Parts -> KeyPair] /\ \A x \in Parts \ {p} : keys'[x] = keys[x]
        /\ keys'[p].private = keys[p].private
        /\ p \in torn' \/ (h.alone /\ keys'[p].public = h.number)
        /\ \A x \in torn : x = p \/ x \in torn'
    BY <1>1, <1>2, <2>3
  <2>5. In(w, "public") /\ lastId' = lastId
    BY <1>6 DEF WritePublicKey, PublicKeyFails
  <2>6. KeysPaired'
    <3>1. h.alone => keys[p].private = h.number
      BY <2>5 DEF SetupInv, PublicSound
    <3>2. \A x \in Parts \ {p} : Working("public", x) => Working("public", x)'
      BY <2>2 DEF Working, In
    <3> QED BY <2>4, <3>1, <3>2 DEF SetupInv, KeysPaired
  <2>7. PublicSound'
    <3>1. \A v \in SetupWorkers : In(v, "public")' => v # w /\ worker'[v] = worker[v] /\ In(v, "public")
      BY <2>1, <2>2 DEF In
    <3>2. \A v \in SetupWorkers : In(v, "public") => worker[v].part \in Parts
      BY <1>1, WorkerFields DEF In, OnOnePart
    <3>3. \A x \in Parts : keys'[x].private = keys[x].private
      BY <2>4
    <3> QED BY <3>1, <3>2, <3>3 DEF SetupInv, PublicSound
  <2>8. SetupSound'
    BY <1>1, <1>3, <2>2, <2>4, <2>5 DEF SetupSound
  <2>9. AccountSound' /\ UsersPaired'
    BY <1>4, <2>1, <2>2
  <2> QED BY <2>6, <2>7, <2>8, <2>9 DEF SetupInv
<1> QED BY <1>5, <1>6 DEF GenerateDKIMKey

\* Steps on accounts and users leave the files alone.
LEMMA AccountStepKeeps ==
    ASSUME SetupInv, NEW w \in SetupWorkers, NEW g \in AnyWorker, Sets(w, g),
           UNCHANGED <<rowsOfSetup, keys, torn>>, lastId' \in Nat, accounts' \in [Parts -> Nat],
           worker[w].pc # "public", g.pc # "public",
           AccountSound', UsersPaired'
    PROVE  SetupInv'
<1>1. /\ worker \in [SetupWorkers -> AnyWorker] /\ worker' = [worker EXCEPT ![w] = g]
      /\ UNCHANGED <<domain, senderRows>>
  BY DEF SetupInv, SetupSound, Sets, rowsOfSetup
<1>2. \A v \in SetupWorkers : In(v, "public") <=> In(v, "public")'
  BY <1>1 DEF In
<1>3. \A v \in SetupWorkers : In(v, "public") => worker'[v] = worker[v]
  BY <1>1 DEF In
<1>4. KeysPaired'
  BY <1>2, <1>3 DEF SetupInv, KeysPaired, Working
<1>5. PublicSound'
  BY <1>2, <1>3 DEF SetupInv, PublicSound
<1>6. SetupSound'
  BY <1>1 DEF SetupInv, SetupSound
<1> QED BY <1>4, <1>5, <1>6 DEF SetupInv

LEMMA AccountStepsKeep ==
    ASSUME SetupInv, NEW w \in SetupWorkers,
           \/ CreateBounceAccount(w) \/ CreateAccount(w) \/ UpdateAccount(w) \/ EnsureUser(w)
           \/ EnsureFails(w) \/ RemoveSystemUser(w) \/ DeleteAccount(w) \/ ApplyNext(w)
    PROVE  SetupInv'
<1> DEFINE h == worker[w]
           p == h.part
<1>1. /\ worker \in [SetupWorkers -> AnyWorker] /\ h \in AnyWorker
      /\ lastId \in Nat /\ accounts \in [Parts -> Nat]
  BY DEF SetupInv, SetupSound
<1>2. h.number \in Nat /\ h.todo \in SUBSET Parts /\ (h.pc \in OnOnePart => p \in Parts)
  BY <1>1, WorkerFields
<1>3. UNCHANGED <<rowsOfSetup, keys, torn>>
  BY DEF CreateBounceAccount, AddUser, AddAccount, CreateAccount, UpdateAccount, EnsureUser,
     EnsureFails, RemoveSystemUser, DeleteAccount, ApplyNext, historyOfSetup
<1>4. /\ Onwards(w) \in AnyWorker /\ Onwards(w).pc \in {"idle", "line"}
      /\ Idle \in AnyWorker /\ Idle.pc = "idle"
      /\ \A pc \in OnOnePart : h.pc \in OnOnePart =>
           /\ [h EXCEPT !.pc = pc] \in AnyWorker /\ [h EXCEPT !.pc = pc].pc = pc
           /\ [h EXCEPT !.pc = pc].part = p /\ [h EXCEPT !.pc = pc].number = h.number
  <2>1. Onwards(w) \in AnyWorker /\ Onwards(w).pc \in {"idle", "line"}
    BY <1>1, OnwardsIsWork
  <2> HIDE DEF h
  <2> QED BY <1>1, <1>2, <2>1, WorkerFields DEF AnyWorker, WorkStates, OnOnePart
<1>5. ASSUME NEW g \in AnyWorker, Sets(w, g)
      PROVE  worker'[w] = g /\ \A v \in SetupWorkers : v # w => worker'[v] = worker[v]
  BY <1>1, <1>5 DEF Sets
<1>6. CASE AddUser(w)
  <2>1. h.pc = "user" /\ users' = users \cup {p} /\ UNCHANGED <<accounts, lastId, estranged>>
    BY <1>6 DEF AddUser, In, historyOfSetup
  <2>2. PICK g \in AnyWorker : Sets(w, g) /\ g.pc \in {"idle", "line", "account"}
                               /\ (g.pc = "account" => g.part = p)
    BY <1>4, <1>6, <2>1 DEF AddUser, To, OnOnePart
  <2>3. AccountSound'
    BY <1>5, <2>1, <2>2 DEF SetupInv, AccountSound, In
  <2>4. UsersPaired'
    BY <1>5, <2>1, <2>2 DEF SetupInv, UsersPaired, Working, Deleting, In
  <2> QED BY <1>1, <1>3, <2>1, <2>2, <2>3, <2>4, AccountStepKeeps
<1>7. CASE AddAccount(w)
  <2>1. h.pc = "account" /\ p \in users \cup estranged /\ UNCHANGED <<users, estranged>>
        /\ Sets(w, Onwards(w))
    BY <1>7 DEF AddAccount, In, SetupInv, AccountSound, historyOfSetup
  <2>2. lastId' \in Nat /\ accounts' \in [Parts -> Nat]
        /\ \A x \in Parts : x # p => accounts'[x] = accounts[x]
    BY <1>1, <1>7 DEF AddAccount, NewId
  <2>3. AccountSound'
    BY <1>4, <1>5, <2>1 DEF SetupInv, AccountSound, In
  <2>4. UsersPaired'
    BY <1>4, <1>5, <2>1, <2>2 DEF SetupInv, UsersPaired, Working, Deleting, In
  <2> QED BY <1>1, <1>3, <1>4, <2>1, <2>2, <2>3, <2>4, AccountStepKeeps
<1>8. CASE CreateAccount(w)
  <2>1. PICK q \in Parts :
          /\ lastId' = lastId + 1 /\ accounts' = [accounts EXCEPT ![q] = lastId']
          /\ Sets(w, [Idle EXCEPT !.pc = "ensure", !.op = "save", !.part = q])
    BY <1>8 DEF CreateAccount, Begins, NewId
  <2> DEFINE g == [Idle EXCEPT !.pc = "ensure", !.op = "save", !.part = q]
  <2>2. g \in AnyWorker /\ g.pc = "ensure" /\ g.part = q
    BY DEF Idle, AnyWorker, WorkStates, OnOnePart
  <2>3. /\ lastId' \in Nat /\ accounts' \in [Parts -> Nat] /\ UNCHANGED <<users, estranged>>
        /\ h.pc = "idle" /\ \A x \in Parts : x # q => accounts'[x] = accounts[x]
    <3>1. lastId' \in Nat
      BY <1>1, <2>1
    <3>2. h.pc = "idle"
      BY <1>8 DEF CreateAccount, Begins, In
    <3>3. UNCHANGED <<users, estranged>>
      BY <1>8 DEF CreateAccount, historyOfSetup
    <3> HIDE DEF g, h
    <3> QED BY <1>1, <2>1, <3>1, <3>2, <3>3
  <2>4. AccountSound'
    BY <1>5, <2>1, <2>2, <2>3 DEF SetupInv, AccountSound, In
  <2>5. UsersPaired'
    <3> HIDE DEF g
    <3>1. worker'[w] = g /\ \A v \in SetupWorkers : v # w => worker'[v] = worker[v]
      BY <1>5, <2>1, <2>2 DEF g
    <3>2. \A x \in Parts : x = q => Working("ensure", x)'
      BY <2>2, <3>1 DEF Working, In
    <3>3. \A x \in Parts : x # q => /\ Working("ensure", x) => Working("ensure", x)'
                                    /\ Deleting(x) => Deleting(x)'
      BY <2>3, <3>1 DEF Working, Deleting, In
    <3> QED BY <2>3, <3>2, <3>3 DEF SetupInv, UsersPaired
  <2> HIDE DEF g
  <2> QED BY <1>1, <1>3, <2>1, <2>2, <2>3, <2>4, <2>5, AccountStepKeeps DEF g
<1>9. CASE UpdateAccount(w)
  <2>1. h.pc = "update" /\ p \in Parts /\ UNCHANGED <<users, lastId, estranged>>
    BY <1>2, <1>9 DEF UpdateAccount, In, OnOnePart, historyOfSetup
  <2>2. CASE Sets(w, Idle) /\ UNCHANGED accounts
    <3>1. AccountSound' /\ UsersPaired'
      BY <1>4, <1>5, <2>1, <2>2 DEF SetupInv, AccountSound, UsersPaired, Working, Deleting, In
    <3> QED BY <1>1, <1>3, <1>4, <2>1, <2>2, <3>1, AccountStepKeeps
  <2>3. CASE /\ accounts' = [x \in Parts |-> IF x = p THEN h.number
                                             ELSE IF accounts[x] = h.number THEN 0 ELSE accounts[x]]
             /\ To(w, "ensure")
    <3> DEFINE g == [h EXCEPT !.pc = "ensure"]
    <3>1. g \in AnyWorker /\ g.pc = "ensure" /\ g.part = p /\ Sets(w, g)
      BY <1>4, <2>1, <2>3 DEF To, OnOnePart
    <3>2. accounts' \in [Parts -> Nat] /\ \A x \in Parts : x # p => accounts'[x] \in {0, accounts[x]}
      BY <1>1, <1>2, <2>3
    <3> HIDE DEF g
    <3>3. AccountSound'
      BY <1>5, <2>1, <3>1 DEF SetupInv, AccountSound, In
    <3>4. UsersPaired'
      BY <1>5, <2>1, <3>1, <3>2 DEF SetupInv, UsersPaired, Working, Deleting, In
    <3> QED BY <1>1, <1>3, <2>1, <3>1, <3>2, <3>3, <3>4, AccountStepKeeps
  <2> QED BY <1>9, <2>2, <2>3 DEF UpdateAccount
<1>10. CASE EnsureUser(w) \/ EnsureFails(w)
  <2>1. /\ h.pc = "ensure" /\ Sets(w, Idle) /\ UNCHANGED <<accounts, lastId>>
        /\ users \cup estranged \cup {p} \subseteq users' \cup estranged'
    BY <1>10 DEF EnsureUser, EnsureFails, In, mailboxVars
  <2>2. AccountSound' /\ UsersPaired'
    BY <1>4, <1>5, <2>1 DEF SetupInv, AccountSound, UsersPaired, Working, Deleting, In
  <2> QED BY <1>1, <1>3, <1>4, <2>1, <2>2, AccountStepKeeps
<1>11. CASE RemoveSystemUser(w)
  <2> DEFINE g == [h EXCEPT !.pc = "delete"]
  <2>1. h.pc = "remove" /\ p \in Parts /\ Sets(w, g) /\ UNCHANGED <<accounts, lastId>>
    BY <1>2, <1>11 DEF RemoveSystemUser, In, To, OnOnePart
  <2>2. g \in AnyWorker /\ g.pc = "delete" /\ g.part = p /\ g.number = h.number
    BY <1>4, <2>1 DEF OnOnePart
  <2>3. /\ \A x \in users \cup estranged : x = p \/ x \in users' \cup estranged'
        /\ \/ p \in users' \cup estranged'
           \/ accounts[p] \in {0, h.number} /\ ~Working("account", p)
           \/ users' \cup estranged' = users \cup estranged
    BY <1>11 DEF RemoveSystemUser
  <2> HIDE DEF g
  <2>4. worker'[w] = g /\ \A v \in SetupWorkers : v # w => worker'[v] = worker[v]
    BY <1>5, <2>1, <2>2
  <2>5. AccountSound'
    <3> SUFFICES ASSUME NEW v \in SetupWorkers, In(v, "account")'
                 PROVE  worker'[v].part \in users' \cup estranged'
      BY DEF AccountSound
    <3>1. v # w /\ worker'[v] = worker[v] /\ In(v, "account")
      BY <2>2, <2>4 DEF In
    <3>2. worker[v].part \in users \cup estranged
      BY <3>1 DEF SetupInv, AccountSound
    <3>3. worker[v].part = p => Working("account", p)
      BY <3>1 DEF Working
    <3> QED BY <2>3, <3>1, <3>2, <3>3
  <2>6. UsersPaired'
    <3> SUFFICES ASSUME NEW x \in Parts
                 PROVE  accounts'[x] = 0 \/ x \in users' \cup estranged'
                          \/ Working("ensure", x)' \/ Deleting(x)'
      BY DEF UsersPaired
    <3>1. (Working("ensure", x) => Working("ensure", x)') /\ (Deleting(x) => Deleting(x)')
      BY <2>1, <2>4 DEF Working, Deleting, In
    <3>2. x = p /\ accounts[p] = h.number => Deleting(x)'
      BY <2>1, <2>2, <2>4 DEF Deleting, In
    <3> QED BY <2>1, <2>3, <3>1, <3>2 DEF SetupInv, UsersPaired
  <2> QED BY <1>1, <1>3, <2>1, <2>2, <2>5, <2>6, AccountStepKeeps
<1>12. CASE DeleteAccount(w)
  <2>1. /\ h.pc = "delete" /\ Sets(w, Idle) /\ UNCHANGED <<users, lastId, estranged>>
        /\ accounts' = [x \in Parts |-> IF accounts[x] = h.number THEN 0 ELSE accounts[x]]
    BY <1>12 DEF DeleteAccount, In, historyOfSetup
  <2>2. accounts' \in [Parts -> Nat]
        /\ \A x \in Parts : accounts'[x] = IF accounts[x] = h.number THEN 0 ELSE accounts[x]
    BY <1>1, <2>1
  <2>3. AccountSound'
    BY <1>4, <1>5, <2>1 DEF SetupInv, AccountSound, In
  <2>4. UsersPaired'
    BY <1>4, <1>5, <2>1, <2>2 DEF SetupInv, UsersPaired, Working, Deleting, In
  <2> QED BY <1>1, <1>3, <1>4, <2>1, <2>2, <2>3, <2>4, AccountStepKeeps
<1>13. CASE ApplyNext(w)
  <2>1. /\ h.pc = "apply" /\ UNCHANGED <<accounts, lastId>>
        /\ users \cup estranged \subseteq users' \cup estranged'
    BY <1>13 DEF ApplyNext, In
  <2>2. PICK g \in AnyWorker : Sets(w, g) /\ g.pc \in {"idle", "apply"}
    <3>1. \A S \in SUBSET Parts : [h EXCEPT !.todo = S] \in AnyWorker
                                   /\ [h EXCEPT !.todo = S].pc = h.pc
      BY <1>1 DEF AnyWorker
    <3>2. CASE Sets(w, Idle)
      BY <1>4, <3>2
    <3>3. CASE ~Sets(w, Idle)
      <4>1. PICK x \in h.todo : Sets(w, [h EXCEPT !.todo = @ \ {x}])
        BY <1>13, <3>3 DEF ApplyNext
      <4>2. h.todo \ {x} \in SUBSET Parts
        BY <1>2
      <4> HIDE DEF h
      <4> QED BY <2>1, <3>1, <4>1, <4>2
    <3> QED BY <3>2, <3>3
  <2>3. AccountSound' /\ UsersPaired'
    BY <1>5, <2>1, <2>2 DEF SetupInv, AccountSound, UsersPaired, Working, Deleting, In
  <2> QED BY <1>1, <1>3, <2>1, <2>2, <2>3, AccountStepKeeps
<1> QED BY <1>6, <1>7, <1>8, <1>9, <1>10, <1>11, <1>12, <1>13 DEF CreateBounceAccount

LEMMA SetupInvStep == SetupInv /\ [SetupNext]_setupVars => SetupInv'
<1> SUFFICES ASSUME SetupInv, [SetupNext]_setupVars PROVE SetupInv'
  OBVIOUS
<1> USE DEF SetupSound, KeysPaired, PublicSound, AccountSound, UsersPaired, Working, Deleting, In
<1>1. CASE UNCHANGED setupVars
  BY <1>1 DEF setupVars, SetupInv
<1>2. CASE AddDomain \/ DeleteDomain \/ DeleteSender
  <2>1. domain' \in Nat /\ lastId' \in Nat /\ senderRows' \subseteq Parts \X Nat
    BY <1>2 DEF AddDomain, DeleteDomain, DeleteSender, NewId, SetupInv
  <2>2. UNCHANGED <<keys, accounts, users, worker, torn, estranged>>
    BY <1>2 DEF AddDomain, DeleteDomain, DeleteSender, mailboxVars, historyOfSetup
  <2> QED BY <2>1, <2>2 DEF SetupInv
<1>3. CASE SetupRestart
  <2>1. /\ torn' = torn \cup {p \in Parts : Working("public", p)}
        /\ estranged' = (estranged \cup {p \in Parts : Working("ensure", p) \/ Working("delete", p)})
                          \ users
        /\ worker' = [w \in SetupWorkers |-> Idle]
        /\ UNCHANGED <<domain, senderRows, keys, accounts, users, lastId>>
    BY <1>3 DEF SetupRestart, rowsOfSetup, mailboxVars
  <2>2. \A w \in SetupWorkers : worker'[w] = Idle
    BY <2>1
  <2>3. SetupSound' /\ PublicSound' /\ AccountSound'
    BY <2>1, <2>2, WorkerFields DEF SetupInv
  <2>4. KeysPaired' /\ UsersPaired'
    BY <2>1 DEF SetupInv
  <2> QED BY <2>3, <2>4 DEF SetupInv
<1>4. ASSUME NEW w \in SetupWorkers,
             \/ SetUp(w) \/ EditRows(w) \/ GenerateDKIMKey(w) \/ CreateBounceAccount(w)
             \/ SaveAccount(w) \/ RemoveAccount(w) \/ BeginApplyAll(w) \/ ApplyNext(w)
      PROVE  SetupInv'
  BY <1>4, RequestsBegin, RowStepsKeep, KeyStepsKeep, AccountStepsKeep
  DEF SetUp, EditRows, SaveAccount, RemoveAccount
<1> QED
  BY <1>1, <1>2, <1>3, <1>4 DEF SetupNext

(***************************************************************************)
(* A key file has the half it belongs to and a bounce account its user,    *)
(* for any number of domains, senders, requests, failures and restarts,    *)
(* but where a request is between the two or was cut short there.          *)
(***************************************************************************)
THEOREM PairsAlwaysBelong == SetupSpec => []PairsBelongTogether
<1>1. SetupInv => PairsBelongTogether
  BY DEF SetupInv, KeysPaired, UsersPaired, PairsBelongTogether, Working, Deleting
<1> QED
  BY <1>1, SetupInvInit, SetupInvStep, PTL DEF SetupSpec

-----------------------------------------------------------------------------
(* BounceHandling *)

AnyProc == [pc : {"rest", "scan", "readdir", "files", "create", "act", "rename"},
            file : Nat, pos : Nat, size : Nat, todo : SUBSET Reports,
            report : Reports \cup {NoReport}, action : {"retry", "suppress", "suppress_threshold"}]

BounceSound ==
    /\ logs \in Seq(Seq(Reports)) /\ Len(logs) >= 1 /\ half \in BOOLEAN
    /\ mailbox \in [new : SUBSET Reports, cur : SUBSET Reports]
    /\ row \in [offset : Nat, size : Nat] /\ rowFile \in 1..Len(logs)
    /\ events \in [Reports -> Nat]
    /\ contact \in [Emails -> {"active", "bounced", "unsubscribed"}]
    /\ proc \in [Processors -> AnyProc]

ActedOn(r) ==
    ClassOf[r] = "gone" =>
        /\ contact[EmailOf[r]] # "active"
        /\ <<System, EmailOf[r]>> \in suppressed \/ EmailOf[r] \in forgiven

\* Nothing is left to do for a report, or what is left has an excuse.
Done(r) == r \in excused \/ (events[r] > 0 /\ ActedOn(r))

\* What a processor has read it has dealt with, but for the report in its hands.
ReadSound(x) ==
    /\ x.pc = "scan" => x.file > 0
    /\ x.pc \notin {"scan", "create", "act"} => x.file = 0
    /\ x.pc \in {"scan", "create", "act"} /\ x.file > 0 =>
         /\ x.file <= Len(logs) /\ x.pos <= Size(x.file)
         /\ \A i \in 1..Len(logs[x.file]) : 2 * i <= x.pos =>
              \/ Done(logs[x.file][i])
              \/ x.pc \in {"create", "act"} /\ logs[x.file][i] = x.report
    /\ x.pc \in {"create", "act"} =>
         x.report \in Reports /\ (ClassOf[x.report] = "gone" => x.action = "suppress")
    /\ x.pc = "act" => events[x.report] > 0
    /\ x.pc = "rename" => x.report \in Reports /\ Done(x.report)

\* So has the processor that saved the row, and whoever moved a file to cur.
RowSound ==
    rowFile = current =>
        /\ row.offset <= Size(current)
        /\ \A i \in 1..Len(logs[current]) : 2 * i <= row.offset => Done(logs[current][i])

CurSound == \A r \in mailbox.cur : Done(r)

BounceInv ==
    BounceSound /\ (\A p \in Processors : ReadSound(proc[p])) /\ RowSound /\ CurSound

LEMMA ReportFacts ==
    /\ \A r \in Reports : EmailOf[r] \in Emails /\ ClassOf[r] \in Classes
    /\ System \notin Orgs
  BY BounceAssumption

LEMMA SizeFacts ==
    ASSUME NEW ls \in Seq(Seq(Reports)), NEW h \in BOOLEAN, NEW f \in 1..Len(ls)
    PROVE  /\ Len(ls) \in Nat /\ Len(ls[f]) \in Nat
           /\ \A i \in 1..Len(ls[f]) : ls[f][i] \in Reports
           /\ 2 * Len(ls[f]) - (IF f = Len(ls) /\ h THEN 1 ELSE 0)
                \in {2 * Len(ls[f]), 2 * Len(ls[f]) - 1}
<1>1. ls[f] \in Seq(Reports)
  OBVIOUS
<1>2. \A s \in Seq(Reports) : Len(s) \in Nat /\ \A i \in 1..Len(s) : s[i] \in Reports
  OBVIOUS
<1>3. \A n \in Nat : 2 * n - (IF f = Len(ls) /\ h THEN 1 ELSE 0) \in {2 * n, 2 * n - 1}
  <2>1. CASE f = Len(ls) /\ h
    BY <2>1
  <2>2. CASE ~(f = Len(ls) /\ h)
    BY <2>2
  <2> QED BY <2>1, <2>2
<1>4. Len(ls) \in Nat
  OBVIOUS
<1>5. Len(ls[f]) \in Nat /\ \A i \in 1..Len(ls[f]) : ls[f][i] \in Reports
  BY <1>1, <1>2
<1> QED
  BY <1>3, <1>4, <1>5

LEMMA LogFacts ==
    ASSUME BounceSound
    PROVE  /\ current \in Nat /\ current >= 1
           /\ \A f \in 1..current :
                /\ Len(logs[f]) \in Nat /\ Size(f) \in {2 * Len(logs[f]), 2 * Len(logs[f]) - 1}
                /\ \A i \in 1..Len(logs[f]) : logs[f][i] \in Reports
<1>1. logs \in Seq(Seq(Reports)) /\ half \in BOOLEAN /\ current = Len(logs) /\ current >= 1
  BY DEF BounceSound, current
<1>2. current \in Nat
  BY <1>1
<1> QED
  BY <1>1, <1>2, SizeFacts DEF Size, current

\* Nothing that has been done is undone.
LEMMA DoneStays ==
    ASSUME NEW r \in Reports, Done(r), BounceSound,
           excused \subseteq excused', events'[r] >= events[r], events'[r] \in Nat,
           contact[EmailOf[r]] # "active" => contact'[EmailOf[r]] # "active",
           \A e \in Emails : <<System, e>> \in suppressed \/ e \in forgiven =>
             <<System, e>> \in suppressed' \/ e \in forgiven'
    PROVE  Done(r)'
<1>1. events[r] \in Nat /\ EmailOf[r] \in Emails
  BY ReportFacts DEF BounceSound
<1> QED BY <1>1 DEF Done, ActedOn

Undoes == \E r \in Reports : (Done(r) /\ ~Done(r)') \/ (events[r] > 0 /\ ~(events'[r] > 0))

\* The log has grown at its end, if at all.
Grows ==
    /\ Len(logs) <= Len(logs')
    /\ \A f \in 1..Len(logs) :
         /\ Size(f) <= Size(f)'
         /\ Len(logs[f]) <= Len(logs'[f])
         /\ \A i \in 1..Len(logs[f]) : logs'[f][i] = logs[f][i]

LEMMA ReadStays ==
    ASSUME BounceSound, BounceSound', Grows, ~Undoes, NEW x \in AnyProc, ReadSound(x)
    PROVE  ReadSound(x)'
<1> DEFINE Reading == x.pc \in {"scan", "create", "act"} /\ x.file > 0
<1>1. ASSUME Reading
      PROVE  /\ x.file <= Len(logs') /\ x.pos <= Size(x.file)'
             /\ \A i \in 1..Len(logs'[x.file]) : 2 * i <= x.pos =>
                  \/ Done(logs[x.file][i])'
                  \/ x.pc \in {"create", "act"} /\ logs'[x.file][i] = x.report
  <2> DEFINE f == x.file
  <2>0. f \in Nat /\ x.pos \in Nat
    BY DEF AnyProc
  <2>1. f \in 1..current /\ x.pos <= Size(f) /\ current \in Nat /\ current = Len(logs)
    <3>1. f <= current /\ x.pos <= Size(f) /\ f > 0
      BY <1>1 DEF ReadSound, current
    <3>2. current \in Nat /\ current = Len(logs)
      BY LogFacts DEF current
    <3> HIDE DEF f
    <3> QED BY <2>0, <3>1, <3>2
  <2>2. /\ Len(logs[f]) \in Nat /\ Size(f) \in {2 * Len(logs[f]), 2 * Len(logs[f]) - 1}
        /\ \A i \in 1..Len(logs[f]) : logs[f][i] \in Reports
    BY <2>1, LogFacts
  <2>3. Len(logs') \in Nat /\ f \in 1..Len(logs')
    <3>1. Len(logs') \in Nat
      BY DEF BounceSound
    <3>2. Len(logs) <= Len(logs')
      BY DEF Grows
    <3> HIDE DEF f
    <3> QED BY <2>1, <3>1, <3>2
  <2>4. Len(logs'[f]) \in Nat /\ Size(f)' \in {2 * Len(logs'[f]), 2 * Len(logs'[f]) - 1}
    <3>1. logs' \in Seq(Seq(Reports)) /\ half' \in BOOLEAN
      BY DEF BounceSound
    <3> HIDE DEF f
    <3> QED BY <2>3, <3>1, SizeFacts DEF Size, current
  <2>5. /\ Size(f) <= Size(f)' /\ Len(logs[f]) <= Len(logs'[f])
        /\ \A i \in 1..Len(logs[f]) : logs'[f][i] = logs[f][i]
    BY <2>1 DEF Grows, current
  <2>6. x.pos <= Size(f)'
    <3> HIDE DEF f
    <3> QED BY <2>0, <2>1, <2>2, <2>4, <2>5
  <2>7. ASSUME NEW i \in 1..Len(logs'[f]), 2 * i <= x.pos
        PROVE  i \in 1..Len(logs[f])
    <3> HIDE DEF f
    <3> QED BY <2>0, <2>1, <2>2, <2>4, <2>7
  <2>8. ASSUME NEW i \in 1..Len(logs[f]), 2 * i <= x.pos
        PROVE  Done(logs[f][i])' \/ (x.pc \in {"create", "act"} /\ logs'[f][i] = x.report)
    <3>1. Done(logs[f][i]) \/ (x.pc \in {"create", "act"} /\ logs[f][i] = x.report)
      BY <1>1, <2>8 DEF ReadSound
    <3>2. logs[f][i] \in Reports /\ logs'[f][i] = logs[f][i]
      BY <2>2, <2>5
    <3> HIDE DEF f
    <3>3. PICK r \in Reports : r = logs[f][i]
      BY <3>2
    <3>4. Done(r) => Done(r)'
      BY DEF Undoes
    <3>5. Done(logs[f][i])' <=> Done(r)'
      BY <3>2, <3>3 DEF Done, ActedOn
    <3> QED BY <3>1, <3>2, <3>3, <3>4, <3>5 DEF Done, ActedOn
  <2> QED BY <2>3, <2>6, <2>7, <2>8
<1>2. x.pc = "act" => x.report \in Reports /\ events'[x.report] > 0
  BY DEF ReadSound, Undoes
<1>3. x.pc = "rename" => x.report \in Reports /\ Done(x.report)'
  BY DEF ReadSound, Undoes
<1> QED
  BY <1>1, <1>2, <1>3 DEF ReadSound

LEMMA RowStays ==
    ASSUME BounceSound, BounceSound', Grows, ~Undoes, RowSound, UNCHANGED rowVars
    PROVE  RowSound'
<1> SUFFICES ASSUME rowFile' = current'
             PROVE  /\ row'.offset <= Size(current)'
                    /\ \A i \in 1..Len(logs'[current']) :
                         2 * i <= row'.offset => Done(logs[current][i])'
  BY DEF RowSound
<1>1. rowFile = current /\ rowFile \in Nat /\ rowFile > 0
  <2>1. rowFile \in 1..Len(logs) /\ Len(logs) \in Nat /\ Len(logs') \in Nat /\ Len(logs) <= Len(logs')
    BY DEF BounceSound, Grows
  <2> QED BY <2>1 DEF current, rowVars
<1>2. PICK x \in AnyProc : x.pc = "scan" /\ x.file = rowFile /\ x.pos = row.offset
  <2>1. rowFile \in Nat /\ row.offset \in Nat
    BY <1>1 DEF BounceSound
  <2>2. [pc |-> "scan", file |-> rowFile, pos |-> row.offset, size |-> 0, todo |-> {},
         report |-> NoReport, action |-> "retry"] \in AnyProc
    BY <2>1 DEF AnyProc
  <2> QED BY <2>2
<1>3. ReadSound(x)
  BY <1>1, <1>2 DEF RowSound, ReadSound, current
<1>4. ReadSound(x)'
  BY <1>3, ReadStays
<1>5. x.file = current' /\ x.pos = row'.offset /\ x.file > 0
  BY <1>1, <1>2 DEF rowVars
<1> QED
  BY <1>2, <1>4, <1>5 DEF ReadSound, Size, Done, ActedOn

LEMMA SameLog ==
    ASSUME BounceSound, UNCHANGED <<logs, half>>
    PROVE  Grows
<1>1. current \in Nat /\ \A f \in 1..current : Len(logs[f]) \in Nat /\ Size(f) \in Int
  BY LogFacts
<1> QED BY <1>1 DEF Grows, Size, current

LEMMA NothingUndone ==
    ASSUME BounceSound, excused \subseteq excused',
           \A r \in Reports : events'[r] \in Nat /\ events'[r] >= events[r],
           \A e \in Emails : contact[e] # "active" => contact'[e] # "active",
           \A e \in Emails : <<System, e>> \in suppressed \/ e \in forgiven =>
             <<System, e>> \in suppressed' \/ e \in forgiven'
    PROVE  ~Undoes
<1>1. \A r \in Reports : events[r] \in Nat /\ EmailOf[r] \in Emails
  BY ReportFacts DEF BounceSound
<1>2. \A r \in Reports : Done(r) => Done(r)'
  BY <1>1, DoneStays
<1> QED BY <1>1, <1>2 DEF Undoes

LEMMA StepKeeps ==
    ASSUME BounceInv, BounceSound', Grows, ~Undoes, RowSound', CurSound',
           \A p \in Processors : proc'[p] = proc[p] \/ ReadSound(proc[p])'
    PROVE  BounceInv'
<1> SUFFICES ASSUME NEW p \in Processors, proc'[p] = proc[p] PROVE ReadSound(proc[p])'
  BY DEF BounceInv
<1>1. PICK x \in AnyProc : x = proc[p]
  BY DEF BounceInv, BounceSound
<1>2. ReadSound(x)
  BY <1>1 DEF BounceInv
<1>3. ReadSound(x)'
  BY <1>2, ReadStays DEF BounceInv
<1> QED BY <1>1, <1>3 DEF ReadSound

\* A processor goes on, and touches no more than its own state and the excuses.
LEMMA ReadStep ==
    ASSUME BounceInv, NEW p \in Processors, NEW g \in AnyProc, proc' = [proc EXCEPT ![p] = g],
           UNCHANGED <<inputVars, rowVars, doneVars, listVars>>, excused \subseteq excused',
           ReadSound(proc[p])'
    PROVE  BounceInv'
<1> USE DEF inputVars, rowVars, doneVars, listVars
<1>1. BounceSound'
  BY DEF BounceInv, BounceSound
<1>2. Grows
  BY SameLog DEF BounceInv
<1>3. \A r \in Reports : events'[r] \in Nat /\ events'[r] >= events[r]
  BY DEF BounceInv, BounceSound
<1>4. ~Undoes
  BY <1>3, NothingUndone DEF BounceInv
<1>5. RowSound'
  BY <1>1, <1>2, <1>4, RowStays DEF BounceInv
<1>6. CurSound'
  <2>1. \A r \in mailbox.cur : r \in Reports
    BY DEF BounceInv, BounceSound
  <2> QED BY <1>4, <2>1 DEF BounceInv, CurSound, Undoes
<1>7. \A q \in Processors : proc'[q] = proc[q] \/ ReadSound(proc[q])'
  BY DEF BounceInv, BounceSound
<1> QED BY <1>1, <1>2, <1>4, <1>5, <1>6, <1>7, StepKeeps

LEMMA BounceInvInit == BounceInit => BounceInv
<1> SUFFICES ASSUME BounceInit PROVE BounceInv
  OBVIOUS
<1>1. Resting \in AnyProc /\ Resting.pc = "rest" /\ Resting.file = 0
  BY DEF Resting, AnyProc
<1>2. logs = << <<>> >> /\ logs \in Seq(Seq(Reports)) /\ Len(logs) = 1 /\ logs[1] = <<>>
  BY DEF BounceInit
<1>3. BounceSound
  <2>1. mailbox \in [new : SUBSET Reports, cur : SUBSET Reports] /\ half \in BOOLEAN
    BY DEF BounceInit
  <2>2. row \in [offset : Nat, size : Nat] /\ rowFile = 1
    BY DEF BounceInit
  <2>3. events \in [Reports -> Nat]
    BY DEF BounceInit
  <2>4. contact \in [Emails -> {"active", "bounced", "unsubscribed"}]
    BY DEF BounceInit
  <2>5. proc \in [Processors -> AnyProc]
    BY <1>1 DEF BounceInit
  <2> QED BY <1>2, <2>1, <2>2, <2>3, <2>4, <2>5 DEF BounceSound
<1>4. \A p \in Processors : ReadSound(proc[p])
  BY <1>1 DEF BounceInit, ReadSound
<1>5. RowSound
  <2>1. current = 1 /\ Size(1) = 0 /\ row.offset = 0 /\ Len(logs[1]) = 0
    BY <1>2 DEF BounceInit, current, Size
  <2> QED BY <2>1 DEF RowSound
<1>6. CurSound
  BY DEF BounceInit, CurSound
<1> QED BY <1>3, <1>4, <1>5, <1>6 DEF BounceInv

\* What arrives undoes nothing.
LEMMA ArrivalKeeps ==
    ASSUME BounceInv, BounceSound', Grows, UNCHANGED <<proc, excused, doneVars, listVars, rowVars>>,
           \A r \in mailbox'.cur : r \in mailbox.cur
    PROVE  BounceInv'
<1> USE DEF rowVars, doneVars, listVars
<1>1. \A r \in Reports : events'[r] \in Nat /\ events'[r] >= events[r]
  BY DEF BounceInv, BounceSound
<1>2. ~Undoes
  BY <1>1, NothingUndone DEF BounceInv
<1>3. RowSound'
  BY <1>2, RowStays DEF BounceInv
<1>4. CurSound'
  <2>1. \A r \in mailbox.cur : r \in Reports
    BY DEF BounceInv, BounceSound
  <2> QED BY <1>2, <2>1 DEF BounceInv, CurSound, Undoes
<1> QED BY <1>2, <1>3, <1>4, StepKeeps

LEMMA LogLineKeeps == ASSUME BounceInv, LogLine PROVE BounceInv'
<1>1. PICK r \in Reports : logs' = [logs EXCEPT ![current] = Append(@, r)]
  BY DEF LogLine
<1>2. logs \in Seq(Seq(Reports)) /\ current = Len(logs) /\ current \in Nat /\ current >= 1
  BY LogFacts DEF BounceInv, BounceSound, current
<1>3. current \in 1..Len(logs) /\ logs[current] \in Seq(Reports)
  BY <1>2
<1>4. DEFINE longer == Append(logs[current], r)
<1>5. longer \in Seq(Reports) /\ Len(longer) = Len(logs[current]) + 1
      /\ \A i \in 1..Len(logs[current]) : longer[i] = logs[current][i]
  BY <1>3
<1> HIDE DEF longer
<1>6. logs' = [logs EXCEPT ![current] = longer]
  BY <1>1 DEF longer
<1>7. logs' \in Seq(Seq(Reports)) /\ Len(logs') = Len(logs)
  BY <1>2, <1>3, <1>5, <1>6
<1>8. \A f \in 1..Len(logs) : logs'[f] = IF f = current THEN longer ELSE logs[f]
  BY <1>2, <1>3, <1>6
<1>9. half' \in BOOLEAN /\ ~half
  BY DEF LogLine
<1>10. BounceSound'
  BY <1>7, <1>9 DEF BounceInv, BounceSound, LogLine, rowVars, doneVars, listVars
<1>11. Grows
  <2>1. SUFFICES ASSUME NEW f \in 1..Len(logs)
                 PROVE  /\ Size(f) <= Size(f)' /\ Len(logs[f]) <= Len(logs'[f])
                        /\ \A i \in 1..Len(logs[f]) : logs'[f][i] = logs[f][i]
    BY <1>2, <1>7 DEF Grows
  <2>2. current' = current
    BY <1>7 DEF current
  <2>3. Len(logs[f]) \in Nat /\ Size(f) = 2 * Len(logs[f])
    <3>1. Len(logs[f]) \in Nat
      BY <1>2, LogFacts DEF BounceInv
    <3> QED BY <1>9, <3>1 DEF Size
  <2>4. CASE f = current
    <3>1. logs'[f] = longer
      BY <1>8, <2>4
    <3>2. Size(f)' \in {2 * (Len(logs[f]) + 1), 2 * (Len(logs[f]) + 1) - 1}
      <4>1. logs' \in Seq(Seq(Reports)) /\ f \in 1..Len(logs')
        BY <1>7
      <4>2. Size(f)' \in {2 * Len(logs'[f]), 2 * Len(logs'[f]) - 1}
        BY <1>9, <4>1, SizeFacts DEF Size, current
      <4> QED BY <1>5, <2>4, <3>1, <4>2
    <3> QED BY <1>5, <2>3, <2>4, <3>1, <3>2
  <2>5. CASE f # current
    <3>1. logs'[f] = logs[f]
      BY <1>8, <2>5
    <3>2. Size(f)' = 2 * Len(logs[f])
      BY <2>2, <2>3, <2>5, <3>1 DEF Size
    <3> QED BY <2>3, <3>1, <3>2
  <2> QED BY <2>4, <2>5
<1>12. UNCHANGED <<proc, excused, doneVars, listVars, rowVars, mailbox>>
  BY DEF LogLine, doneVars, listVars, rowVars
<1> QED BY <1>10, <1>11, <1>12, ArrivalKeeps

LEMMA FinishLineKeeps == ASSUME BounceInv, FinishLine PROVE BounceInv'
<1>1. UNCHANGED <<logs, proc, excused, doneVars, listVars, rowVars, mailbox>> /\ half' = FALSE
  BY DEF FinishLine, doneVars, listVars, rowVars
<1>2. BounceSound'
  BY <1>1 DEF BounceInv, BounceSound, rowVars, doneVars, listVars
<1>3. Grows
  <2>1. \A f \in 1..Len(logs) :
           Len(logs[f]) \in Nat /\ Size(f) \in {2 * Len(logs[f]), 2 * Len(logs[f]) - 1}
    BY LogFacts DEF BounceInv, current
  <2>2. \A f \in 1..Len(logs) : Size(f)' = 2 * Len(logs[f])
    BY <1>1, <2>1 DEF Size
  <2>3. Len(logs) \in Nat
    BY DEF BounceInv, BounceSound
  <2> QED BY <1>1, <2>1, <2>2, <2>3 DEF Grows
<1> QED BY <1>1, <1>2, <1>3, ArrivalKeeps

LEMMA DeliverBounceKeeps == ASSUME BounceInv, DeliverBounce PROVE BounceInv'
<1>1. PICK r \in Reports : mailbox' = [mailbox EXCEPT !.new = @ \cup {r}]
  BY BounceAssumption DEF DeliverBounce
<1>2. UNCHANGED <<logs, half, proc, excused, doneVars, listVars, rowVars>>
  BY DEF DeliverBounce, doneVars, listVars, rowVars
<1>3. mailbox' \in [new : SUBSET Reports, cur : SUBSET Reports] /\ mailbox'.cur = mailbox.cur
  BY <1>1 DEF BounceInv, BounceSound
<1>4. BounceSound'
  BY <1>2, <1>3 DEF BounceInv, BounceSound, rowVars, doneVars, listVars
<1>5. Grows
  BY <1>2, SameLog DEF BounceInv
<1> QED BY <1>2, <1>3, <1>4, <1>5, ArrivalKeeps

LEMMA RotateKeeps == ASSUME BounceInv, Rotate PROVE BounceInv'
<1>1. /\ logs' = Append(logs, <<>>) /\ ~half
      /\ UNCHANGED <<half, mailbox, proc, excused, rowVars, doneVars, listVars>>
  BY DEF Rotate, doneVars, listVars, rowVars
<1>2. logs \in Seq(Seq(Reports)) /\ Len(logs) \in Nat /\ Len(logs) >= 1
  BY DEF BounceInv, BounceSound
<1>3. <<>> \in Seq(Reports)
  OBVIOUS
<1>4. /\ logs' \in Seq(Seq(Reports)) /\ Len(logs') = Len(logs) + 1
      /\ \A f \in 1..Len(logs) : logs'[f] = logs[f]
  BY <1>1, <1>2, <1>3
<1>5. rowFile \in 1..Len(logs) /\ rowFile \in 1..Len(logs') /\ rowFile' = rowFile
  <2>1. rowFile \in 1..Len(logs) /\ rowFile' = rowFile
    BY <1>1 DEF BounceInv, BounceSound, rowVars
  <2> QED BY <1>2, <1>4, <2>1
<1>6. BounceSound'
  <2>1. Len(logs') >= 1 /\ half' \in BOOLEAN
    BY <1>1, <1>2, <1>4 DEF BounceInv, BounceSound
  <2> QED BY <1>1, <1>4, <1>5, <2>1 DEF BounceInv, BounceSound, rowVars, doneVars, listVars
<1>7. Grows
  <2>1. \A f \in 1..Len(logs) :
           Len(logs[f]) \in Nat /\ Size(f) \in {2 * Len(logs[f]), 2 * Len(logs[f]) - 1}
    BY LogFacts DEF BounceInv, current
  <2>2. \A f \in 1..Len(logs) : Size(f) = 2 * Len(logs[f])
    BY <1>1, <2>1 DEF Size
  <2>3. \A f \in 1..Len(logs) : Size(f)' = 2 * Len(logs[f])
    BY <1>1, <1>4, <2>1 DEF Size
  <2> QED BY <1>2, <1>4, <2>1, <2>2, <2>3 DEF Grows
<1> QED BY <1>1, <1>6, <1>7, ArrivalKeeps

LEMMA OpenLogKeeps == ASSUME BounceInv, NEW p \in Processors, OpenLog(p) PROVE BounceInv'
<1> DEFINE size == Size(current)
           from == IF size < row.size THEN 0 ELSE row.offset
           lines == {i \in 1..Len(logs[current]) : 2 * i <= from + 1}
           passedOver == IF rowFile = current THEN {} ELSE {logs[current][i] : i \in lines}
<1>0. proc[p] \in AnyProc /\ row \in [offset : Nat, size : Nat]
  BY DEF BounceInv, BounceSound
<1>1. current \in Nat /\ current >= 1 /\ size \in Int /\ Len(logs[current]) \in Nat
  BY LogFacts DEF BounceInv
<1>2. from \in Nat
  BY <1>0
<1>3. UNCHANGED <<inputVars, rowVars, doneVars, listVars>>
  BY DEF OpenLog
<1>4. CASE Goes(p, "readdir") /\ UNCHANGED excused
  <2> DEFINE g == [proc[p] EXCEPT !.pc = "readdir"]
  <2>1. g \in AnyProc /\ g.pc = "readdir" /\ g.file = 0
    <3>1. At(p, "rest") /\ ReadSound(proc[p])
      BY DEF OpenLog, MayRun, BounceInv
    <3> QED BY <1>0, <3>1 DEF AnyProc, At, ReadSound
  <2>2. proc' = [proc EXCEPT ![p] = g]
    BY <1>4 DEF Goes
  <2>3. proc'[p] = g
    BY <2>2 DEF BounceInv, BounceSound
  <2> HIDE DEF g
  <2>4. ReadSound(proc[p])'
    BY <2>1, <2>3 DEF ReadSound
  <2> QED BY <1>3, <1>4, <2>1, <2>2, <2>4, ReadStep
<1>5. CASE /\ size > from
           /\ proc' = [proc EXCEPT ![p] =
                 [@ EXCEPT !.pc = "scan", !.file = current, !.pos = from, !.size = size]]
           /\ excused' = excused \cup passedOver
  <2> DEFINE g == [proc[p] EXCEPT !.pc = "scan", !.file = current, !.pos = from, !.size = size]
  <2>0. size \in Nat
    BY <1>1, <1>2, <1>5
  <2> HIDE DEF size, from
  <2>1. g \in AnyProc /\ g.pc = "scan" /\ g.file = current /\ g.pos = from
    BY <1>0, <1>1, <1>2, <2>0 DEF AnyProc
  <2>2. proc' = [proc EXCEPT ![p] = g]
    BY <1>5
  <2> HIDE DEF g
  <2>3. PICK x \in AnyProc : x = g /\ x.pc = "scan" /\ x.file = current /\ x.pos = from
    BY <2>1
  <2>10. proc'[p] = x /\ proc' = [proc EXCEPT ![p] = x]
    BY <2>2, <2>3 DEF BounceInv, BounceSound
  <2>4. UNCHANGED <<logs, half, events, contact, suppressed, forgiven>>
    BY <1>3 DEF inputVars, doneVars, listVars
  <2>5. ASSUME NEW i \in 1..Len(logs[current]), 2 * i <= from
        PROVE  Done(logs[current][i])'
    <3>1. CASE rowFile = current
      <4>1. 2 * i <= row.offset
        BY <1>0, <1>1, <2>5 DEF from
      <4>2. Done(logs[current][i])
        BY <3>1, <4>1 DEF BounceInv, RowSound
      <4> QED BY <1>5, <2>4, <4>2 DEF Done, ActedOn, current
    <3>2. CASE rowFile # current
      <4>1. i \in lines
        BY <1>1, <1>2, <2>5
      <4>2. logs[current][i] \in excused'
        BY <1>5, <3>2, <4>1
      <4> QED BY <2>4, <4>2 DEF Done, current
    <3> QED BY <3>1, <3>2
  <2>6. current' = current /\ Size(current)' = Size(current)
    BY <2>4 DEF current, Size
  <2>7. from <= Size(current)
    BY <1>1, <1>2, <1>5 DEF size
  <2>8. ReadSound(x)'
    <3>1. x.file > 0 /\ x.file <= Len(logs') /\ x.pos <= Size(x.file)'
      <4>1. x.file > 0 /\ x.file <= Len(logs')
        BY <1>1, <2>3, <2>4 DEF current
      <4>2. Size(x.file)' = Size(x.file)
        BY <2>4 DEF Size, current
      <4> QED BY <2>3, <2>7, <4>1, <4>2
    <3>2. \A i \in 1..Len(logs'[x.file]) : 2 * i <= x.pos => Done(logs[x.file][i])'
      BY <2>3, <2>4, <2>5, <2>6 DEF current
    <3> QED BY <2>3, <3>1, <3>2 DEF ReadSound
  <2>9. ReadSound(proc[p])'
    BY <2>10, <2>8 DEF ReadSound
  <2> QED BY <1>3, <1>5, <2>10, <2>9, ReadStep
<1> QED BY <1>4, <1>5 DEF OpenLog

LEMMA ReadDirKeeps == ASSUME BounceInv, NEW p \in Processors, ReadDir(p) PROVE BounceInv'
<1> DEFINE g == IF mailbox.new = {} THEN Resting
                ELSE [proc[p] EXCEPT !.pc = "files", !.todo = mailbox.new]
<1>0. proc[p] \in AnyProc /\ mailbox.new \subseteq Reports
  BY DEF BounceInv, BounceSound
<1>5. proc[p].file = 0
  BY DEF ReadDir, At, BounceInv, ReadSound
<1>1. g \in AnyProc /\ g.pc \in {"rest", "files"} /\ g.file = 0
  <2>1. Resting \in AnyProc /\ Resting.pc = "rest" /\ Resting.file = 0
    BY DEF AnyProc, Resting
  <2>2. [proc[p] EXCEPT !.pc = "files", !.todo = mailbox.new] \in AnyProc
        /\ [proc[p] EXCEPT !.pc = "files", !.todo = mailbox.new].pc = "files"
        /\ [proc[p] EXCEPT !.pc = "files", !.todo = mailbox.new].file = 0
    BY <1>0, <1>5 DEF AnyProc
  <2> QED BY <2>1, <2>2
<1>2. proc' = [proc EXCEPT ![p] = g]
  BY DEF ReadDir
<1> HIDE DEF g
<1>3. proc'[p] = g
  BY <1>2 DEF BounceInv, BounceSound
<1>4. ReadSound(proc[p])'
  BY <1>1, <1>3 DEF ReadSound
<1> QED BY <1>1, <1>2, <1>4, ReadStep DEF ReadDir

LEMMA ClassifyFacts ==
    ASSUME NEW r
    PROVE  /\ classifyBounce(r) \in {"retry", "suppress", "suppress_threshold"}
           /\ ClassOf[r] = "gone" => classifyBounce(r) = "suppress"
<1>1. CASE ClassOf[r] = "gone"
  BY <1>1 DEF classifyBounce
<1>2. CASE ClassOf[r] # "gone"
  BY <1>2 DEF classifyBounce
<1> QED BY <1>1, <1>2

LEMMA ScanKeeps == ASSUME BounceInv, NEW p \in Processors, Scan(p) PROVE BounceInv'
<1>1. PICK x \in AnyProc : x = proc[p]
  BY DEF BounceInv, BounceSound
<1> DEFINE log == logs[x.file]
           at == x.pos \div 2 + 1
           report == log[at]
           whole == x.pos % 2 = 0 /\ x.pos + 2 <= Size(x.file)
<1>2. /\ x.pc = "scan" /\ x.file > 0 /\ x.file <= current /\ x.pos < Size(x.file)
      /\ x.file \in Nat /\ x.pos \in Nat
      /\ \A i \in 1..Len(log) : 2 * i <= x.pos => Done(log[i])
  <2>1. x.pc = "scan" /\ x.pos < Size(x.file) /\ ReadSound(x)
    BY <1>1 DEF Scan, At, BounceInv
  <2>2. x.file \in Nat /\ x.pos \in Nat
    BY DEF AnyProc
  <2>3. x.file > 0 /\ x.file <= Len(logs)
    BY <2>1 DEF ReadSound
  <2> QED BY <2>1, <2>2, <2>3 DEF ReadSound, current
<1>3. /\ Len(log) \in Nat /\ Size(x.file) \in {2 * Len(log), 2 * Len(log) - 1}
      /\ \A i \in 1..Len(log) : log[i] \in Reports
  <2>1. x.file \in 1..current
    BY <1>2, LogFacts DEF BounceInv
  <2> QED BY <2>1, LogFacts DEF BounceInv
<1> HIDE DEF log
<1>4. at \in 1..Len(log) /\ 2 * at > x.pos /\ at \in Int
  <2>1. x.pos < 2 * Len(log) /\ x.pos \in Nat
    BY <1>2, <1>3
  <2> QED BY <1>3, <2>1
<1>5. report \in Reports
  BY <1>3, <1>4
<1>6. /\ UNCHANGED <<budget, inputVars, rowVars, doneVars, listVars>>
      /\ UNCHANGED <<logs, half, events, contact, suppressed, forgiven>>
  BY DEF Scan, inputVars, doneVars, listVars
<1>7. PICK size \in Int : size = Size(x.file) /\ size = Size(x.file)'
  <2>1. Size(x.file)' = Size(x.file)
    BY <1>6 DEF Size, current
  <2> QED BY <1>3, <2>1
<1>8. current' = current /\ Len(logs') = current
  BY <1>6 DEF current
<1>9. \/ /\ x.pos % 2 = 0
         /\ proc' = [proc EXCEPT ![p] = [x EXCEPT
               !.pc = "create", !.pos = IF whole THEN x.pos + 2 ELSE x.pos + 1,
               !.report = report, !.action = classifyBounce(report)]]
         /\ UNCHANGED excused
      \/ /\ ~whole
         /\ proc' = [proc EXCEPT ![p] = [x EXCEPT !.pos = x.pos + 1]]
         /\ excused' = excused \cup {report}
  BY <1>1 DEF Scan, log
<1>10. \A i \in 1..Len(log) : Done(log[i]) => Done(log[i])'
  BY <1>6, <1>9 DEF Done, ActedOn, log
<1>11. CASE /\ x.pos % 2 = 0
            /\ proc' = [proc EXCEPT ![p] = [x EXCEPT
                 !.pc = "create", !.pos = IF whole THEN x.pos + 2 ELSE x.pos + 1,
                 !.report = report, !.action = classifyBounce(report)]]
            /\ UNCHANGED excused
  <2> DEFINE pos == IF whole THEN x.pos + 2 ELSE x.pos + 1
             action == classifyBounce(report)
  <2>1. pos \in Nat /\ pos <= size /\ pos <= x.pos + 2
    <3>1. CASE whole
      BY <1>2, <1>7, <3>1
    <3>2. CASE ~whole
      BY <1>2, <1>7, <3>2
    <3> QED BY <3>1, <3>2
  <2>2. /\ action \in {"retry", "suppress", "suppress_threshold"}
        /\ ClassOf[report] = "gone" => action = "suppress"
    BY ClassifyFacts
  <2>3. \A i \in 1..Len(log) : 2 * i <= pos => 2 * i <= x.pos \/ i = at
    BY <1>2, <1>3, <1>11, <2>1
  <2> HIDE DEF pos, action, report, at
  <2>4. PICK g \in AnyProc :
          /\ g = [x EXCEPT !.pc = "create", !.pos = pos, !.report = report, !.action = action]
          /\ g.pc = "create" /\ g.pos = pos /\ g.report = report /\ g.action = action
          /\ g.file = x.file
    <3> DEFINE h == [x EXCEPT !.pc = "create", !.pos = pos, !.report = report, !.action = action]
    <3>1. h \in AnyProc
      BY <1>5, <2>1, <2>2 DEF AnyProc
    <3>2. /\ h.pc = "create" /\ h.pos = pos /\ h.report = report /\ h.action = action
          /\ h.file = x.file
      BY DEF AnyProc
    <3> QED BY <3>1, <3>2
  <2>5. proc' = [proc EXCEPT ![p] = g] /\ proc'[p] = g
    <3>1. proc' = [proc EXCEPT ![p] = g]
      BY <1>11, <2>4 DEF pos, action, report
    <3> QED BY <3>1 DEF BounceInv, BounceSound
  <2>6. ASSUME NEW i \in 1..Len(log), 2 * i <= g.pos
        PROVE  Done(log[i])' \/ log[i] = g.report
    <3>1. CASE 2 * i <= x.pos
      BY <1>2, <1>10, <3>1 
    <3>2. CASE i = at
      BY <2>4, <3>2 DEF report
    <3> QED BY <2>3, <2>4, <2>6, <3>1, <3>2
  <2>7. g.file <= Len(logs') /\ g.pos <= Size(g.file)'
    BY <1>2, <1>7, <1>8, <2>1, <2>4
  <2>8. ReadSound(g)'
    <3>1. \A i \in 1..Len(logs'[g.file]) : 2 * i <= g.pos =>
             Done(logs[g.file][i])' \/ logs'[g.file][i] = g.report
      BY <1>6, <2>4, <2>6 DEF log
    <3> QED BY <1>5, <2>2, <2>4, <2>7, <3>1 DEF ReadSound
  <2>9. ReadSound(proc[p])'
    BY <2>5, <2>8 DEF ReadSound
  <2>10. excused \subseteq excused'
    BY <1>11
  <2> QED BY <1>6, <2>5, <2>9, <2>10, ReadStep
<1>12. CASE /\ ~whole
            /\ proc' = [proc EXCEPT ![p] = [x EXCEPT !.pos = x.pos + 1]]
            /\ excused' = excused \cup {report}
  <2>1. x.pos + 1 <= size /\ x.pos + 1 \in Nat
    BY <1>2, <1>7
  <2>2. PICK g \in AnyProc : g = [x EXCEPT !.pos = x.pos + 1] /\ g.pc = "scan"
                             /\ g.pos = x.pos + 1 /\ g.file = x.file
    <3> DEFINE h == [x EXCEPT !.pos = x.pos + 1]
    <3>1. h \in AnyProc
      BY <2>1 DEF AnyProc
    <3>2. h.pc = "scan" /\ h.pos = x.pos + 1 /\ h.file = x.file
      BY <1>2 DEF AnyProc
    <3> QED BY <3>1, <3>2
  <2>3. proc' = [proc EXCEPT ![p] = g] /\ proc'[p] = g
    <3>1. proc' = [proc EXCEPT ![p] = g]
      BY <1>12, <2>2
    <3> QED BY <3>1 DEF BounceInv, BounceSound
  <2>4. Done(report)'
    BY <1>6, <1>12 DEF Done, log
  <2>5. \A i \in 1..Len(log) : 2 * i <= g.pos => 2 * i <= x.pos \/ i = at
    BY <1>2, <1>3, <2>2
  <2> HIDE DEF at
  <2>6. ASSUME NEW i \in 1..Len(log), 2 * i <= g.pos
        PROVE  Done(log[i])'
    BY <1>2, <1>10, <2>4, <2>5, <2>6
  <2>7. g.file <= Len(logs') /\ g.pos <= Size(g.file)' /\ g.file > 0
    BY <1>2, <1>7, <1>8, <2>1, <2>2
  <2>8. ReadSound(g)'
    <3>1. \A i \in 1..Len(logs'[g.file]) : 2 * i <= g.pos => Done(logs[g.file][i])'
      BY <1>6, <2>2, <2>6 DEF log
    <3> QED BY <2>2, <2>7, <3>1 DEF ReadSound
  <2>9. ReadSound(proc[p])'
    BY <2>3, <2>8 DEF ReadSound
  <2>10. excused \subseteq excused'
    BY <1>12
  <2> QED BY <1>6, <2>3, <2>9, <2>10, ReadStep
<1> QED BY <1>9, <1>11, <1>12

LEMMA ReadFileKeeps == ASSUME BounceInv, NEW p \in Processors, ReadFile(p) PROVE BounceInv'
<1>1. PICK x \in AnyProc : x = proc[p] /\ x.pc = "files" /\ x.file = 0
  BY DEF BounceInv, BounceSound, ReadFile, At, ReadSound
<1>0. x.todo \subseteq Reports
  BY DEF AnyProc
<1>2. PICK r \in Reports : proc' = [proc EXCEPT ![p] =
            IF r \in mailbox.new
              THEN [x EXCEPT !.pc = "create", !.report = r, !.action = classifyBounce(r)]
            ELSE IF x.todo = {r} THEN Resting
            ELSE [x EXCEPT !.todo = x.todo \ {r}]]
  <2>1. proc \in [Processors -> AnyProc]
    BY DEF BounceInv, BounceSound
  <2>2. PICK r \in proc[p].todo :
          proc' = [proc EXCEPT ![p] =
            IF r \in mailbox.new
              THEN [@ EXCEPT !.pc = "create", !.report = r, !.action = classifyBounce(r)]
            ELSE IF proc[p].todo = {r} THEN Resting
            ELSE [@ EXCEPT !.todo = proc[p].todo \ {r}]]
    BY DEF ReadFile
  <2>3. r \in Reports
    BY <1>0, <1>1, <2>2
  <2>4. proc' = [proc EXCEPT ![p] =
            IF r \in mailbox.new
              THEN [proc[p] EXCEPT !.pc = "create", !.report = r, !.action = classifyBounce(r)]
            ELSE IF proc[p].todo = {r} THEN Resting
            ELSE [proc[p] EXCEPT !.todo = proc[p].todo \ {r}]]
    BY <2>2
  <2>5. proc' = [proc EXCEPT ![p] =
            IF r \in mailbox.new
              THEN [x EXCEPT !.pc = "create", !.report = r, !.action = classifyBounce(r)]
            ELSE IF x.todo = {r} THEN Resting
            ELSE [x EXCEPT !.todo = x.todo \ {r}]]
    BY <1>1, <2>4
  <2> QED BY <2>3, <2>5
<1> DEFINE g == IF r \in mailbox.new
              THEN [x EXCEPT !.pc = "create", !.report = r, !.action = classifyBounce(r)]
            ELSE IF x.todo = {r} THEN Resting
            ELSE [x EXCEPT !.todo = x.todo \ {r}]
<1>3. /\ classifyBounce(r) \in {"retry", "suppress", "suppress_threshold"}
      /\ ClassOf[r] = "gone" => classifyBounce(r) = "suppress"
  BY ClassifyFacts
<1>4. PICK y \in AnyProc :
        /\ y = g
        /\ \/ y.pc \in {"rest", "files"} /\ y.file = 0
           \/ /\ y.pc = "create" /\ y.report = r /\ y.file = 0
              /\ y.action = classifyBounce(r)
  <2>1. CASE r \in mailbox.new
    <3> DEFINE h == [x EXCEPT !.pc = "create", !.report = r, !.action = classifyBounce(r)]
    <3>1. h \in AnyProc
      BY <1>3 DEF AnyProc
    <3>2. h.pc = "create" /\ h.report = r /\ h.file = 0
          /\ h.action = classifyBounce(r)
      BY <1>1 DEF AnyProc
    <3>3. g = h
      BY <2>1
    <3> HIDE DEF h, g
    <3> QED BY <3>1, <3>2, <3>3
  <2>2. CASE r \notin mailbox.new /\ x.todo = {r}
    <3>1. Resting \in AnyProc /\ Resting.pc = "rest" /\ Resting.file = 0 /\ g = Resting
      BY <2>2 DEF AnyProc, Resting
    <3> HIDE DEF g
    <3> QED BY <3>1
  <2>3. CASE r \notin mailbox.new /\ x.todo # {r}
    <3> DEFINE h == [x EXCEPT !.todo = x.todo \ {r}]
    <3>1. h \in AnyProc /\ h.pc = "files" /\ h.file = 0
      BY <1>1 DEF AnyProc
    <3>2. g = h
      BY <2>3
    <3> HIDE DEF h, g
    <3> QED BY <3>1, <3>2
  <2> QED BY <2>1, <2>2, <2>3
<1>5. proc' = [proc EXCEPT ![p] = y] /\ proc'[p] = y
  <2>1. proc' = [proc EXCEPT ![p] = y]
    BY <1>2, <1>4
  <2> QED BY <2>1 DEF BounceInv, BounceSound
<1>6. ReadSound(y)'
  BY <1>3, <1>4 DEF ReadSound
<1>7. ReadSound(proc[p])'
  BY <1>5, <1>6 DEF ReadSound
<1> QED BY <1>5, <1>7, ReadStep DEF ReadFile

LEMMA SaveStateKeeps == ASSUME BounceInv, NEW p \in Processors, SaveState(p) PROVE BounceInv'
<1>1. PICK x \in AnyProc : x = proc[p] /\ x.pc = "scan" /\ ReadSound(x)
  BY DEF BounceInv, BounceSound, SaveState, At
<1> DEFINE g == [Resting EXCEPT !.pc = "readdir"]
<1>2. g \in AnyProc /\ g.pc = "readdir" /\ g.file = 0
  BY DEF AnyProc, Resting
<1>3. proc' = [proc EXCEPT ![p] = g]
  BY DEF SaveState
<1> HIDE DEF g
<1>4. proc'[p] = g /\ proc' \in [Processors -> AnyProc] /\ \A q \in Processors \ {p} : proc'[q] = proc[q]
  BY <1>2, <1>3 DEF BounceInv, BounceSound
<1>5. /\ UNCHANGED <<logs, half, mailbox, events, contact, suppressed, forgiven, excused>>
      /\ x.pos = Size(x.file) /\ row' = [offset |-> x.pos, size |-> x.size] /\ rowFile' = x.file
  BY <1>1 DEF SaveState, inputVars, doneVars, listVars
<1>6. x.file \in 1..Len(logs) /\ x.pos \in Nat /\ x.size \in Nat
  <2>1. x.file \in Nat /\ x.pos \in Nat /\ x.size \in Nat
    BY DEF AnyProc
  <2>2. x.file > 0 /\ x.file <= Len(logs)
    BY <1>1 DEF ReadSound
  <2>3. Len(logs) \in Nat
    BY DEF BounceInv, BounceSound
  <2> QED BY <2>1, <2>2, <2>3
<1>7. BounceSound'
  <2>1. row' \in [offset : Nat, size : Nat] /\ rowFile' \in 1..Len(logs)
    BY <1>5, <1>6
  <2> QED BY <1>4, <1>5, <2>1 DEF BounceInv, BounceSound
<1>8. Grows
  BY <1>5, SameLog DEF BounceInv
<1>9. \A r \in Reports : events'[r] \in Nat /\ events'[r] >= events[r]
  BY <1>5 DEF BounceInv, BounceSound
<1>10. ~Undoes
  BY <1>5, <1>9, NothingUndone DEF BounceInv
<1>11. ReadSound(x)'
  BY <1>1, <1>7, <1>8, <1>10, ReadStays DEF BounceInv
<1>12. RowSound'
  <2>1. row'.offset = x.pos
    BY <1>5
  <2>2. /\ x.pos <= Size(x.file)'
        /\ \A i \in 1..Len(logs'[x.file]) : 2 * i <= x.pos => Done(logs[x.file][i])'
    BY <1>1, <1>6, <1>11 DEF ReadSound
  <2> QED BY <1>5, <2>1, <2>2 DEF RowSound, Size, Done, ActedOn
<1>13. CurSound'
  BY <1>5 DEF BounceInv, CurSound, Done, ActedOn
<1>14. ReadSound(proc[p])'
  BY <1>2, <1>4 DEF ReadSound
<1>15. \A q \in Processors : proc'[q] = proc[q] \/ ReadSound(proc[q])'
  BY <1>4, <1>14
<1> QED BY <1>7, <1>8, <1>10, <1>12, <1>13, <1>15, StepKeeps

\* A step that records: reports are done, the files stay as they are.
LEMMA RecordStep ==
    ASSUME BounceInv, NEW p \in Processors, NEW g \in AnyProc, proc' = [proc EXCEPT ![p] = g],
           UNCHANGED <<logs, half, rowVars>>, excused \subseteq excused',
           events' \in [Reports -> Nat], \A r \in Reports : events'[r] >= events[r],
           contact' \in [Emails -> {"active", "bounced", "unsubscribed"}],
           \A e \in Emails : contact[e] # "active" => contact'[e] # "active",
           suppressed \subseteq suppressed', forgiven \subseteq forgiven',
           mailbox' \in [new : SUBSET Reports, cur : SUBSET Reports],
           \A r \in mailbox'.cur : r \in mailbox.cur \/ Done(r)'
    PROVE  /\ BounceSound' /\ Grows /\ ~Undoes
           /\ \A x \in AnyProc : ReadSound(x) => ReadSound(x)'
           /\ ReadSound(g)' => BounceInv'
<1>1. proc'[p] = g /\ proc' \in [Processors -> AnyProc] /\ \A q \in Processors \ {p} : proc'[q] = proc[q]
  BY DEF BounceInv, BounceSound
<1>2. BounceSound'
  BY <1>1 DEF BounceInv, BounceSound, rowVars
<1>3. Grows
  BY SameLog DEF BounceInv
<1>4. ~Undoes
  <2>1. \A r \in Reports : events'[r] \in Nat /\ events'[r] >= events[r]
    OBVIOUS
  <2> QED BY <2>1, NothingUndone DEF BounceInv
<1>5. \A x \in AnyProc : ReadSound(x) => ReadSound(x)'
  BY <1>2, <1>3, <1>4, ReadStays DEF BounceInv
<1>6. RowSound'
  BY <1>2, <1>3, <1>4, RowStays DEF BounceInv
<1>7. CurSound'
  <2>1. \A r \in mailbox.cur : r \in Reports /\ Done(r)
    BY DEF BounceInv, BounceSound, CurSound
  <2>2. \A r \in mailbox.cur : Done(r)'
    BY <1>4, <2>1 DEF Undoes
  <2> QED BY <2>2 DEF CurSound
<1>8. ASSUME ReadSound(g)' PROVE BounceInv'
  <2>1. ReadSound(proc[p])'
    BY <1>1, <1>8 DEF ReadSound
  <2>2. \A q \in Processors : proc'[q] = proc[q] \/ ReadSound(proc[q])'
    BY <1>1, <2>1
  <2> QED BY <1>2, <1>3, <1>4, <1>6, <1>7, <2>2, StepKeeps
<1> QED BY <1>2, <1>3, <1>4, <1>5, <1>8

\* Back from recordBounce, whose report is dealt with.
LEMMA ReturnReads ==
    ASSUME NEW p \in Processors, Return(p), NEW x \in AnyProc, proc[p] = x,
           x.pc \in {"create", "act"}
    PROVE  \E g \in AnyProc :
             /\ proc' = [proc EXCEPT ![p] = g]
             /\ ReadSound(x)' /\ Done(x.report)' => ReadSound(g)'
<1> DEFINE g == IF x.file > 0
        THEN [x EXCEPT !.pc = "scan", !.report = NoReport, !.action = "retry"]
        ELSE [x EXCEPT !.pc = "rename", !.action = "retry"]
<1>1. proc' = [proc EXCEPT ![p] = g]
  BY DEF Return
<1>2. x.file \in Nat
  BY DEF AnyProc
<1>3. CASE x.file > 0
  <2> DEFINE h == [x EXCEPT !.pc = "scan", !.report = NoReport, !.action = "retry"]
  <2>1. h \in AnyProc /\ g = h
    BY <1>3 DEF AnyProc
  <2>2. h.pc = "scan" /\ h.file = x.file /\ h.pos = x.pos
    BY DEF AnyProc
  <2> HIDE DEF h, g
  <2>3. PICK y \in AnyProc : y = g /\ y.pc = "scan" /\ y.file = x.file /\ y.pos = x.pos
    BY <2>1, <2>2
  <2>4. ASSUME ReadSound(x)', Done(x.report)' PROVE ReadSound(y)'
    <3>1. \A i \in 1..Len(logs'[x.file]) : 2 * i <= x.pos =>
             Done(logs[x.file][i])' \/ logs'[x.file][i] = x.report
      BY <1>3, <2>4 DEF ReadSound
    <3>2. \A i \in 1..Len(logs'[x.file]) : logs'[x.file][i] = x.report => Done(logs[x.file][i])'
      BY <2>4 DEF Done, ActedOn
    <3>3. x.file <= Len(logs') /\ x.pos <= Size(x.file)'
      BY <1>3, <2>4 DEF ReadSound
    <3> QED BY <1>3, <2>3, <3>1, <3>2, <3>3 DEF ReadSound, Size
  <2> QED BY <1>1, <2>3, <2>4
<1>4. CASE ~(x.file > 0)
  <2> DEFINE h == [x EXCEPT !.pc = "rename", !.action = "retry"]
  <2>1. h \in AnyProc /\ g = h
    BY <1>4 DEF AnyProc
  <2>2. h.pc = "rename" /\ h.file = 0 /\ h.report = x.report
    BY <1>2, <1>4 DEF AnyProc
  <2> HIDE DEF h, g
  <2>3. PICK y \in AnyProc : y = g /\ y.pc = "rename" /\ y.file = 0 /\ y.report = x.report
    BY <2>1, <2>2
  <2>4. ASSUME ReadSound(x)', Done(x.report)' PROVE ReadSound(y)'
    <3>1. x.report \in Reports
      BY <2>4 DEF ReadSound
    <3> QED BY <2>3, <2>4, <3>1 DEF ReadSound, Done, ActedOn
  <2> QED BY <1>1, <2>3, <2>4
<1> QED BY <1>3, <1>4

LEMMA CreateBounceEventKeeps ==
    ASSUME BounceInv, NEW p \in Processors, CreateBounceEvent(p) PROVE BounceInv'
<1>1. PICK x \in AnyProc : x = proc[p] /\ x.pc = "create" /\ ReadSound(x)
  BY DEF BounceInv, BounceSound, CreateBounceEvent, At
<1>2. x.report \in Reports /\ (ClassOf[x.report] = "gone" => x.action = "suppress")
  BY <1>1 DEF ReadSound
<1>3. /\ UNCHANGED <<logs, half, mailbox, contact, suppressed, forgiven>> /\ UNCHANGED rowVars
  BY DEF CreateBounceEvent, inputVars, listVars
<1>4. /\ contact' \in [Emails -> {"active", "bounced", "unsubscribed"}]
      /\ mailbox' \in [new : SUBSET Reports, cur : SUBSET Reports]
      /\ events \in [Reports -> Nat]
  BY <1>3 DEF BounceInv, BounceSound
<1>5. CASE /\ events' = [events EXCEPT ![x.report] = @ + 1]
           /\ Goes(p, "act") /\ UNCHANGED excused
  <2> DEFINE h == [x EXCEPT !.pc = "act"]
  <2>1. h \in AnyProc /\ h.pc = "act" /\ h.report = x.report /\ h.file = x.file /\ h.pos = x.pos
        /\ h.action = x.action
    BY DEF AnyProc
  <2>2. proc' = [proc EXCEPT ![p] = h]
    BY <1>1, <1>5 DEF Goes
  <2> HIDE DEF h
  <2>3. PICK g \in AnyProc :
          /\ proc' = [proc EXCEPT ![p] = g] /\ g.pc = "act" /\ g.report = x.report
          /\ g.file = x.file /\ g.pos = x.pos /\ g.action = x.action
    BY <2>1, <2>2
  <2>4. events' \in [Reports -> Nat] /\ (\A r \in Reports : events'[r] >= events[r]) /\ events'[x.report] > 0
    BY <1>2, <1>4, <1>5
  <2>5. ReadSound(x)' /\ (ReadSound(g)' => BounceInv')
    BY <1>1, <1>3, <1>4, <1>5, <2>3, <2>4, RecordStep
  <2>6. ReadSound(g)'
    <3>1. CASE x.file > 0
      <4>1. /\ x.file <= Len(logs') /\ x.pos <= Size(x.file)'
            /\ \A i \in 1..Len(logs'[x.file]) : 2 * i <= x.pos =>
                 Done(logs[x.file][i])' \/ logs'[x.file][i] = x.report
        BY <1>1, <2>5, <3>1 DEF ReadSound
      <4> QED BY <1>2, <2>3, <2>4, <4>1 DEF ReadSound, Size, Done, ActedOn
    <3>2. CASE ~(x.file > 0)
      BY <1>2, <2>3, <2>4, <3>2 DEF ReadSound
    <3> QED BY <3>1, <3>2
  <2> QED BY <2>5, <2>6
<1>6. CASE /\ excused' = excused \cup {x.report} /\ Return(p) /\ UNCHANGED events
  <2>1. PICK g \in AnyProc :
          /\ proc' = [proc EXCEPT ![p] = g]
          /\ ReadSound(x)' /\ Done(x.report)' => ReadSound(g)'
    BY <1>1, <1>6, ReturnReads
  <2>2. events' \in [Reports -> Nat] /\ \A r \in Reports : events'[r] >= events[r]
    BY <1>4, <1>6
  <2>3. ReadSound(x)' /\ (ReadSound(g)' => BounceInv')
    BY <1>1, <1>3, <1>4, <1>6, <2>1, <2>2, RecordStep
  <2>4. Done(x.report)'
    BY <1>6 DEF Done
  <2> QED BY <2>1, <2>3, <2>4
<1> QED BY <1>1, <1>5, <1>6 DEF CreateBounceEvent

LEMMA ActAndCountKeeps ==
    ASSUME BounceInv, NEW p \in Processors, ActAndCount(p) PROVE BounceInv'
<1>1. PICK x \in AnyProc : x = proc[p] /\ x.pc = "act" /\ ReadSound(x)
  BY DEF BounceInv, BounceSound, ActAndCount, At
<1> DEFINE e == EmailOf[x.report]
<1>2. /\ x.report \in Reports /\ (ClassOf[x.report] = "gone" => x.action = "suppress")
      /\ events[x.report] > 0 /\ e \in Emails
  BY <1>1, ReportFacts DEF ReadSound
<1>3. UNCHANGED <<logs, half, mailbox, events, excused>> /\ UNCHANGED rowVars
  BY DEF ActAndCount, inputVars
<1>4. /\ contact \in [Emails -> {"active", "bounced", "unsubscribed"}]
      /\ mailbox' \in [new : SUBSET Reports, cur : SUBSET Reports]
      /\ events' \in [Reports -> Nat] /\ \A r \in Reports : events'[r] >= events[r]
  BY <1>3 DEF BounceInv, BounceSound
<1>5. contact' = IF x.action = "suppress" THEN [contact EXCEPT ![e] = "bounced"] ELSE contact
  BY <1>1 DEF ActAndCount, Email
<1>6. /\ contact' \in [Emails -> {"active", "bounced", "unsubscribed"}]
      /\ \A a \in Emails : contact[a] # "active" => contact'[a] # "active"
      /\ x.action = "suppress" => contact'[e] # "active"
  BY <1>2, <1>4, <1>5
<1>7. /\ suppressed \subseteq suppressed' /\ forgiven \subseteq forgiven'
      /\ x.action = "suppress" => <<System, e>> \in suppressed' \/ e \in forgiven'
  BY <1>1 DEF ActAndCount, Email
<1>8. PICK g \in AnyProc :
        /\ proc' = [proc EXCEPT ![p] = g]
        /\ ReadSound(x)' /\ Done(x.report)' => ReadSound(g)'
  BY <1>1, ReturnReads DEF ActAndCount
<1>9. ReadSound(x)' /\ (ReadSound(g)' => BounceInv')
  BY <1>1, <1>3, <1>4, <1>6, <1>7, <1>8, RecordStep
<1>10. Done(x.report)'
  BY <1>2, <1>3, <1>6, <1>7 DEF Done, ActedOn
<1> QED BY <1>8, <1>9, <1>10

LEMMA RenameKeeps == ASSUME BounceInv, NEW p \in Processors, Rename(p) PROVE BounceInv'
<1>1. PICK x \in AnyProc : x = proc[p] /\ x.pc = "rename" /\ ReadSound(x)
  BY DEF BounceInv, BounceSound, Rename, At
<1>2. x.report \in Reports /\ Done(x.report) /\ x.file = 0
  BY <1>1 DEF ReadSound
<1>3. UNCHANGED <<logs, half, events, contact, suppressed, forgiven, excused>> /\ UNCHANGED rowVars
  BY DEF Rename, doneVars, listVars
<1>4. mailbox' = [new |-> mailbox.new \ {x.report}, cur |-> mailbox.cur \cup {x.report}]
  BY <1>1 DEF Rename
<1>5. Done(x.report)'
  BY <1>2, <1>3 DEF Done, ActedOn
<1>6. /\ mailbox' \in [new : SUBSET Reports, cur : SUBSET Reports]
      /\ \A r \in mailbox'.cur : r \in mailbox.cur \/ Done(r)'
  BY <1>2, <1>4, <1>5 DEF BounceInv, BounceSound
<1>7. /\ contact' \in [Emails -> {"active", "bounced", "unsubscribed"}]
      /\ events' \in [Reports -> Nat] /\ \A r \in Reports : events'[r] >= events[r]
  BY <1>3 DEF BounceInv, BounceSound
<1> DEFINE g == IF x.todo = {x.report} THEN Resting
                ELSE [x EXCEPT !.pc = "files", !.todo = x.todo \ {x.report}, !.report = NoReport]
<1>8. proc' = [proc EXCEPT ![p] = g]
  BY <1>1 DEF Rename
<1>9. g \in AnyProc /\ g.pc \in {"rest", "files"} /\ g.file = 0
  <2>1. CASE x.todo = {x.report}
    BY <2>1 DEF AnyProc, Resting
  <2>2. CASE x.todo # {x.report}
    <3> DEFINE h == [x EXCEPT !.pc = "files", !.todo = x.todo \ {x.report}, !.report = NoReport]
    <3>1. h \in AnyProc /\ h.pc = "files" /\ h.file = 0
      BY <1>2 DEF AnyProc
    <3>2. g = h
      BY <2>2
    <3> HIDE DEF g, h
    <3> QED BY <3>1, <3>2
  <2> QED BY <2>1, <2>2
<1> HIDE DEF g
<1>10. PICK y \in AnyProc :
         proc' = [proc EXCEPT ![p] = y] /\ y.pc \in {"rest", "files"} /\ y.file = 0
  BY <1>8, <1>9
<1>11. ReadSound(y)'
  BY <1>10 DEF ReadSound
<1> QED BY <1>3, <1>6, <1>7, <1>10, <1>11, RecordStep

LEMMA RestartKeeps == ASSUME BounceInv, Restart PROVE BounceInv'
<1>1. Resting \in AnyProc /\ Resting.pc = "rest" /\ Resting.file = 0
  BY DEF Resting, AnyProc
<1>2. /\ UNCHANGED <<logs, half, mailbox, events, contact, suppressed, forgiven, excused>>
      /\ UNCHANGED rowVars /\ proc' = [p \in Processors |-> Resting]
  BY DEF Restart, inputVars, doneVars, listVars
<1>3. BounceSound'
  BY <1>1, <1>2 DEF BounceInv, BounceSound, rowVars
<1>4. \A p \in Processors : ReadSound(proc[p])'
  BY <1>1, <1>2 DEF ReadSound
<1>5. RowSound' /\ CurSound'
  BY <1>2 DEF BounceInv, RowSound, CurSound, Done, ActedOn, Size, current, rowVars
<1> QED BY <1>3, <1>4, <1>5 DEF BounceInv

\* Requests change the list and the contacts and nothing else.
LEMMA RequestStep ==
    ASSUME BounceInv, Elsewhere,
           contact' \in [Emails -> {"active", "bounced", "unsubscribed"}],
           \A e \in Emails : contact[e] # "active" => contact'[e] # "active",
           \A e \in Emails : <<System, e>> \in suppressed \/ e \in forgiven =>
             <<System, e>> \in suppressed' \/ e \in forgiven'
    PROVE  BounceInv'
<1>1. UNCHANGED <<logs, half, mailbox, events, excused, proc, row, rowFile>> /\ UNCHANGED rowVars
  BY DEF Elsewhere, inputVars, doneVars, rowVars
<1>2. BounceSound'
  BY <1>1 DEF BounceInv, BounceSound
<1>3. Grows
  BY <1>1, SameLog DEF BounceInv
<1>4. \A r \in Reports : events'[r] \in Nat /\ events'[r] >= events[r]
  BY <1>1 DEF BounceInv, BounceSound
<1>5. ~Undoes
  BY <1>1, <1>4, NothingUndone DEF BounceInv
<1>6. RowSound'
  BY <1>1, <1>2, <1>3, <1>5, RowStays DEF BounceInv
<1>7. CurSound'
  <2>1. \A r \in mailbox.cur : r \in Reports /\ Done(r)
    BY DEF BounceInv, BounceSound, CurSound
  <2>2. \A r \in mailbox.cur : Done(r)'
    BY <1>5, <2>1 DEF Undoes
  <2> QED BY <1>1, <2>2 DEF CurSound
<1> QED BY <1>1, <1>2, <1>3, <1>5, <1>6, <1>7, StepKeeps

LEMMA RequestsKeep ==
    ASSUME BounceInv,
           \/ HandleAdd \/ HandleImport \/ HandleUnsubscribeConfirm
           \/ HandleOneClickUnsubscribe \/ AnalyzeUnanalyzedBatches \/ RemoveSuppression
    PROVE  BounceInv'
<1>1. contact \in [Emails -> {"active", "bounced", "unsubscribed"}]
  BY DEF BounceInv, BounceSound
<1>2. ASSUME suppressed \subseteq suppressed', UNCHANGED <<contact, forgiven>>, Elsewhere
      PROVE  BounceInv'
  BY <1>1, <1>2, RequestStep
<1>3. CASE HandleAdd
  <2>1. suppressed \subseteq suppressed'
    BY <1>3 DEF HandleAdd, AddSuppressions
  <2> QED BY <1>2, <1>3, <2>1 DEF HandleAdd
<1>4. CASE HandleImport
  <2>1. suppressed \subseteq suppressed'
    BY <1>4 DEF HandleImport, AddSuppressions
  <2> QED BY <1>2, <1>4, <2>1 DEF HandleImport
<1>5. CASE AnalyzeUnanalyzedBatches
  <2>1. suppressed \subseteq suppressed'
    BY <1>5 DEF AnalyzeUnanalyzedBatches, AddSuppressions
  <2> QED BY <1>2, <1>5, <2>1 DEF AnalyzeUnanalyzedBatches
<1>6. CASE HandleUnsubscribeConfirm \/ HandleOneClickUnsubscribe
  <2>1. PICK org \in Orgs \cup {System}, e \in Emails : Unsubscribe(org, e)
    BY <1>6 DEF HandleUnsubscribeConfirm, HandleOneClickUnsubscribe
  <2>2. /\ contact' \in [Emails -> {"active", "bounced", "unsubscribed"}]
        /\ \A a \in Emails : contact[a] # "active" => contact'[a] # "active"
    BY <1>1, <2>1 DEF Unsubscribe
  <2>3. suppressed \subseteq suppressed' /\ forgiven' = forgiven /\ Elsewhere
    BY <2>1 DEF Unsubscribe, AddSuppressions
  <2> QED BY <2>2, <2>3, RequestStep
<1>7. CASE RemoveSuppression
  <2>1. PICK org \in Orgs \cup {System}, e \in Emails :
        /\ suppressed' = suppressed \ {<<o, e>> : o \in IF org = System THEN Orgs \cup {System} ELSE {org}}
        /\ forgiven' = IF org = System THEN forgiven \cup {e} ELSE forgiven
    BY <1>7 DEF RemoveSuppression
  <2>2. \A a \in Emails : <<System, a>> \in suppressed \/ a \in forgiven =>
             <<System, a>> \in suppressed' \/ a \in forgiven'
    <3>1. CASE org = System
      BY <2>1, <3>1
    <3>2. CASE org # System
      BY <2>1, <3>2
    <3> QED BY <3>1, <3>2
  <2>3. contact' = contact /\ Elsewhere
    BY <1>7 DEF RemoveSuppression
  <2> QED BY <1>1, <2>2, <2>3, RequestStep
<1> QED BY <1>3, <1>4, <1>5, <1>6, <1>7

LEMMA BounceInvStep == BounceInv /\ [BounceNext]_bounceVars => BounceInv'
<1> SUFFICES ASSUME BounceInv, [BounceNext]_bounceVars PROVE BounceInv'
  OBVIOUS
<1>1. ASSUME NEW p \in Processors, Process(p) PROVE BounceInv'
  BY <1>1, OpenLogKeeps, ScanKeeps, SaveStateKeeps, ReadDirKeeps, ReadFileKeeps, RenameKeeps,
     CreateBounceEventKeeps, ActAndCountKeeps DEF Process
<1>2. CASE LogLine \/ FinishLine \/ Rotate \/ DeliverBounce
  BY <1>2, LogLineKeeps, FinishLineKeeps, RotateKeeps, DeliverBounceKeeps
<1>3. CASE UNCHANGED bounceVars
  <2>1. UNCHANGED <<logs, half, mailbox, row, rowFile, events, contact, suppressed, forgiven, proc, excused>>
    BY <1>3 DEF bounceVars
  <2>2. BounceSound'
    BY <2>1 DEF BounceInv, BounceSound
  <2>3. (\A p \in Processors : proc'[p] = proc[p]) /\ \A r \in mailbox.cur : r \in Reports /\ Done(r)
    BY <2>1 DEF BounceInv, BounceSound, CurSound
  <2>4. \A r \in Reports : events'[r] \in Nat /\ events'[r] >= events[r]
    BY <2>1 DEF BounceInv, BounceSound
  <2>5. Grows /\ ~Undoes
    BY <2>1, <2>4, SameLog, NothingUndone DEF BounceInv
  <2>6. RowSound'
    BY <2>1, <2>2, <2>5, RowStays DEF BounceInv, rowVars
  <2>7. CurSound'
    BY <2>1, <2>3, <2>5 DEF CurSound, Undoes
  <2> QED BY <2>2, <2>3, <2>5, <2>6, <2>7, StepKeeps
<1> QED BY <1>1, <1>2, <1>3, RestartKeeps, RequestsKeep DEF BounceNext

(***************************************************************************)
(* For any number of reports, addresses, passes, restarts, rotations and   *)
(* database errors: a report that no pass of either processor will look at *)
(* again (processLogFileIncremental saved an offset behind it, or          *)
(* ProcessMaildirsStreaming moved its file to cur) has become a row, and   *)
(* an address that is gone is suppressed.                                  *)
(***************************************************************************)
THEOREM HandledAlwaysActedOn == BounceSpec => []HandledMeansActedOn
<1>1. ASSUME BounceInv PROVE HandledMeansActedOn
  <2> SUFFICES ASSUME NEW r \in Behind \ excused
               PROVE  /\ events[r] > 0
                      /\ ClassOf[r] = "gone" =>
                           /\ contact[EmailOf[r]] # "active"
                           /\ <<System, EmailOf[r]>> \in suppressed \/ EmailOf[r] \in forgiven
    BY DEF HandledMeansActedOn
  <2>1. Done(r)
    BY <1>1 DEF BounceInv, CurSound, RowSound, Behind
  <2> QED BY <2>1 DEF Done, ActedOn
<1> QED BY <1>1, BounceInvInit, BounceInvStep, PTL DEF BounceSpec

-----------------------------------------------------------------------------
(* The soft bounces of an address *)

\* The address is on the list, or somebody took it off or failed to put it there.
Listed(e) == <<System, e>> \in suppressed \/ e \in forgiven

\* A soft bounce that was counted as one below the threshold has yet to become a row; who
\* is about to list the address has been a row ahead of the list.
Weight(x, e) ==
    IF x.pc = "create" /\ x.action = "retry" /\ EmailOf[x.report] = e /\ ClassOf[x.report] = "soft"
      THEN 1
    ELSE IF x.pc = "act" /\ x.action # "retry" /\ EmailOf[x.report] = e THEN -1
    ELSE 0

Weights(e) == Weight(proc["startup"], e) + Weight(proc["ticker"], e)

Tallies == [passes : Nat, starts : Nat, errors : Nat, edits : Nat, stops : Nat, rotations : Nat]

\* Each restart may cut off both of those who are about to list the address.
SoftInv ==
    /\ budget \in Tallies
    /\ \A e \in Emails : IsFiniteSet(RowsOf(e, {"soft", "later"})) /\ IsFiniteSet(RowsOf(e, {"soft"}))
    /\ \A e \in Emails :
         \/ Listed(e)
         \/ EventsOf(e, {"soft"}) + Weights(e) <= SoftThreshold + 2 * (1 + budget.stops) - 1

LEMMA WeightFacts ==
    /\ \A x, e : Weight(x, e) \in {-1, 0, 1}
    /\ \A x, e : x.pc \notin {"create", "act"} => Weight(x, e) = 0
    /\ \A x, e : x.pc = "create" => Weight(x, e) >= 0
BY DEF Weight

LEMMA SoftFacts ==
    ASSUME SoftInv, NEW e \in Emails
    PROVE  /\ EventsOf(e, {"soft"}) \in Nat /\ EventsOf(e, {"soft", "later"}) \in Nat
           /\ EventsOf(e, {"soft"}) <= EventsOf(e, {"soft", "later"})
           /\ SoftThreshold \in Nat /\ budget.stops \in Nat
           /\ Listed(e) \/ EventsOf(e, {"soft"}) + Weights(e)
                             <= SoftThreshold + 2 * (1 + budget.stops) - 1
<1>1. IsFiniteSet(RowsOf(e, {"soft", "later"})) /\ IsFiniteSet(RowsOf(e, {"soft"}))
  BY DEF SoftInv
<1>2. RowsOf(e, {"soft"}) \subseteq RowsOf(e, {"soft", "later"})
  BY DEF RowsOf
<1>3. /\ EventsOf(e, {"soft"}) \in Nat /\ EventsOf(e, {"soft", "later"}) \in Nat
      /\ EventsOf(e, {"soft"}) <= EventsOf(e, {"soft", "later"})
  BY <1>1, <1>2, FS_CardinalityType, FS_Subset DEF EventsOf
<1> QED BY <1>3, BounceAssumption DEF SoftInv, Tallies

LEMMA SpendFacts ==
    ASSUME budget \in Tallies, NEW what \in DOMAIN budget, Spend(what)
    PROVE  /\ budget' \in Tallies
           /\ budget'.stops = IF what = "stops" THEN budget.stops + 1 ELSE budget.stops
BY DEF Spend, Tallies

\* A step that adds no row, and at most takes up a report below the threshold.
LEMMA NoRowStep ==
    ASSUME SoftInv, events' = events, budget' \in Tallies, budget'.stops >= budget.stops,
           \A e \in Emails : Listed(e) => Listed(e)',
           \A e \in Emails :
             \/ Listed(e)'
             \/ Weights(e)' <= Weights(e) + 2 * (budget'.stops - budget.stops)
             \/ EventsOf(e, {"soft"}) < SoftThreshold
    PROVE  SoftInv'
<1>1. \A e, c : RowsOf(e, c)' = RowsOf(e, c) /\ EventsOf(e, c)' = EventsOf(e, c)
  BY DEF RowsOf, EventsOf
<1>2. ASSUME NEW e \in Emails, ~Listed(e)'
      PROVE  EventsOf(e, {"soft"})' + Weights(e)' <= SoftThreshold + 2 * (1 + budget'.stops) - 1
  <2>1. /\ Weights(e) \in Int /\ Weights(e)' \in Int /\ Weights(e)' <= 2
    BY WeightFacts DEF Weights
  <2>2. budget'.stops \in Nat
    BY DEF Tallies
  <2> QED BY <1>1, <1>2, <2>1, <2>2, SoftFacts
<1> QED BY <1>1, <1>2 DEF SoftInv

\* One processor goes on.
LEMMA WeightStep ==
    ASSUME BounceInv, NEW p \in Processors, NEW y, proc' = [proc EXCEPT ![p] = y], NEW e
    PROVE  Weights(e)' = Weights(e) - Weight(proc[p], e) + Weight(y, e)
<1>1. proc \in [Processors -> AnyProc] /\ Processors = {"startup", "ticker"}
  BY DEF BounceInv, BounceSound, Processors
<1>2. \A x : Weight(x, e) \in Int
  BY WeightFacts
<1>3. Weights(e)' = Weight(proc'["startup"], e) + Weight(proc'["ticker"], e)
  BY DEF Weights, Weight
<1>4. CASE p = "startup"
  <2>1. proc'["startup"] = y /\ proc'["ticker"] = proc["ticker"]
    BY <1>1, <1>4
  <2> QED BY <1>2, <1>3, <1>4, <2>1 DEF Weights
<1>5. CASE p = "ticker"
  <2>1. proc'["ticker"] = y /\ proc'["startup"] = proc["startup"]
    BY <1>1, <1>5
  <2> QED BY <1>2, <1>3, <1>5, <2>1 DEF Weights
<1> QED BY <1>1, <1>4, <1>5

\* One processor goes on, adds no row, and takes up no report, or one below the threshold.
LEMMA ProcessorStep ==
    ASSUME BounceInv, SoftInv, NEW p \in Processors, NEW y, proc' = [proc EXCEPT ![p] = y],
           events' = events, budget' \in Tallies, budget'.stops = budget.stops,
           \A e \in Emails : Listed(e) => Listed(e)',
           \A e \in Emails :
             \/ Listed(e)' \/ Weight(y, e) <= Weight(proc[p], e)
             \/ EventsOf(e, {"soft"}) < SoftThreshold
    PROVE  SoftInv'
<1>1. ASSUME NEW e \in Emails
      PROVE  \/ Listed(e)'
             \/ Weights(e)' <= Weights(e) + 2 * (budget'.stops - budget.stops)
             \/ EventsOf(e, {"soft"}) < SoftThreshold
  <2>1. Weights(e) \in Int /\ Weight(proc[p], e) \in Int /\ Weight(y, e) \in Int
    BY WeightFacts DEF Weights
  <2>2. Weights(e)' = Weights(e) - Weight(proc[p], e) + Weight(y, e)
    BY WeightStep
  <2>3. budget'.stops - budget.stops = 0
    BY DEF Tallies
  <2> QED BY <2>1, <2>2, <2>3
<1>2. budget'.stops >= budget.stops
  BY DEF Tallies
<1> QED BY <1>1, <1>2, NoRowStep

\* What is classified as a soft bounce to retry has been counted below the threshold.
LEMMA TakenUp ==
    ASSUME SoftInv, NEW y, y.pc = "create", y.report \in Reports,
           y.action = classifyBounce(y.report), NEW e \in Emails
    PROVE  Weight(y, e) <= 0 \/ EventsOf(e, {"soft"}) < SoftThreshold
<1>1. CASE ClassOf[y.report] = "soft" /\ EmailOf[y.report] = e /\ y.action = "retry"
  <2>1. ~(EventsOf(e, {"soft", "later"}) >= SoftThreshold)
    BY <1>1 DEF classifyBounce
  <2> QED BY <2>1, SoftFacts
<1>2. CASE ~(ClassOf[y.report] = "soft" /\ EmailOf[y.report] = e /\ y.action = "retry")
  BY <1>2 DEF Weight
<1> QED BY <1>1, <1>2

\* The steps of a pass outside of recordBounce.
LEMMA PassKeepsSoft ==
    ASSUME BounceInv, SoftInv, NEW p \in Processors,
           OpenLog(p) \/ Scan(p) \/ SaveState(p) \/ ReadDir(p) \/ ReadFile(p) \/ Rename(p)
    PROVE  SoftInv'
<1>1. PICK x \in AnyProc : x = proc[p] /\ ReadSound(x)
  BY DEF BounceInv, BounceSound
<1>2. x.pc \in {"rest", "scan", "readdir", "files", "rename"}
  BY <1>1 DEF OpenLog, MayRun, Scan, SaveState, ReadDir, ReadFile, Rename, At
<1>3. UNCHANGED <<events, suppressed, forgiven>>
  BY DEF OpenLog, Scan, SaveState, ReadDir, ReadFile, Rename, doneVars, listVars
<1>4. budget' \in Tallies /\ budget'.stops = budget.stops
  <2>1. CASE OpenLog(p)
    <3>1. Spend("starts") \/ Spend("passes")
      BY <2>1 DEF OpenLog, MayRun
    <3> QED BY <3>1, SpendFacts DEF SoftInv, Tallies
  <2>2. CASE ~OpenLog(p)
    BY <2>2 DEF Scan, SaveState, ReadDir, ReadFile, Rename, SoftInv
  <2> QED BY <2>1, <2>2
<1>5. \E y : /\ proc' = [proc EXCEPT ![p] = y]
             /\ \/ y.pc \in {"rest", "scan", "readdir", "files", "rename"}
                \/ y.pc = "create" /\ y.report \in Reports /\ y.action = classifyBounce(y.report)
  <2>1. CASE OpenLog(p)
    <3>1. CASE Goes(p, "readdir")
      <4>1. PICK y : y = [x EXCEPT !.pc = "readdir"]
        OBVIOUS
      <4>2. y.pc = "readdir"
        BY <4>1 DEF AnyProc
      <4>3. proc' = [proc EXCEPT ![p] = y]
        BY <1>1, <3>1, <4>1 DEF Goes
      <4> QED BY <4>2, <4>3
    <3>2. CASE \E s, from : proc' = [proc EXCEPT ![p] =
                  [x EXCEPT !.pc = "scan", !.file = current, !.pos = from, !.size = s]]
      <4>1. PICK s, from : proc' = [proc EXCEPT ![p] =
                  [x EXCEPT !.pc = "scan", !.file = current, !.pos = from, !.size = s]]
        BY <3>2
      <4>2. PICK y : y = [x EXCEPT !.pc = "scan", !.file = current, !.pos = from, !.size = s]
        OBVIOUS
      <4>3. y.pc = "scan"
        BY <4>2 DEF AnyProc
      <4> QED BY <4>1, <4>2, <4>3
    <3> QED BY <1>1, <2>1, <3>1, <3>2 DEF OpenLog
  <2>2. CASE Scan(p)
    <3>1. x.file > 0 /\ x.pc = "scan" /\ x.pos < Size(x.file)
      BY <1>1, <2>2 DEF Scan, At, ReadSound
    <3>2. PICK r \in Reports : r = logs[x.file][x.pos \div 2 + 1]
      <4>1. x.file \in Nat /\ x.pos \in Nat
        BY <1>1, <3>1 DEF AnyProc
      <4>2. /\ Len(logs[x.file]) \in Nat
            /\ Size(x.file) \in {2 * Len(logs[x.file]), 2 * Len(logs[x.file]) - 1}
            /\ \A i \in 1..Len(logs[x.file]) : logs[x.file][i] \in Reports
        <5>1. x.file \in 1..current
          <6>1. x.file <= current
            BY <1>1, <3>1 DEF ReadSound, current
          <6>2. current \in Nat
            BY LogFacts DEF BounceInv
          <6> QED BY <3>1, <4>1, <6>1, <6>2
        <5> QED BY <5>1, LogFacts DEF BounceInv
      <4>3. x.pos \div 2 + 1 \in 1..Len(logs[x.file])
        <5>1. x.pos < 2 * Len(logs[x.file])
          BY <3>1, <4>1, <4>2
        <5> QED BY <4>1, <4>2, <5>1
      <4> QED BY <4>2, <4>3
    <3>3. \/ \E pos : proc' = [proc EXCEPT ![p] = [x EXCEPT
                !.pc = "create", !.pos = pos, !.report = r, !.action = classifyBounce(r)]]
          \/ proc' = [proc EXCEPT ![p] = [x EXCEPT !.pos = x.pos + 1]]
      BY <1>1, <2>2, <3>2 DEF Scan
    <3>4. CASE \E pos : proc' = [proc EXCEPT ![p] = [x EXCEPT
                  !.pc = "create", !.pos = pos, !.report = r, !.action = classifyBounce(r)]]
      <4>1. PICK pos : proc' = [proc EXCEPT ![p] = [x EXCEPT
                  !.pc = "create", !.pos = pos, !.report = r, !.action = classifyBounce(r)]]
        BY <3>4
      <4>2. PICK y : y = [x EXCEPT !.pc = "create", !.pos = pos, !.report = r,
                                   !.action = classifyBounce(r)]
        OBVIOUS
      <4>3. y.pc = "create" /\ y.report = r /\ y.action = classifyBounce(r)
        BY <4>2 DEF AnyProc
      <4> QED BY <4>1, <4>2, <4>3
    <3>5. CASE proc' = [proc EXCEPT ![p] = [x EXCEPT !.pos = x.pos + 1]]
      <4>1. PICK y : y = [x EXCEPT !.pos = x.pos + 1]
        OBVIOUS
      <4>2. y.pc = "scan"
        BY <3>1, <4>1 DEF AnyProc
      <4> QED BY <3>5, <4>1, <4>2
    <3> QED BY <3>3, <3>4, <3>5
  <2>3. CASE SaveState(p)
    <3>1. PICK y : y = [Resting EXCEPT !.pc = "readdir"]
      OBVIOUS
    <3>2. y.pc = "readdir"
      BY <3>1 DEF Resting
    <3> QED BY <2>3, <3>1, <3>2 DEF SaveState
  <2>4. CASE ReadDir(p)
    <3>1. PICK y : y = IF mailbox.new = {} THEN Resting
                       ELSE [x EXCEPT !.pc = "files", !.todo = mailbox.new]
      OBVIOUS
    <3>2. y.pc \in {"rest", "files"}
      BY <3>1 DEF Resting, AnyProc
    <3>3. proc' = [proc EXCEPT ![p] = y]
      BY <1>1, <2>4, <3>1 DEF ReadDir
    <3> QED BY <3>2, <3>3
  <2>5. CASE ReadFile(p)
    <3>0. x.pc = "files" /\ x.todo \subseteq Reports
      BY <1>1, <2>5 DEF ReadFile, At, AnyProc
    <3>1. PICK r \in Reports : proc' = [proc EXCEPT ![p] =
            IF r \in mailbox.new
              THEN [x EXCEPT !.pc = "create", !.report = r, !.action = classifyBounce(r)]
            ELSE IF x.todo = {r} THEN Resting
            ELSE [x EXCEPT !.todo = x.todo \ {r}]]
      BY <1>1, <2>5, <3>0 DEF ReadFile
    <3>2. PICK y : y = IF r \in mailbox.new
              THEN [x EXCEPT !.pc = "create", !.report = r, !.action = classifyBounce(r)]
            ELSE IF x.todo = {r} THEN Resting
            ELSE [x EXCEPT !.todo = x.todo \ {r}]
      OBVIOUS
    <3>3. \/ y.pc \in {"rest", "files"}
          \/ y.pc = "create" /\ y.report = r /\ y.action = classifyBounce(r)
      BY <3>0, <3>2 DEF Resting, AnyProc
    <3> QED BY <3>1, <3>2, <3>3
  <2>6. CASE Rename(p)
    <3>1. PICK y : y = IF x.todo = {x.report} THEN Resting
             ELSE [x EXCEPT !.pc = "files", !.todo = x.todo \ {x.report}, !.report = NoReport]
      OBVIOUS
    <3>2. y.pc \in {"rest", "files"}
      BY <3>1 DEF Resting, AnyProc
    <3>3. proc' = [proc EXCEPT ![p] = y]
      BY <1>1, <2>6, <3>1 DEF Rename
    <3> QED BY <3>2, <3>3
  <2> QED BY <2>1, <2>2, <2>3, <2>4, <2>5, <2>6
<1>6. PICK y : /\ proc' = [proc EXCEPT ![p] = y]
               /\ \/ y.pc \in {"rest", "scan", "readdir", "files", "rename"}
                  \/ y.pc = "create" /\ y.report \in Reports /\ y.action = classifyBounce(y.report)
  BY <1>5
<1>7. ASSUME NEW e \in Emails
      PROVE  Weight(y, e) <= Weight(proc[p], e) \/ EventsOf(e, {"soft"}) < SoftThreshold
  <2>1. Weight(proc[p], e) = 0
    BY <1>1, <1>2, WeightFacts
  <2>2. Weight(y, e) <= 0 \/ EventsOf(e, {"soft"}) < SoftThreshold
    BY <1>6, TakenUp, WeightFacts
  <2> QED BY <2>1, <2>2
<1>8. \A e \in Emails : Listed(e) => Listed(e)'
  BY <1>3 DEF Listed
<1> QED BY <1>3, <1>4, <1>6, <1>7, <1>8, ProcessorStep

LEMMA RowAdded ==
    ASSUME BounceInv, NEW r \in Reports, events' = [events EXCEPT ![r] = @ + 1],
           NEW e, NEW c, IsFiniteSet(RowsOf(e, c))
    PROVE  /\ IsFiniteSet(RowsOf(e, c))'
           /\ EventsOf(e, c)' = EventsOf(e, c) + (IF EmailOf[r] = e /\ ClassOf[r] \in c THEN 1 ELSE 0)
<1>1. events \in [Reports -> Nat]
  BY DEF BounceInv, BounceSound
<1>2. \A t : t \in RowsOf(e, c) <=>
        \E q \in Reports : EmailOf[q] = e /\ ClassOf[q] \in c /\ \E i \in 1..events[q] : t = <<q, i>>
  BY DEF RowsOf
<1>3. \A t : t \in RowsOf(e, c)' <=>
        \E q \in Reports : EmailOf[q] = e /\ ClassOf[q] \in c /\ \E i \in 1..events'[q] : t = <<q, i>>
  BY DEF RowsOf
<1>4. PICK n \in Nat : n = events[r]
  BY <1>1
<1>5. /\ \A q \in Reports : q # r => events'[q] = events[q]
      /\ events'[r] = n + 1
  BY <1>1, <1>4
<1>6. \A i : i \in 1..(n + 1) <=> i \in 1..n \/ i = n + 1
  BY <1>4
<1>7. EventsOf(e, c) \in Nat
  BY FS_CardinalityType DEF EventsOf
<1>8. CASE EmailOf[r] = e /\ ClassOf[r] \in c
  <2>1. RowsOf(e, c)' = RowsOf(e, c) \cup {<<r, n + 1>>}
    <3>1. ASSUME NEW t, t \in RowsOf(e, c)'
          PROVE  t \in RowsOf(e, c) \cup {<<r, n + 1>>}
      <4>1. PICK q \in Reports :
              EmailOf[q] = e /\ ClassOf[q] \in c /\ \E i \in 1..events'[q] : t = <<q, i>>
        BY <1>3, <3>1
      <4>2. CASE q = r
        BY <1>2, <1>4, <1>5, <1>6, <4>1, <4>2
      <4>3. CASE q # r
        BY <1>2, <1>5, <4>1, <4>3
      <4> QED BY <4>2, <4>3
    <3>2. ASSUME NEW t, t \in RowsOf(e, c)
          PROVE  t \in RowsOf(e, c)'
      <4>1. PICK q \in Reports :
              EmailOf[q] = e /\ ClassOf[q] \in c /\ \E i \in 1..events[q] : t = <<q, i>>
        BY <1>2, <3>2
      <4>2. PICK i \in 1..events[q] : t = <<q, i>>
        BY <4>1
      <4>3. i \in 1..events'[q]
        BY <1>4, <1>5, <1>6, <4>2
      <4> QED BY <1>3, <4>1, <4>2, <4>3
    <3>3. n + 1 \in 1..events'[r]
      BY <1>4, <1>5
    <3>4. <<r, n + 1>> \in RowsOf(e, c)'
      BY <1>3, <1>8, <3>3
    <3> QED BY <3>1, <3>2, <3>4
  <2>2. <<r, n + 1>> \notin RowsOf(e, c)
    <3>1. SUFFICES ASSUME <<r, n + 1>> \in RowsOf(e, c) PROVE FALSE
      OBVIOUS
    <3>2. \E q \in Reports : \E i \in 1..events[q] : <<r, n + 1>> = <<q, i>>
      BY <1>2, <3>1
    <3>3. n + 1 \in 1..n
      BY <1>4, <3>2
    <3> QED BY <3>3
  <2>3. /\ IsFiniteSet(RowsOf(e, c) \cup {<<r, n + 1>>})
        /\ Cardinality(RowsOf(e, c) \cup {<<r, n + 1>>}) = Cardinality(RowsOf(e, c)) + 1
    BY <2>2, FS_AddElement
  <2> QED BY <1>8, <2>1, <2>3 DEF EventsOf
<1>9. CASE ~(EmailOf[r] = e /\ ClassOf[r] \in c)
  <2>1. RowsOf(e, c)' = RowsOf(e, c)
    <3>1. \A t : t \in RowsOf(e, c)' <=> t \in RowsOf(e, c)
      BY <1>2, <1>3, <1>5, <1>9
    <3> QED BY <3>1
  <2> QED BY <1>7, <1>9, <2>1 DEF EventsOf
<1> QED BY <1>8, <1>9

LEMMA ReturnFacts ==
    ASSUME BounceInv, NEW p \in Processors, Return(p)
    PROVE  \E y : proc' = [proc EXCEPT ![p] = y] /\ y.pc \in {"scan", "rename"}
<1>1. PICK x \in AnyProc : x = proc[p]
  BY DEF BounceInv, BounceSound
<1>2. PICK y : y = IF x.file > 0
                     THEN [x EXCEPT !.pc = "scan", !.report = NoReport, !.action = "retry"]
                     ELSE [x EXCEPT !.pc = "rename", !.action = "retry"]
  OBVIOUS
<1>3. y.pc \in {"scan", "rename"}
  BY <1>2 DEF AnyProc
<1>4. proc' = [proc EXCEPT ![p] = y]
  BY <1>1, <1>2 DEF Return
<1> QED BY <1>3, <1>4

\* A row is added by the processor that has been counted for it, or by one that is about
\* to list the address.
LEMMA CreateKeepsSoft ==
    ASSUME BounceInv, SoftInv, NEW p \in Processors, CreateBounceEvent(p)
    PROVE  SoftInv'
<1>1. PICK x \in AnyProc : x = proc[p] /\ ReadSound(x)
  BY DEF BounceInv, BounceSound
<1>2. x.pc = "create" /\ x.report \in Reports
  BY <1>1 DEF CreateBounceEvent, At, ReadSound
<1>3. UNCHANGED <<suppressed, forgiven>>
  BY DEF CreateBounceEvent, listVars
<1>4. \A e \in Emails : Listed(e)' <=> Listed(e)
  BY <1>3 DEF Listed
<1>5. CASE events' = [events EXCEPT ![x.report] = @ + 1] /\ Goes(p, "act") /\ UNCHANGED budget
  <2>1. PICK y : y = [x EXCEPT !.pc = "act"]
    OBVIOUS
  <2>2. y.pc = "act" /\ y.report = x.report /\ y.action = x.action
    BY <2>1 DEF AnyProc
  <2>3. proc' = [proc EXCEPT ![p] = y]
    BY <1>1, <1>5, <2>1 DEF Goes
  <2>4. ASSUME NEW e \in Emails
        PROVE  /\ IsFiniteSet(RowsOf(e, {"soft", "later"}))' /\ IsFiniteSet(RowsOf(e, {"soft"}))'
               /\ EventsOf(e, {"soft"})' + Weights(e)' <= EventsOf(e, {"soft"}) + Weights(e)
    <3>1. IsFiniteSet(RowsOf(e, {"soft", "later"})) /\ IsFiniteSet(RowsOf(e, {"soft"}))
      BY DEF SoftInv
    <3>2. IsFiniteSet(RowsOf(e, {"soft", "later"}))'
      BY <1>2, <1>5, <3>1, RowAdded
    <3>3. PICK d : d = IF EmailOf[x.report] = e /\ ClassOf[x.report] = "soft" THEN 1 ELSE 0
      OBVIOUS
    <3>4. IsFiniteSet(RowsOf(e, {"soft"}))' /\ EventsOf(e, {"soft"})' = EventsOf(e, {"soft"}) + d
      <4>1. PICK c : c = {"soft"}
        OBVIOUS
      <4>2. PICK r \in Reports : r = x.report
        BY <1>2
      <4>3. events' = [events EXCEPT ![r] = @ + 1] /\ IsFiniteSet(RowsOf(e, c))
        BY <1>5, <3>1, <4>1, <4>2
      <4>4. /\ IsFiniteSet(RowsOf(e, c))'
            /\ EventsOf(e, c)' = EventsOf(e, c) + (IF EmailOf[r] = e /\ ClassOf[r] \in c THEN 1 ELSE 0)
        BY <4>3, RowAdded
      <4>5. ClassOf[x.report] \in c <=> ClassOf[x.report] = "soft"
        BY <4>1
      <4>6. EventsOf(e, c)' = EventsOf(e, c) + d
        BY <3>3, <4>2, <4>5, <4>4
      <4> QED BY <4>1, <4>6, <4>4
    <3>5. Weight(y, e) + d <= Weight(x, e)
      BY <1>2, <2>2, <3>3 DEF Weight
    <3>6. Weights(e)' = Weights(e) - Weight(x, e) + Weight(y, e)
      BY <1>1, <2>3, WeightStep
    <3>7. /\ EventsOf(e, {"soft"}) \in Int /\ Weights(e) \in Int /\ d \in Int
          /\ Weight(x, e) \in Int /\ Weight(y, e) \in Int
      BY <3>3, SoftFacts, WeightFacts DEF Weights
    <3> QED BY <3>2, <3>4, <3>5, <3>6, <3>7
  <2>5. ASSUME NEW e \in Emails, ~Listed(e)'
        PROVE  EventsOf(e, {"soft"})' + Weights(e)' <= SoftThreshold + 2 * (1 + budget'.stops) - 1
    <3>1. EventsOf(e, {"soft"}) + Weights(e) <= SoftThreshold + 2 * (1 + budget.stops) - 1
      BY <1>4, <2>5 DEF SoftInv
    <3>2. EventsOf(e, {"soft"})' \in Int
      BY <2>4, FS_CardinalityType DEF EventsOf
    <3>3. Weights(e)' \in Int /\ Weights(e) \in Int /\ EventsOf(e, {"soft"}) \in Int
      BY SoftFacts, WeightFacts DEF Weights
    <3>4. SoftThreshold + 2 * (1 + budget.stops) - 1 \in Int
      BY SoftFacts
    <3>5. EventsOf(e, {"soft"})' + Weights(e)' <= EventsOf(e, {"soft"}) + Weights(e)
      BY <2>4
    <3> QED BY <1>5, <3>1, <3>2, <3>3, <3>4, <3>5
  <2> QED BY <1>5, <2>4, <2>5 DEF SoftInv
<1>6. CASE Disturb("errors") /\ Return(p) /\ UNCHANGED events
  <2>1. budget' \in Tallies /\ budget'.stops = budget.stops
    <3>1. budget \in Tallies /\ "errors" \in DOMAIN budget
      BY DEF SoftInv, Tallies
    <3> QED BY <1>6, <3>1, SpendFacts DEF Disturb
  <2>2. PICK y : proc' = [proc EXCEPT ![p] = y] /\ y.pc \in {"scan", "rename"}
    BY <1>6, ReturnFacts
  <2>3. \A e \in Emails : Weight(y, e) <= Weight(proc[p], e)
    BY <1>1, <1>2, <2>2, WeightFacts
  <2> QED BY <1>4, <1>6, <2>1, <2>2, <2>3, ProcessorStep
<1>7. proc[p].report = x.report
  BY <1>1
<1> QED BY <1>5, <1>6, <1>7 DEF CreateBounceEvent

\* Who lists the address, or fails to, need not be counted any more.
LEMMA ActKeepsSoft ==
    ASSUME BounceInv, SoftInv, NEW p \in Processors, ActAndCount(p)
    PROVE  SoftInv'
<1>1. PICK x \in AnyProc : x = proc[p] /\ ReadSound(x)
  BY DEF BounceInv, BounceSound
<1>2. x.pc = "act" /\ x.report \in Reports
  BY <1>1 DEF ActAndCount, At, ReadSound
<1>3. PICK y : proc' = [proc EXCEPT ![p] = y] /\ y.pc \in {"scan", "rename"}
  BY ReturnFacts DEF ActAndCount
<1>4. budget' \in Tallies /\ budget'.stops = budget.stops
  <2>1. budget \in Tallies /\ "errors" \in DOMAIN budget
    BY DEF SoftInv, Tallies
  <2> QED BY <2>1, SpendFacts DEF ActAndCount, Disturb
<1>5. events' = events
  BY DEF ActAndCount
<1>6. suppressed \subseteq suppressed' /\ forgiven \subseteq forgiven'
  BY DEF ActAndCount
<1>7. \A e \in Emails : Listed(e) => Listed(e)'
  BY <1>6 DEF Listed
<1>8. ASSUME NEW e \in Emails
      PROVE  Listed(e)' \/ Weight(y, e) <= Weight(proc[p], e)
  <2>1. Weight(y, e) = 0
    BY <1>3, WeightFacts
  <2>2. CASE x.action # "retry" /\ EmailOf[x.report] = e
    BY <1>1, <2>2 DEF ActAndCount, Listed, Email
  <2>3. CASE ~(x.action # "retry" /\ EmailOf[x.report] = e)
    BY <1>1, <1>2, <2>1, <2>3 DEF Weight
  <2> QED BY <2>2, <2>3
<1> QED BY <1>3, <1>4, <1>5, <1>7, <1>8, ProcessorStep

\* Whatever the processors had in their hands is lost, two listings at the most.
LEMMA RestartKeepsSoft ==
    ASSUME BounceInv, SoftInv, Restart
    PROVE  SoftInv'
<1>1. budget' \in Tallies /\ budget'.stops = budget.stops + 1
  <2>1. budget \in Tallies /\ "stops" \in DOMAIN budget
    BY DEF SoftInv, Tallies
  <2> QED BY <2>1, SpendFacts DEF Restart, Disturb
<1>2. UNCHANGED <<events, suppressed, forgiven>>
  BY DEF Restart, doneVars, listVars
<1>3. proc'["startup"] = Resting /\ proc'["ticker"] = Resting
  BY DEF Restart, Processors
<1>4. ASSUME NEW e \in Emails
      PROVE  Weights(e)' <= Weights(e) + 2 * (budget'.stops - budget.stops)
  <2>1. Resting.pc \notin {"create", "act"}
    BY DEF Resting
  <2>2. Weight(Resting, e) = 0
    BY <2>1, WeightFacts
  <2>3. Weights(e)' = Weight(proc'["startup"], e) + Weight(proc'["ticker"], e)
    BY DEF Weights, Weight
  <2>4. Weights(e)' = 0
    BY <1>3, <2>2, <2>3
  <2>5. Weights(e) \in Int /\ Weights(e) >= -2
    BY WeightFacts DEF Weights
  <2>6. budget'.stops - budget.stops = 1
    BY <1>1, SoftFacts
  <2> QED BY <2>4, <2>5, <2>6
<1>5. \A e \in Emails : Listed(e) => Listed(e)'
  BY <1>2 DEF Listed
<1>6. budget'.stops >= budget.stops
  BY <1>1 DEF SoftInv, Tallies
<1> QED BY <1>1, <1>2, <1>4, <1>5, <1>6, NoRowStep

\* What the MTA and the requests do leaves the rows and the processors alone.
LEMMA OthersKeepSoft ==
    ASSUME SoftInv, UNCHANGED <<events, proc>>,
           budget' \in Tallies, budget'.stops = budget.stops,
           \A e \in Emails : Listed(e) => Listed(e)'
    PROVE  SoftInv'
<1>1. \A e \in Emails : Weights(e)' = Weights(e) /\ Weights(e) \in Int
  BY WeightFacts DEF Weights, Weight
<1>2. budget.stops \in Nat /\ budget'.stops >= budget.stops /\ budget'.stops - budget.stops = 0
  BY DEF SoftInv, Tallies
<1>3. \A e \in Emails : Weights(e)' <= Weights(e) + 2 * (budget'.stops - budget.stops)
  BY <1>1, <1>2
<1> QED BY <1>2, <1>3, NoRowStep

LEMMA SoftInvStep ==
    BounceInv /\ SoftInv /\ [BounceNext]_bounceVars => SoftInv'
<1> SUFFICES ASSUME BounceInv, SoftInv, [BounceNext]_bounceVars PROVE SoftInv'
  OBVIOUS
<1>0. budget \in Tallies /\ {"edits", "rotations"} \subseteq DOMAIN budget
  BY DEF SoftInv, Tallies
<1>1. ASSUME NEW p \in Processors, Process(p) PROVE SoftInv'
  BY <1>1, PassKeepsSoft, CreateKeepsSoft, ActKeepsSoft DEF Process
<1>2. ASSUME LogLine \/ FinishLine \/ DeliverBounce PROVE SoftInv'
  <2>1. UNCHANGED <<events, proc, budget, suppressed, forgiven>>
    BY <1>2 DEF LogLine, FinishLine, DeliverBounce, doneVars, listVars
  <2> QED BY <1>0, <2>1, OthersKeepSoft DEF Listed
<1>3. ASSUME Rotate PROVE SoftInv'
  <2>1. UNCHANGED <<events, proc, suppressed, forgiven>> /\ Spend("rotations")
    BY <1>3 DEF Rotate, doneVars, listVars, Disturb
  <2>2. budget' \in Tallies /\ budget'.stops = budget.stops
    BY <1>0, <2>1, SpendFacts
  <2> QED BY <2>1, <2>2, OthersKeepSoft DEF Listed
<1>4. ASSUME \/ HandleAdd \/ HandleImport \/ HandleUnsubscribeConfirm
             \/ HandleOneClickUnsubscribe \/ AnalyzeUnanalyzedBatches \/ RemoveSuppression
      PROVE  SoftInv'
  <2>1. UNCHANGED <<events, proc>> /\ Spend("edits")
    BY <1>4 DEF HandleAdd, HandleImport, HandleUnsubscribeConfirm, HandleOneClickUnsubscribe,
                AnalyzeUnanalyzedBatches, RemoveSuppression, Unsubscribe, Elsewhere, doneVars, Disturb
  <2>2. budget' \in Tallies /\ budget'.stops = budget.stops
    BY <1>0, <2>1, SpendFacts
  <2>3. CASE RemoveSuppression
    <3>1. PICK org \in Orgs \cup {System}, e \in Emails :
            /\ suppressed' = suppressed \ {<<o, e>> : o \in IF org = System THEN Orgs \cup {System} ELSE {org}}
            /\ forgiven' = IF org = System THEN forgiven \cup {e} ELSE forgiven
      BY <2>3 DEF RemoveSuppression
    <3>2. ASSUME NEW a \in Emails, Listed(a) PROVE Listed(a)'
      <4>1. CASE org = System /\ a = e
        BY <3>1, <4>1 DEF Listed
      <4>2. CASE ~(org = System /\ a = e)
        BY <3>1, <3>2, <4>2 DEF Listed
      <4> QED BY <4>1, <4>2
    <3> QED BY <2>1, <2>2, <3>2, OthersKeepSoft
  <2>4. CASE ~RemoveSuppression
    <3>1. suppressed \subseteq suppressed' /\ forgiven' = forgiven
      BY <1>4, <2>4 DEF HandleAdd, HandleImport, HandleUnsubscribeConfirm,
           HandleOneClickUnsubscribe, AnalyzeUnanalyzedBatches, Unsubscribe, AddSuppressions
    <3> QED BY <2>1, <2>2, <3>1, OthersKeepSoft DEF Listed
  <2> QED BY <2>3, <2>4
<1>5. ASSUME UNCHANGED bounceVars PROVE SoftInv'
  <2>1. UNCHANGED <<events, proc, budget, suppressed, forgiven>>
    BY <1>5 DEF bounceVars
  <2> QED BY <1>0, <2>1, OthersKeepSoft DEF Listed
<1> QED BY <1>1, <1>2, <1>3, <1>4, <1>5, RestartKeepsSoft DEF BounceNext

LEMMA SoftInvInit == BounceInit => SoftInv
<1> SUFFICES ASSUME BounceInit PROVE SoftInv
  OBVIOUS
<1>1. budget \in Tallies /\ budget.stops = 0
  BY DEF BounceInit, Tallies
<1>2. \A e, c : RowsOf(e, c) = {}
  BY DEF BounceInit, RowsOf
<1>3. \A e, c : IsFiniteSet(RowsOf(e, c)) /\ EventsOf(e, c) = 0
  BY <1>2, FS_EmptySet DEF EventsOf
<1>4. \A e : Weights(e) = 0
  <2>1. Resting.pc \notin {"create", "act"}
    BY DEF Resting
  <2>2. proc["startup"] = Resting /\ proc["ticker"] = Resting
    BY DEF BounceInit, Processors
  <2>3. \A e : Weight(Resting, e) = 0
    BY <2>1, WeightFacts
  <2> QED BY <2>2, <2>3 DEF Weights
<1>5. \A e \in Emails : EventsOf(e, {"soft"}) + Weights(e) <= SoftThreshold + 2 * (1 + budget.stops) - 1
  BY <1>1, <1>3, <1>4, BounceAssumption
<1> QED BY <1>1, <1>3, <1>5 DEF SoftInv

LEMMA TwoProcessors == Cardinality(Processors) = 2
<1>1. Processors = {"startup"} \cup {"ticker"} /\ "ticker" \notin {"startup"}
  BY DEF Processors
<1>2. IsFiniteSet({"startup"}) /\ Cardinality({"startup"}) = 1
  BY FS_Singleton
<1> QED BY <1>1, <1>2, FS_AddElement

LEMMA SoftInvBounds == BounceInv /\ SoftInv => SoftBounceOvershootBounded
<1> SUFFICES ASSUME BounceInv, SoftInv, NEW e \in Emails, ~Listed(e),
                    EventsOf(e, {"soft"}) > SoftThreshold + Cardinality(Processors) * (1 + budget.stops) - 1
             PROVE  \E p \in Processors : At(p, "act") /\ Email(p) = e /\ proc[p].action # "retry"
  BY DEF SoftBounceOvershootBounded, Listed
<1>1. EventsOf(e, {"soft"}) > SoftThreshold + 2 * (1 + budget.stops) - 1
  BY TwoProcessors
<1>2. Weights(e) < 0
  <2>1. Weights(e) \in Int
    BY WeightFacts DEF Weights
  <2> QED BY <1>1, <2>1, SoftFacts
<1>3. PICK p \in Processors : Weight(proc[p], e) < 0
  BY <1>2, WeightFacts DEF Weights, Processors
<1>4. At(p, "act") /\ Email(p) = e /\ proc[p].action # "retry"
  BY <1>3 DEF Weight, At, Email
<1> QED BY <1>4

\* Whatever the two processors and the restarts do, and for any number of reports, an
\* address stays off the list for no more soft bounces than the threshold and one for
\* every processor and start, beyond which it is on the list or on its way there.
THEOREM SoftBouncesAlwaysBounded == BounceSpec => []SoftBounceOvershootBounded
<1>1. BounceInit => BounceInv /\ SoftInv
  BY BounceInvInit, SoftInvInit
<1>2. BounceInv /\ SoftInv /\ [BounceNext]_bounceVars => BounceInv' /\ SoftInv'
  BY BounceInvStep, SoftInvStep
<1> QED BY <1>1, <1>2, SoftInvBounds, PTL DEF BounceSpec
=============================================================================
