---------------------------- MODULE FolderMonitor ----------------------------
(***************************************************************************)
(* A monitor that a Worker has set up on a folder (setupPackagesMonitor):  *)
(* the FileWatcher, which turns the events of the file system into events  *)
(* about files that are there and stable, and the reports of the files and *)
(* their versions that are sent to the ExpectationManager.                 *)
(*                                                                         *)
(* There is one file in the folder, which others write and delete: `file`  *)
(* is its version (its size and date differ from those of all others), or  *)
(* NoFile.  A step ends where the code awaits a timer, the manager, or the *)
(* file system for the version to report; what the FileWatcher sees of the *)
(* file is what is there when it handles the answer.                       *)
(***************************************************************************)
EXTENDS Integers, Sequences

CONSTANTS
  MaxVersions, \* bound on how often the file is written
  MaxErrors    \* bound on errors of the file system and of calls

ASSUME FolderAssumption == MaxVersions \in Nat \ {0} /\ MaxErrors \in Nat

NoFile == 0
Unread == -1      \* seenFiles has null for the file: its version is to be read
Unseen == -2      \* the file is not in seenFiles
Nothing == -3

VARIABLES
  file,
  written,      \* the version written last
  fileErrors,   \* errors so far
  phase,        \* init() of the FileWatcher: "off", "listing", "subscribing", then "on", "stopped"
  waitsForStable, \* options.awaitWriteFinishStabilityThreshold is set
  events,       \* events of the file system that have not been handled
  stable,       \* the size the timer in delayEmitNewFileTimeoutMap has been set with
  strays,       \* such timers that are no longer in the map
  seen,         \* seenFiles
  sendTimer,    \* triggerSendUpdateTimeout is set
  sending,      \* triggerSendUpdateIsRunning: "no", or what it awaits
  stat,         \* the answer of fsStat that has not been handled
  message,      \* the version that is being reported
  runAgain,     \* triggerSendUpdateRunAgain
  reported,     \* what the manager was told last
  badFile,      \* the status of the file is BAD
  excused       \* something happened after which the report may stay behind

folderVars == <<file, written, fileErrors, phase, waitsForStable, events, stable, strays, seen,
                sendTimer, sending, stat, message, runAgain, reported, badFile, excused>>
watcherVars == <<events, stable, strays>>
sendVars == <<sending, stat, message, reported>>

NothingSeen ==
  /\ written = file /\ fileErrors = 0
  /\ events = <<>> /\ stable = Nothing /\ strays = {}
  /\ seen = Unseen /\ sendTimer = FALSE /\ sending = "no" /\ stat = Nothing
  /\ message = NoFile /\ runAgain = FALSE
  /\ reported = NoFile /\ badFile = FALSE /\ excused = FALSE

InitFolder == file \in {NoFile, 1} /\ phase = "listing" /\ waitsForStable \in BOOLEAN /\ NothingSeen

NoFolder == file = NoFile /\ phase = "off" /\ waitsForStable = FALSE /\ NothingSeen

FolderError == fileErrors < MaxErrors /\ fileErrors' = fileErrors + 1

-----------------------------------------------------------------------------
(* The folder.  Changes between the listing and the subscription are not   *)
(* noticed.                                                                *)

Notify(event) ==
  /\ events' = IF phase = "on" THEN Append(events, event) ELSE events
  /\ excused' = (excused \/ phase = "subscribing")
  /\ UNCHANGED <<fileErrors, phase, waitsForStable, stable, strays, seen, sendTimer, sendVars, runAgain, badFile>>

FileIsWritten ==
  /\ phase \in {"listing", "subscribing", "on"} /\ written < MaxVersions
  /\ written' = written + 1 /\ file' = written'
  /\ Notify("update")

FileIsDeleted ==
  /\ phase \in {"listing", "subscribing", "on"} /\ file # NoFile
  /\ file' = NoFile /\ UNCHANGED written
  /\ Notify("delete")

-----------------------------------------------------------------------------
(* Reports.                                                                *)

\* A report is due in a second.
triggerSendUpdate == sendTimer' = TRUE /\ runAgain' = FALSE

\* The listener of fileEvent.  What it changes while a version is being read is overwritten by it.
OnChanged ==
  /\ seen' = Unread
  /\ triggerSendUpdate
  /\ excused' = (excused \/ stat # Nothing)
  /\ UNCHANGED badFile

OnDeleted ==
  /\ badFile' = FALSE
  /\ seen' = Unseen
  /\ triggerSendUpdate
  /\ excused' = (excused \/ sending = "stat")

\* The timer fires.  The files that are new or changed are read first.
SendTimerFires ==
  /\ sendTimer
  /\ sendTimer' = FALSE
  /\ IF sending # "no" THEN runAgain' = TRUE /\ UNCHANGED <<sending, message>>
     ELSE /\ UNCHANGED runAgain
          /\ IF seen = Unread THEN sending' = "stat" /\ UNCHANGED message
             ELSE /\ sending' = "report"
                  /\ message' = IF seen = Unseen THEN NoFile ELSE seen
  /\ UNCHANGED <<file, written, fileErrors, phase, waitsForStable, watcherVars, seen, stat, reported, badFile, excused>>

\* The file system looks at the file, and later the code at the answer.
FileIsRead ==
  /\ sending = "stat" /\ stat = Nothing
  /\ \/ stat' = file /\ UNCHANGED <<fileErrors, excused>>
     \/ FolderError /\ stat' = NoFile /\ excused' = TRUE
  /\ UNCHANGED <<file, written, phase, waitsForStable, watcherVars, seen, sendTimer, sending, message, runAgain,
                 reported, badFile>>

FileHasBeenRead ==
  /\ stat # Nothing
  /\ stat' = Nothing
  /\ sending' = "report" /\ message' = stat
  /\ IF stat # NoFile THEN seen' = stat /\ badFile' = FALSE
     ELSE badFile' = TRUE /\ UNCHANGED seen
  /\ UNCHANGED <<file, written, fileErrors, phase, waitsForStable, watcherVars, sendTimer, runAgain, reported, excused>>

ReportIsOver_NotAgain ==
  /\ sending = "report"
  /\ sending' = "no"
  /\ UNCHANGED <<file, written, phase, waitsForStable, watcherVars, seen, sendTimer, stat, message, runAgain, badFile>>

\* The end of a report, in time for what came up meanwhile.
ReportIsOver ==
  /\ sending = "report"
  /\ sending' = "no"
  /\ IF runAgain THEN triggerSendUpdate ELSE UNCHANGED <<sendTimer, runAgain>>
  /\ UNCHANGED <<file, written, phase, waitsForStable, watcherVars, seen, stat, message, badFile>>

Reported ==
  /\ ReportIsOver
  /\ reported' = message
  /\ UNCHANGED <<fileErrors, excused>>

\* The call fails, or only its answer does.  It is not repeated.
ReportFails ==
  /\ ReportIsOver /\ FolderError
  /\ \/ reported' = message /\ UNCHANGED excused
     \/ UNCHANGED reported /\ excused' = TRUE

-----------------------------------------------------------------------------
(* The FileWatcher.                                                        *)

\* checkIfFileIsStable: in a while, if the file is the same, there is an event.
SetStableTimer(size) == stable' = size /\ UNCHANGED strays

\* An error other than that the file is missing: the event is not heeded, and the status of
\* the watcher BAD from now on.
StatFails == FolderError /\ excused' = TRUE /\ UNCHANGED <<stable, strays, seen, sendTimer, runAgain, badFile>>

onFileCreatedUpdated ==
  IF waitsForStable
  THEN \/ /\ file # NoFile /\ SetStableTimer(file)
          /\ UNCHANGED <<fileErrors, seen, sendTimer, runAgain, badFile, excused>>
       \/ file = NoFile /\ UNCHANGED <<fileErrors, stable, strays, seen, sendTimer, runAgain, badFile, excused>>
       \/ StatFails
  ELSE OnChanged /\ UNCHANGED <<fileErrors, stable, strays>>

\* The event is not trusted: the file has to be missing.  The timer is forgotten, and runs.
onFileDeleted ==
  IF file = NoFile
  THEN /\ OnDeleted
       /\ stable' = Nothing
       /\ strays' = IF stable = Nothing THEN strays ELSE strays \cup {stable}
       /\ UNCHANGED fileErrors
  ELSE UNCHANGED <<fileErrors, stable, strays, seen, sendTimer, runAgain, badFile, excused>>

List ==
  /\ phase = "listing"
  /\ phase' = "subscribing"
  /\ IF file # NoFile THEN onFileCreatedUpdated
     ELSE UNCHANGED <<fileErrors, stable, strays, seen, sendTimer, runAgain, badFile, excused>>
  /\ UNCHANGED <<file, written, waitsForStable, events, sendVars>>

Subscribe ==
  /\ phase = "subscribing"
  /\ phase' = "on"
  /\ triggerSendUpdate
  /\ UNCHANGED <<file, written, fileErrors, waitsForStable, watcherVars, seen, sendVars, badFile, excused>>

onFileEvents ==
  /\ phase = "on" /\ events # <<>>
  /\ events' = Tail(events)
  /\ IF Head(events) = "delete" THEN onFileDeleted ELSE onFileCreatedUpdated
  /\ UNCHANGED <<file, written, phase, waitsForStable, sendVars>>

\* A timer that was set with `size` fires: the file is missing, or the same, or has changed.
StableTimerFires(size) ==
  /\ IF file = size THEN OnChanged
     ELSE UNCHANGED <<seen, sendTimer, runAgain, badFile, excused>>
  /\ UNCHANGED <<file, written, fileErrors, phase, waitsForStable, events, sendVars>>

TimerFails ==
  /\ FolderError /\ excused' = TRUE
  /\ UNCHANGED <<file, written, phase, waitsForStable, events, seen, sendTimer, sendVars, runAgain, badFile>>

StableTimer ==
  /\ stable # Nothing
  /\ \/ StableTimerFires(stable) /\ stable' = (IF file \in {NoFile, stable} THEN Nothing ELSE file)
     \/ TimerFails /\ stable' = Nothing
  /\ UNCHANGED strays

\* A forgotten timer that sees a changed file takes the place of the one in the map.
StrayTimer ==
  \E size \in strays :
    /\ strays' = strays \ {size}
    /\ \/ StableTimerFires(size) /\ stable' = (IF file \in {NoFile, size} THEN stable ELSE file)
       \/ TimerFails /\ stable' = Nothing

stop ==
  /\ phase = "on"
  /\ phase' = "stopped"
  /\ events' = <<>>
  /\ UNCHANGED <<file, written, fileErrors, waitsForStable, stable, strays, seen, sendTimer, sendVars, runAgain,
                 badFile, excused>>

Works ==
  \/ List \/ Subscribe \/ onFileEvents \/ StableTimer \/ StrayTimer
  \/ SendTimerFires \/ FileIsRead \/ FileHasBeenRead \/ Reported \/ ReportFails

NextFolder == FileIsWritten \/ FileIsDeleted \/ Works \/ stop

\* The file system and the manager answer, events are delivered, timers fire.
FairnessOfFolder == WF_folderVars(Works)

-----------------------------------------------------------------------------
(* Properties.                                                             *)

FileVersions == 1 .. MaxVersions

TypeOKOfFolder ==
  /\ file \in 0 .. MaxVersions /\ written \in 0 .. MaxVersions /\ fileErrors \in 0 .. MaxErrors
  /\ phase \in {"off", "listing", "subscribing", "on", "stopped"}
  /\ waitsForStable \in BOOLEAN
  /\ events \in Seq({"update", "delete"})
  /\ stable \in FileVersions \cup {Nothing} /\ strays \subseteq FileVersions
  /\ seen \in FileVersions \cup {Unread, Unseen}
  /\ sending \in {"no", "stat", "report"}
  /\ stat \in (0 .. MaxVersions) \cup {Nothing} /\ message \in 0 .. MaxVersions /\ reported \in 0 .. MaxVersions
  /\ \A b \in {sendTimer, runAgain, badFile, excused} : b \in BOOLEAN

\* However its changes meet the listing, the timers and a report that is under way: what the
\* manager has been told in the end is what is in the folder, and no status stays BAD for a file
\* that can be read or is gone.  Excused is a monitor of which a change came between the listing
\* and the subscription, or while the answer about the version was on its way, or after an
\* error of the file system or of a report.
FolderIsReported ==
  <>[](phase = "stopped" \/ excused \/ (reported = file /\ ~badFile))
=============================================================================
