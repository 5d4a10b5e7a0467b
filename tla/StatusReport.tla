---------------------------- MODULE StatusReport ----------------------------
(***************************************************************************)
(* How the Package Manager reports statuses to Core:                       *)
(* ExpectationManagerCallbacksHandler of packageManager.ts, and the status *)
(* of the device in coreHandler.ts.                                        *)
(*                                                                         *)
(* There are three kinds of statuses: of expectations, of packages on      *)
(* containers, and of containers.  A report is stored under its key in     *)
(* toReport, with a hash which is unique for the report; a timer then      *)
(* sends, kind after kind, what has not been sent yet.  What was sent is   *)
(* remembered in `reported`, so that only the changed fields of an         *)
(* expectation's status have to be sent the next time.  Reports may come   *)
(* at any time, also while a call to Core is under way; the calls may      *)
(* fail, and the connection may be lost.                                   *)
(*                                                                         *)
(* A hash is only ever compared with null (the status has been sent) and   *)
(* with the hash of the change which is being sent (it is still the latest *)
(* report); the model keeps these two facts instead of numbers.            *)
(***************************************************************************)
EXTENDS Integers, Sequences

CONSTANTS
  ExpectationKeys, PackageKeys, ContainerKeys, \* keys of the three kinds
  Values,        \* what a field of a status may be
  Good,          \* the value of "status" which is StatusCode.GOOD
  Null,          \* no status (null, undefined), no call under way
  EarlyReports,  \* whether there are reports before Core has been cleaned
  Faults         \* the ways in which a call to Core may fail

Keys == ExpectationKeys \cup PackageKeys \cup ContainerKeys

ASSUME KeysAssumption ==
  /\ ExpectationKeys \cap PackageKeys = {}
  /\ (ExpectationKeys \cup PackageKeys) \cap ContainerKeys = {}
  /\ "device" \notin Keys
  /\ Good \in Values
  /\ EarlyReports \in BOOLEAN
  /\ Faults \subseteq {"disconnect", "rejected", "replyLost", "packageNotFound"}

\* Two fields for the statuses of which the changed fields are sent, one for the others.
Fields(k) == IF k \in ExpectationKeys THEN {"status", "statusReason"} ELSE {"status"}
Status(k) == [Fields(k) -> Values]
DefaultStatus(k) == [f \in Fields(k) |-> Good]

\* The kinds, in the order in which they are sent
Kinds == <<ExpectationKeys, PackageKeys, ContainerKeys>>

\* An entry of toReport, and a change to be sent: a status, and the one Core has.
Entry(k)  == [status : Status(k) \cup {Null}, sent : BOOLEAN]
Change(k) == [status : Status(k) \cup {Null}, base : Status(k) \cup {Null}]

(***************************************************************************)
(* The changes of a kind that are being sent: those of which the status is *)
(* still the latest report, and whether the map of what was reported has   *)
(* been replaced meanwhile.                                                *)
(***************************************************************************)
Batch == [kind : DOMAIN Kinds,
          changes : UNION {[D -> UNION {Change(k) : k \in Keys}] : D \in SUBSET Keys},
          latest : SUBSET Keys, old : BOOLEAN]

\* The statuses that are not good, of the containers and of the manager.
DeviceStatuses == SUBSET ((ContainerKeys \cup {"manager"}) \X Values)

Call == [type : {"clean", "update"}] \cup [type : {"setStatus"}, status : DeviceStatuses]

ASSUME NullAssumption ==
  /\ \A k \in Keys : Null \notin Status(k) \cup Entry(k)
  /\ Null \notin Batch

VARIABLES
  toReport,        \* the last report of each key, and whether it has been sent
  reported,        \* the statuses which Core is thought to have
  managerStatus,   \* expectationManagerStatuses
  sendTimer,       \* triggerSendUpdatedStatusesTimeout
  batch,           \* the changes which are being sent (sendUpdatedStatusesIsRunning)
  runAgain,        \* sendUpdatedStatusesRunAgain
  cleaning,        \* the removeAll calls that cleanReportedStatuses has left
  deviceReported,  \* reportedStatusHash: the last device status sent to Core
  connected,       \* coreHandler.coreConnected
  calls,           \* the calls which Core has not answered yet, in order
  core, coreDevice,\* Core's copies: of the statuses, and of the device's status
  lastRun,         \* (history) how the last run ended
  unsure           \* (history) the keys (and "device") whose copy in Core is not known

reportVars == <<toReport, reported, managerStatus, sendTimer, batch, runAgain, cleaning,
                deviceReported, connected, calls, core, coreDevice, lastRun, unsure>>
pm == <<toReport, reported, managerStatus, sendTimer, batch, runAgain, cleaning>>

Running == batch # Null

-----------------------------------------------------------------------------
(* Reports *)

\* triggerReportUpdatedStatuses
Trigger_ForgetsTheRun ==
  /\ sendTimer' = (sendTimer \/ ~Running)
  /\ UNCHANGED runAgain
Trigger ==
  /\ sendTimer' = (sendTimer \/ ~Running)
  /\ runAgain' = (runAgain \/ Running)

MayReport == EarlyReports \/ cleaning = <<>>

\* A new status replaces the previous one and gets a hash of its own, so that it is
\* no longer what is being sent.
Store(k, status) ==
  /\ toReport' = [toReport EXCEPT ![k] = [status |-> status, sent |-> FALSE]]
  /\ batch' = IF Running THEN [batch EXCEPT !.latest = @ \ {k}] ELSE Null

LastStatus(k) == IF toReport[k] = Null THEN Null ELSE toReport[k].status

\* The reported fields are merged into the previously reported status.
Merged(k, info) ==
  LET previous == IF LastStatus(k) = Null THEN DefaultStatus(k) ELSE LastStatus(k)
  IN  [f \in Fields(k) |-> IF f \in DOMAIN info THEN info[f] ELSE previous[f]]

\* A report holds some of the fields, or removes the status.
StatusInfo(k) == (UNION {[F -> Values] : F \in (SUBSET Fields(k)) \ {{}}}) \cup {Null}

Report(k, status) ==
  /\ MayReport
  /\ Store(k, status) /\ Trigger
  /\ UNCHANGED <<reported, managerStatus, cleaning, deviceReported, connected,
                 calls, core, coreDevice, lastRun, unsure>>

\* An expectation's status is only removed when there is one.
reportExpectationStatus(k, info) ==
  \/ info # Null /\ Report(k, Merged(k, info))
  \/ info = Null /\ toReport[k] # Null /\ Report(k, Null)

reportPackageContainerPackageStatus(k, info) ==
  Report(k, IF info = Null THEN Null ELSE Merged(k, info))

\* A container's status is only stored when it differs from the previous one.
reportPackageContainerExpectationStatus(k, info) ==
  \/ info # Null /\ Merged(k, info) # LastStatus(k) /\ Report(k, Merged(k, info))
  \/ info = Null /\ Report(k, Null)

reportManagerStatus(v) ==
  /\ MayReport
  /\ managerStatus' = v
  /\ Trigger
  /\ UNCHANGED <<toReport, reported, batch, cleaning, deviceReported, connected,
                 calls, core, coreDevice, lastRun, unsure>>

-----------------------------------------------------------------------------
(* Sending *)

\* reportStatus: the changes of the keys of a kind.  A key which was removed before it
\* was ever reported has none.  Of an expectation which Core has, only the fields that
\* differ from `base` are sent.
ChangesOf(kind, entries, base) ==
  LET changed == {k \in kind : entries[k] # Null /\ ~entries[k].sent
                                 /\ (entries[k].status # Null \/ base[k] # Null)}
  IN  [k \in changed |-> [status |-> entries[k].status, base |-> base[k]]]

\* checkAndReportPackageManagerStatus: the containers' statuses and the manager's,
\* those which are not good.
DeviceStatus(entries) ==
  {<<k, entries[k].status["status"]>> :
      k \in {c \in ContainerKeys : entries[c] # Null /\ entries[c].status # Null
                                  /\ entries[c].status["status"] # Good}}
    \cup {<<"manager", v>> : v \in {managerStatus} \ {Good}}

\* The end of a run.  When every kind has been sent, the status of the device is sent if
\* it has changed, without waiting for the answer; its hash is stored before the call.
EndRun(outcome, entries, remaining) ==
  LET deviceStatus == DeviceStatus(entries)
  IN  /\ batch' = Null /\ lastRun' = outcome
      /\ sendTimer' = runAgain /\ runAgain' = FALSE
      /\ IF outcome = "ok" /\ deviceStatus # deviceReported
           THEN /\ deviceReported' = deviceStatus
                /\ calls' = Append(remaining, [type |-> "setStatus", status |-> deviceStatus])
           ELSE calls' = remaining /\ UNCHANGED deviceReported

\* Sends the first kind from the i-th on that has changes, or ends the run.
SendFrom_OneKind(i, entries, base, remaining) ==
  IF i > 1 \/ DOMAIN ChangesOf(Kinds[i], entries, base) = {}
    THEN EndRun("ok", entries, remaining)
    ELSE /\ batch' = [kind |-> i, changes |-> ChangesOf(Kinds[i], entries, base),
                      latest |-> DOMAIN ChangesOf(Kinds[i], entries, base), old |-> FALSE]
         /\ calls' = Append(remaining, [type |-> "update"])
         /\ sendTimer' = FALSE /\ UNCHANGED <<runAgain, lastRun, deviceReported>>
SendFrom(i, entries, base, remaining) ==
  LET withChanges == {j \in i .. Len(Kinds) : DOMAIN ChangesOf(Kinds[j], entries, base) # {}}
      next == CHOOSE j \in withChanges : \A l \in withChanges : j <= l
      changes == ChangesOf(Kinds[next], entries, base)
  IN  IF withChanges = {} THEN EndRun("ok", entries, remaining)
      ELSE /\ batch' = [kind |-> next, changes |-> changes,
                        latest |-> DOMAIN changes, old |-> FALSE]
           /\ calls' = Append(remaining, [type |-> "update"])
           /\ sendTimer' = FALSE
           /\ UNCHANGED <<runAgain, lastRun, deviceReported>>

\* The timer of triggerReportUpdatedStatuses.  Nothing is sent without a connection.
SendUpdatedStatuses ==
  /\ sendTimer
  /\ IF connected
       THEN SendFrom(1, toReport, reported, calls)
       ELSE sendTimer' = FALSE /\ UNCHANGED <<batch, runAgain, lastRun, deviceReported, calls>>
  /\ UNCHANGED <<toReport, reported, managerStatus, cleaning, connected, core,
                 coreDevice, unsure>>

\* reportStatus, after the changes have been sent: what was sent is stored (in a map
\* that is no longer the current one, if cleanReportedStatuses replaced it meanwhile),
\* and the entries that have not been reported anew are done, or forgotten.
Sent_IgnoresTheHash(k) ==
  IF toReport[k].status = Null THEN Null
  ELSE [toReport[k] EXCEPT !.sent = TRUE]
Sent(k) ==
  IF k \notin batch.latest THEN toReport[k]
  ELSE IF batch.changes[k].status = Null THEN Null
  ELSE [toReport[k] EXCEPT !.sent = TRUE]

ChangesAreSent ==
  LET sent == DOMAIN batch.changes
      entries == [k \in Keys |-> IF k \in sent THEN Sent(k) ELSE toReport[k]]
      base == [k \in Keys |-> IF k \in sent /\ ~batch.old THEN batch.changes[k].status
                              ELSE reported[k]]
  IN  /\ toReport' = entries /\ reported' = base
      /\ SendFrom(batch.kind + 1, entries, base, Tail(calls))

-----------------------------------------------------------------------------
(* Core, and the connection to it.  A call is answered in the order of the calls. *)

\* What Core makes of the changes in the batch: a status is inserted, updated or
\* deleted; only the changed fields of an expectation's status are known to it, and
\* there is nothing to update when Core does not have it.
InCore(k) ==
  LET c == batch.changes[k]
      whole == c.status = Null \/ c.base = Null \/ k \notin ExpectationKeys
      changed == {f \in Fields(k) : c.status[f] # c.base[f]}
  IN  IF whole THEN c.status
      ELSE IF core[k] = Null THEN Null
      ELSE [f \in Fields(k) |-> IF f \in changed THEN c.status[f] ELSE core[k][f]]

Apply(ks) == core' = [k \in Keys |-> IF k \in ks THEN InCore(k) ELSE core[k]]

NextCall(type) == calls # <<>> /\ Head(calls).type = type

\* updateExpectedPackageWorkStatuses and the like succeed.
UpdateSucceeds ==
  /\ connected /\ NextCall("update")
  /\ Apply(DOMAIN batch.changes)
  /\ ChangesAreSent
  /\ unsure' = unsure \ {k \in DOMAIN batch.changes : core'[k] = batch.changes[k].status}
  /\ UNCHANGED <<managerStatus, cleaning, connected, coreDevice>>

\* Core does not know the package of one of the expectations.  It makes what it makes of
\* the other changes; the error is ignored, as if every change had been stored.
PackageNotFound ==
  /\ "packageNotFound" \in Faults
  /\ connected /\ NextCall("update") /\ batch.kind = 1
  /\ \E ks \in SUBSET DOMAIN batch.changes : Apply(ks)
  /\ ChangesAreSent
  /\ unsure' = unsure \cup DOMAIN batch.changes
  /\ UNCHANGED <<managerStatus, cleaning, connected, coreDevice>>

\* The call fails, before Core has handled it or after.  The rest of the run is skipped.
UpdateFails ==
  /\ NextCall("update")
  /\ \/ "rejected" \in Faults /\ UNCHANGED <<core, unsure>>
     \/ "replyLost" \in Faults /\ Apply(DOMAIN batch.changes)
          /\ unsure' = unsure \cup DOMAIN batch.changes
  /\ EndRun("failed", toReport, Tail(calls))
  /\ UNCHANGED <<toReport, reported, managerStatus, cleaning, connected, coreDevice>>

\* The status of the device is stored, or the call fails; no-one waits for the answer.
SetStatusAnswered ==
  /\ NextCall("setStatus")
  /\ \/ connected /\ coreDevice' = Head(calls).status /\ unsure' = unsure \ {"device"}
     \/ "rejected" \in Faults /\ UNCHANGED coreDevice /\ unsure' = unsure \cup {"device"}
  /\ calls' = Tail(calls)
  /\ UNCHANGED <<pm, deviceReported, connected, core, lastRun>>

\* cleanReportedStatuses: one kind after the other is removed from Core.  The kind whose
\* reported statuses are forgotten before the second and the third call is not the one
\* that the call removes.
Forgotten(left) ==
  CASE Len(left) = 3 -> ExpectationKeys
    [] Len(left) = 2 -> ContainerKeys
    [] Len(left) = 1 -> PackageKeys

CleaningStep ==
  /\ connected /\ NextCall("clean")
  /\ core' = [k \in Keys |-> IF k \in Head(cleaning) THEN Null ELSE core[k]]
  /\ cleaning' = Tail(cleaning)
  /\ IF cleaning' = <<>>
       THEN calls' = Tail(calls) /\ UNCHANGED <<reported, batch>>
       ELSE LET forgotten == Forgotten(cleaning')
            IN  /\ reported' = [k \in Keys |-> IF k \in forgotten THEN Null ELSE reported[k]]
                /\ batch' = IF Running /\ Kinds[batch.kind] = forgotten
                              THEN [batch EXCEPT !.old = TRUE] ELSE batch
                /\ calls' = Append(Tail(calls), [type |-> "clean"])
  /\ UNCHANGED <<toReport, managerStatus, sendTimer, runAgain, deviceReported, connected,
                 coreDevice, lastRun, unsure>>

Disconnect ==
  /\ "disconnect" \in Faults /\ connected
  /\ connected' = FALSE
  /\ UNCHANGED <<pm, deviceReported, calls, core, coreDevice, lastRun, unsure>>

\* onCoreConnected triggers a send.
Connect ==
  /\ ~connected /\ connected' = TRUE
  /\ Trigger
  /\ UNCHANGED <<toReport, reported, managerStatus, batch, cleaning, deviceReported,
                 calls, core, coreDevice, lastRun, unsure>>

-----------------------------------------------------------------------------
(* Core may hold statuses of an earlier life of the Package Manager. *)
InitReport ==
  /\ toReport = [k \in Keys |-> Null] /\ reported = [k \in Keys |-> Null]
  /\ managerStatus = Good
  /\ sendTimer = FALSE /\ batch = Null /\ runAgain = FALSE
  /\ cleaning = <<ExpectationKeys, PackageKeys, ContainerKeys>>
  /\ deviceReported = {} /\ coreDevice = {}
  /\ connected = TRUE /\ calls = <<[type |-> "clean"]>>
  /\ core \in {[k \in Keys |-> Null], [k \in Keys |-> DefaultStatus(k)]}
  /\ lastRun = "ok" /\ unsure = {}

NextReport ==
  \/ \E k \in ExpectationKeys : \E info \in StatusInfo(k) : reportExpectationStatus(k, info)
  \/ \E k \in PackageKeys : \E info \in StatusInfo(k) :
        reportPackageContainerPackageStatus(k, info)
  \/ \E k \in ContainerKeys : \E info \in StatusInfo(k) :
        reportPackageContainerExpectationStatus(k, info)
  \/ \E v \in Values : reportManagerStatus(v)
  \/ SendUpdatedStatuses
  \/ UpdateSucceeds \/ PackageNotFound \/ UpdateFails \/ SetStatusAnswered
  \/ CleaningStep
  \/ Disconnect \/ Connect

ReportSpec == InitReport /\ [][NextReport]_reportVars

\* Core answers, the connection comes back, and the timer fires.
ReportFairness ==
  /\ WF_reportVars(SendUpdatedStatuses) /\ WF_reportVars(UpdateSucceeds) /\ WF_reportVars(SetStatusAnswered)
  /\ WF_reportVars(CleaningStep) /\ WF_reportVars(Connect)

-----------------------------------------------------------------------------
(* Properties *)

ReportTypeOK ==
  /\ DOMAIN toReport = Keys /\ DOMAIN reported = Keys /\ DOMAIN core = Keys
  /\ \A k \in Keys : /\ toReport[k] \in Entry(k) \cup {Null}
                      /\ reported[k] \in Status(k) \cup {Null}
                      /\ core[k] \in Status(k) \cup {Null}
  /\ managerStatus \in Values
  /\ sendTimer \in BOOLEAN /\ runAgain \in BOOLEAN /\ connected \in BOOLEAN
  /\ batch \in Batch \cup {Null}
  /\ Running => /\ DOMAIN batch.changes \subseteq Kinds[batch.kind] /\ DOMAIN batch.changes # {}
                /\ \A k \in DOMAIN batch.changes : batch.changes[k] \in Change(k)
                /\ batch.latest \subseteq DOMAIN batch.changes
  /\ cleaning \in Seq(SUBSET Keys) /\ Len(cleaning) \in 0 .. 3
  /\ calls \in Seq(Call)
  /\ deviceReported \in DeviceStatuses /\ coreDevice \in DeviceStatuses
  /\ lastRun \in {"ok", "failed"} /\ unsure \subseteq Keys \cup {"device"}

\* There is something to send for the key.
Pending(k) == k \in DOMAIN ChangesOf(Keys, toReport, reported)

(* Core has what was reported: when a status counts as sent, Core's copy is the latest   *)
(* report, and a key without an entry has no copy in Core.  The three ways to lose this: *)
(* a later report that is taken for the one just sent, an update whose base is not what  *)
(* Core has, a removal that is not sent.  Keys of which a call's effect is unknown (a    *)
(* lost reply, an ignored error) are left out: there Core's copy may stay wrong.         *)
CoreIsCurrent ==
  cleaning = <<>> => \A k \in Keys \ unsure :
    /\ toReport[k] = Null => core[k] = Null
    /\ toReport[k] # Null /\ toReport[k].sent => core[k] = toReport[k].status

(* No report is forgotten: while there is something to send, a send is scheduled, or is   *)
(* under way and will reach the key or run again -- unless the last run failed or there   *)
(* is no connection.  (After a failed run nothing is scheduled: the statuses wait for the *)
(* next report or the next connection.)                                                   *)
NothingIsForgotten ==
  \A k \in Keys : Pending(k) =>
    \/ sendTimer \/ runAgain \/ lastRun = "failed" \/ ~connected
    \/ Running /\ \/ k \in batch.latest
                  \/ \E j \in DOMAIN Kinds : j > batch.kind /\ k \in Kinds[j]

(* The status of the device in Core: when the last run succeeded and nothing is scheduled *)
(* or under way, it is that of the latest container statuses and manager status -- unless *)
(* the last call with it failed: that is not tried again until the status changes.        *)
DeviceIsCurrent ==
  (lastRun = "ok" /\ ~sendTimer /\ ~Running /\ calls = <<>> /\ connected /\ "device" \notin unsure)
  => coreDevice = DeviceStatus(toReport)

(* The calls that Core has not answered are those of the run, of the cleaning, and of the  *)
(* status of the device.                                                                  *)
Called(type) == \E i \in DOMAIN calls : calls[i].type = type

OneCallEach ==
  /\ Called("update") <=> Running
  /\ Called("clean") <=> cleaning # <<>>
  /\ \A i, j \in DOMAIN calls : calls[i].type = calls[j].type => i = j \/ calls[i].type = "setStatus"

(* The statuses that wait, and what was sent of them, agree with what goes on. *)
StatusesInv == ReportTypeOK /\ OneCallEach /\ NothingIsForgotten /\ DeviceIsCurrent

(* What is scheduled happens: a status which waits to be sent is sent, or is the one of a *)
(* key that was removed, or the run that should send it fails.                            *)
ScheduledIsSent ==
  \A k \in Keys :
    (Pending(k) /\ sendTimer) ~> (~Pending(k) \/ lastRun = "failed" \/ ~connected)

-----------------------------------------------------------------------------
(***************************************************************************)
(* The inductive invariant behind the safety properties, in named parts.   *)
(***************************************************************************)

\* A run is not scheduled while one goes on: it runs again afterwards.
OneRun == /\ sendTimer => ~Running
          /\ runAgain => Running

\* The changes being sent are those of the entries, or of entries that have been
\* replaced: then the run is repeated.
BatchIsOfEntries ==
  Running => \A k \in DOMAIN batch.changes :
    /\ toReport[k] # Null /\ ~toReport[k].sent
    /\ IF k \in batch.latest THEN toReport[k].status = batch.changes[k].status ELSE runAgain

\* What a run does not reach any more is left for the next one.
NothingIsSkipped ==
  \A k \in Keys : Pending(k) =>
    IF Running THEN runAgain \/ k \in batch.latest
                      \/ \E j \in DOMAIN Kinds : j > batch.kind /\ k \in Kinds[j]
    ELSE sendTimer \/ lastRun = "failed" \/ ~connected

\* The status of the device that was sent last is the one which the calls leave in Core.
DeviceCallsAreInOrder ==
  /\ \A i \in DOMAIN calls :
       /\ calls[i].type = "setStatus"
       /\ \A j \in DOMAIN calls : j > i => calls[j].type # "setStatus"
       => calls[i].status = deviceReported
  /\ ~Called("setStatus") /\ "device" \notin unsure => coreDevice = deviceReported

\* And it is the present one, but for what a run is going to send.
DeviceIsFollowed ==
  \/ deviceReported = DeviceStatus(toReport)
  \/ sendTimer \/ Running \/ lastRun = "failed" \/ ~connected

\* The kinds are removed from Core in their order; until then nothing has been reported.
CleanBeforeReports ==
  /\ \A j \in DOMAIN cleaning : cleaning[j] = Kinds[3 - Len(cleaning) + j]
  /\ ~EarlyReports /\ cleaning # <<>> =>
       /\ \A k \in Keys : toReport[k] = Null /\ reported[k] = Null
       /\ \A i \in 1 .. 3 - Len(cleaning) : \A k \in Kinds[i] : core[k] = Null

\* Then the statuses that Core is thought to have are those it has.
CoreIsAsReported ==
  ~EarlyReports /\ cleaning = <<>> =>
    /\ \A k \in Keys \ unsure : core[k] = reported[k]
    /\ \A k \in Keys : toReport[k] = Null \/ toReport[k].sent =>
         reported[k] = IF toReport[k] = Null THEN Null ELSE toReport[k].status
    /\ Running => /\ ~batch.old
                  /\ \A k \in DOMAIN batch.changes : batch.changes[k].base = reported[k]

IInv == /\ ReportTypeOK /\ OneCallEach /\ OneRun
        /\ BatchIsOfEntries /\ NothingIsSkipped
        /\ DeviceCallsAreInOrder /\ DeviceIsFollowed
        /\ CleanBeforeReports /\ CoreIsAsReported
=============================================================================
