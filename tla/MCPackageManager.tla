-------------------------- MODULE MCPackageManager --------------------------
(***************************************************************************)
(* The process of a Package Manager: what it makes of the packages in      *)
(* Core, and how it reports statuses to Core.  Neither reads the state of  *)
(* the other, so a behaviour is one of the two.                            *)
(*                                                                         *)
(* The data starts with up to two packages in Core, and then there are at  *)
(* most MaxChanges changes; there are at most MaxReports reports, and at   *)
(* most MaxCalls unanswered calls at a time.                               *)
(***************************************************************************)
EXTENDS PackageManager, StatusReport

CONSTANTS target, thumbs, r1, m1, MaxChanges, MaxReports, MaxCalls
VARIABLES part, changes, reports

Package(id, type, content, hash, sources, targets, priority, sideEffect) ==
  [id |-> id, type |-> type, content |-> content, version |-> 0, hash |-> hash, sources |-> sources,
   targets |-> targets, accessors |-> TRUE, priority |-> priority, rundown |-> None,
   external |-> FALSE, smartbull |-> "no", sideEffect |-> sideEffect]

\* A media file of an active rundown, the same file for another rundown, with the same
\* and with another hash, and the same file that has no source
media1 == [Package("media1", "MEDIA_FILE", 1, "a", {SourceMonitor}, {target}, 1,
                   {<<"thumbnail", thumbs>>, <<"iframes", None>>}) EXCEPT !.rundown = r1]
media2 == Package("media2", "MEDIA_FILE", 1, "a", {SourceMonitor}, {target}, 0, {<<"loudness", None>>})
media3 == Package("media3", "MEDIA_FILE", 1, "b", {SourceMonitor}, {target}, 2, {<<"preview", thumbs>>})
verify == Package("verify", "MEDIA_FILE", 1, "a", {}, {target}, 3, {})
clip == Package("clip", "QUANTEL_CLIP", 2, "a", {SourceMonitor}, {target}, 1,
                {<<"thumbnail", thumbs>>, <<"preview", thumbs>>, <<"loudness", None>>})
json == Package("json", "JSON_DATA", 3, "a", {SourceMonitor}, {target}, 4, {})
html == Package("html", "HTML_TEMPLATE", 4, "a", {SourceMonitor}, {target}, 4, {})
sbClip == [Package("sbClip", "MEDIA_FILE", 0, "s", {Smartbull}, {target}, 1, {}) EXCEPT !.smartbull = "clip"]
sbFile == [Package("sbFile", "MEDIA_FILE", 5, "s", {Smartbull}, {target}, 1, {})
             EXCEPT !.smartbull = "source"]
\* media1, found by a monitor, that also goes elsewhere
found1 == [media1 EXCEPT !.targets = {thumbs}]

PackagesInCore == {media1, media2, media3, verify, clip, json, html, sbClip, sbFile}
Found == {found1, json}
ActiveRundowns == {<<>>, [r \in {r1} |-> 5]}
SomeContainers == {Containers, Containers \ {TemporaryStorage}, {target, SourceMonitor}}

NoData ==
  /\ packages = <<>> /\ packageContainers = None /\ activeRundowns = None
  /\ settings = [skipDeepScan |-> FALSE]
  /\ externalData = [containers |-> {}, packages |-> <<>>]
  /\ monitoredPackages = [m \in Monitors |-> <<>>]
  /\ packageContainersCache = {} /\ timer = FALSE
  /\ given = [expectations |-> {}, containers |-> [c \in {} |-> None]]

NoReports ==
  /\ toReport = [k \in Keys |-> Null] /\ reported = toReport /\ core = toReport
  /\ managerStatus = Good
  /\ sendTimer = FALSE /\ batch = Null /\ runAgain = FALSE /\ cleaning = <<>>
  /\ deviceReported = {} /\ coreDevice = {}
  /\ connected = TRUE /\ calls = <<>>
  /\ lastRun = "ok" /\ unsure = {}

ProcessInit ==
  /\ changes = 0 /\ reports = 0
  /\ \/ /\ part = "packages" /\ Init /\ NoReports
        /\ packageContainers \in {None, Containers, Containers \ {TemporaryStorage}}
        /\ activeRundowns \in {None, <<>>}
     \/ part = "reports" /\ NoData /\ InitReport

PackagesNext ==
  /\ Next /\ UNCHANGED <<reportVars, reports>>
  /\ changes' = changes + (IF timer' THEN 1 ELSE 0) /\ changes' <= MaxChanges
  /\ packageContainers' \in SomeContainers \cup {None}
  /\ externalData'.containers \in SomeContainers \cup {{}}

\* A report gives a key a new hash, or changes the manager's status.
Reports == /\ sendTimer' = (sendTimer \/ ~Running) /\ runAgain' = (runAgain \/ Running)
           /\ UNCHANGED <<connected, calls>>

ReportsNext ==
  /\ NextReport /\ UNCHANGED <<vars, changes>>
  /\ reports' = reports + (IF Reports THEN 1 ELSE 0) /\ reports' <= MaxReports
  /\ Len(calls') <= MaxCalls

ProcessNext ==
  /\ UNCHANGED part
  /\ \/ part = "packages" /\ PackagesNext
     \/ part = "reports" /\ ReportsNext

ProcessSpec ==
  ProcessInit /\ [][ProcessNext]_<<part, vars, changes, reportVars, reports>> /\ ReportFairness
=============================================================================
