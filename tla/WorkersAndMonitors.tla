------------------------- MODULE WorkersAndMonitors -------------------------
(***************************************************************************)
(* The long-lived duties of Workers: jobs, as one Worker does and reports  *)
(* them; the PackageContainers an ExpectationManager gives to Workers to   *)
(* monitor; and one of their monitors.  A behaviour is one of the three.   *)
(***************************************************************************)
EXTENDS WorkerAgent, PackageContainers, FolderMonitor

vars == <<agentVars, containerVars, folderVars>>

Init ==
  \/ InitAgent /\ NoContainers /\ NoFolder
  \/ NoAgent /\ InitContainers /\ NoFolder
  \/ NoAgent /\ NoContainers /\ InitFolder

Next ==
  \/ NextAgent /\ UNCHANGED <<containerVars, folderVars>>
  \/ NextContainers /\ UNCHANGED <<agentVars, folderVars>>
  \/ NextFolder /\ UNCHANGED <<agentVars, containerVars>>

Spec == Init /\ [][Next]_vars /\ FairnessOfAgent /\ FairnessOfContainers /\ FairnessOfFolder

-----------------------------------------------------------------------------
\* The types; and what an ExpectationManager takes for monitored is, and nothing else,
\* whichever calls are late or fail and Workers come and go.
MonitorsInv ==
  /\ TypeOKOfAgent /\ TypeOKOfContainers /\ TypeOKOfFolder
  /\ MonitorsCanBeStopped /\ GoodIsMonitored

\* Monitors are set up in the end, unwanted PackageContainers removed, and what is in the folder
\* reported.
MonitorsWork ==
  /\ MonitorsAreSetUp /\ UnwantedContainerIsRemoved
  /\ FolderIsReported
=============================================================================
