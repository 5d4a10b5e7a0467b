------------------------------ MODULE MCWorker ------------------------------
(***************************************************************************)
(* The process of a Worker: its long-lived duties, and what its works wait *)
(* for.  They do not read each other's state, so a behaviour is one of     *)
(* them.                                                                   *)
(*                                                                         *)
(* One job and a few ticks of patience; two Workers, one of which has      *)
(* access to the PackageContainer only as it is at first; a folder with a  *)
(* file.  The tools; the template, a rendering of its own with two         *)
(* recordings, and steps that can not be executed.                         *)
(***************************************************************************)
EXTENDS WorkersAndMonitors, ToolUse, TLC

CONSTANTS j1, c1, w1, w2, narrow, wide

MC_Supports == (w1 :> {wide}) @@ (w2 :> {wide, narrow})

MC_Versions ==
  {"casparCG",
   <<"waitForLoad", "storeObject", "modifyObject", "injectObject", "sendHTTPCommand",
     "startRecording", "sleep", "stopRecording", "startRecording", "stopRecording",
     "cropRecording">>,
   <<"injectObject">>,
   <<"startRecording", "cropRecording">>,
   <<"takeScreenshot", "startRecording", "startRecording">>,
   <<"stopRecording">>}

ProcessInit ==
  \/ Init /\ version = "none" /\ NoRendering /\ NoTool
  \/ NoAgent /\ NoContainers /\ NoFolder /\ InitToolUse

ProcessNext ==
  \/ tool = "none" /\ version = "none" /\ Next /\ UNCHANGED toolUseVars
  \/ NextToolUse /\ UNCHANGED vars

ProcessSpec ==
  /\ ProcessInit /\ [][ProcessNext]_<<vars, toolUseVars>>
  /\ FairnessOfAgent /\ FairnessOfContainers /\ FairnessOfFolder
  /\ FairnessOfTools /\ FairnessOfRenderer
=============================================================================
