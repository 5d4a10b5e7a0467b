------------------------------- MODULE ToolUse -------------------------------
(***************************************************************************)
(* What a work of a Worker waits for while something else does the actual  *)
(* work: one of the tools, or the rendering of an HTML page.               *)
(***************************************************************************)
EXTENDS Tools, HTMLRenderer

toolUseVars == <<toolVars, rendererVars>>

InitToolUse ==
  \/ InitTools /\ version = "none" /\ NoRendering
  \/ InitRenderer /\ NoTool

NextToolUse ==
  \/ NextTools /\ UNCHANGED rendererVars
  \/ version # "none" /\ NextRenderer /\ UNCHANGED toolVars

ToolUseSpec == InitToolUse /\ [][NextToolUse]_toolUseVars /\ FairnessOfTools /\ FairnessOfRenderer

-----------------------------------------------------------------------------
\* The variables have their types.
ToolUseTypeOK == TypeOKOfTools /\ TypeOKOfRenderer

\* The commands of a rendering are executed in order, and all of them before its end.
ToolUseInv == ToolUseTypeOK /\ RendersInOrder

\* Whatever fails, hangs or is cancelled: nothing is started after cancel(), promises and
\* renderings settle, processes exit.
EverythingEnds ==
  NothingStartsAfterCancel /\ EveryPromiseSettles /\ EveryRenderingSettles /\ NoProcessIsLeft
=============================================================================
