----------------------- MODULE MCExpectationTracker -----------------------
(***************************************************************************)
(* Instances of ExpectationTracker for TLC.                                *)
(***************************************************************************)
EXTENDS ExpectationTracker, TLC

CONSTANTS e1, e2, w1

\* e2 depends on and is triggered by e1, as the Expectations made for
\* thumbnails and previews are by the one that copies the media.
Chain == [e \in Exp |-> IF e = e2 THEN Exp \ {e2} ELSE {}]
NoLinks == [e \in Exp |-> {}]

(***************************************************************************)
(* The behaviours of Spec in which nothing but a cancel goes wrong: a      *)
(* worker is there from the start, nothing throws, and no work stalls.  A  *)
(* violation found in them is one of Spec.                                 *)
(***************************************************************************)
Calm == /\ workerAgents = Worker
        /\ \A e \in Tracked : ~tracked[e].lastError
        /\ \A k \in Wips : ~worksInProgress[k].stalled
CalmSpec == (Init /\ Calm) /\ [][Next /\ Calm']_vars
=============================================================================
