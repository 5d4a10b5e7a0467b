----------------------------- MODULE MCJsonFile -----------------------------
(***************************************************************************)
(* Instances of JsonFile for TLC.                                          *)
(***************************************************************************)
EXTENDS JsonFile, TLC

CONSTANTS u1, u2, u3, p1, p2

\* Two updates by one process, one by another.
TwoAndOne == [u \in Update |-> IF u = u3 THEN p2 ELSE p1]

\* The bound of the instance: once a live process has lost its lock, no other does.
OneTheft == Stolen /\ stale' => stale

BoundedFairSpec ==
  /\ Init /\ [][Next /\ OneTheft]_vars
  /\ \A b \in Update : WF_vars(Step(b))
=============================================================================
