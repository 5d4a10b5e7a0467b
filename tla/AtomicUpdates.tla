---------------------------- MODULE AtomicUpdates ----------------------------
(***************************************************************************)
(* What a DataStore promises its clients: an update replaces the very      *)
(* value that it was calculated from, so that none is lost, and a read     *)
(* returns a value that was written.  Nothing is said of locks, claims or  *)
(* time.                                                                   *)
(***************************************************************************)
CONSTANTS Key, Request, KeyOf, None

VARIABLES
  value,   \* the update that wrote the value, by key
  phase,   \* how far a request has come
  basis    \* the value a request has been given

vars == <<value, phase, basis>>

Init ==
  /\ value = [k \in Key |-> None]
  /\ phase = [r \in Request |-> "pending"]
  /\ basis = [r \in Request |-> None]

Phase == {"pending", "based", "read", "committed", "refused"}

\* Some requests are given the current value, to update or to read it; others are refused.
Answer ==
  /\ phase' \in [Request -> Phase] /\ basis' \in [Request -> Request \cup {None}]
  /\ \A r \in Request :
       \/ phase'[r] = phase[r] /\ basis'[r] = basis[r]
       \/ phase[r] = "pending" /\ phase'[r] \in {"based", "read"} /\ basis'[r] = value[KeyOf[r]]
       \/ phase[r] \in {"pending", "based"} /\ phase'[r] = "refused" /\ basis'[r] = basis[r]
  /\ UNCHANGED value

Commit(r) ==
  /\ phase[r] = "based" /\ basis[r] = value[KeyOf[r]]
  /\ value' = [value EXCEPT ![KeyOf[r]] = r]
  /\ phase' = [phase EXCEPT ![r] = "committed"]
  /\ UNCHANGED basis

Next ==
  \/ Answer
  \/ \E r \in Request : Commit(r)

Spec == Init /\ [][Next]_vars
=============================================================================
