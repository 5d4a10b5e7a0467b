------------------------- MODULE EvaluationScheduler -------------------------
(***************************************************************************)
(* Decides when the tracker evaluates its Expectations                     *)
(* (expectationTracker/lib/evaluationScheduler.ts): after a trigger at     *)
(* once, otherwise EVALUATE_INTERVAL after the end of the last run.        *)
(***************************************************************************)

VARIABLES
  terminated,
  isRunning,
  runNextAsap,       \* _runNextAsap
  scheduleTimeout    \* the timer that is set: "none", "asap" or "interval"

schedulerVars == <<terminated, isRunning, runNextAsap, scheduleTimeout>>

Init == /\ terminated = FALSE /\ isRunning = FALSE /\ runNextAsap = FALSE
        /\ scheduleTimeout = "none"

TriggerEvaluation_NotWhileRunning(asap) ==   \* mutant
  IF terminated \/ isRunning THEN UNCHANGED schedulerVars
  ELSE /\ runNextAsap' = (runNextAsap \/ asap)
       /\ scheduleTimeout' = IF runNextAsap' THEN "asap" ELSE "interval"
       /\ UNCHANGED <<terminated, isRunning>>

TriggerEvaluation_AlsoWhileRunning(asap) ==   \* mutant
  IF terminated THEN UNCHANGED schedulerVars
  ELSE /\ runNextAsap' = (runNextAsap \/ asap)
       /\ scheduleTimeout' = IF runNextAsap' THEN "asap" ELSE "interval"
       /\ UNCHANGED <<terminated, isRunning>>

\* While a run is in progress, the trigger is only noted.
TriggerEvaluation(asap) ==
  IF terminated THEN UNCHANGED schedulerVars
  ELSE /\ runNextAsap' = (runNextAsap \/ asap)
       /\ scheduleTimeout' = IF isRunning THEN scheduleTimeout
                             ELSE IF runNextAsap' THEN "asap" ELSE "interval"
       /\ UNCHANGED <<terminated, isRunning>>

\* The callback of the timer: a run begins.
TimeoutFires ==
  /\ scheduleTimeout # "none" /\ ~terminated
  /\ runNextAsap' = FALSE /\ isRunning' = TRUE
  /\ scheduleTimeout' = "none"
  /\ UNCHANGED terminated

RunReturns_NotAgain(asap) ==   \* mutant
  /\ isRunning /\ isRunning' = FALSE
  /\ UNCHANGED <<terminated, runNextAsap, scheduleTimeout>>

\* The run resolves, and says whether to run again at once, or is rejected; in
\* both cases the next one is scheduled.
RunReturns(asap) ==
  /\ isRunning
  /\ isRunning' = FALSE
  /\ IF terminated THEN UNCHANGED <<runNextAsap, scheduleTimeout>>
     ELSE /\ runNextAsap' = (runNextAsap \/ asap)
          /\ scheduleTimeout' = IF runNextAsap' THEN "asap" ELSE "interval"
  /\ UNCHANGED terminated

Terminate ==
  /\ ~terminated
  /\ terminated' = TRUE
  /\ scheduleTimeout' = "none"
  /\ UNCHANGED <<isRunning, runNextAsap>>

Next ==
  \/ \E asap \in BOOLEAN : TriggerEvaluation(asap) \/ RunReturns(asap)
  \/ TimeoutFires
  \/ Terminate

Spec == Init /\ [][Next]_schedulerVars

-----------------------------------------------------------------------------
SchedulerTypeOK ==
  /\ terminated \in BOOLEAN /\ isRunning \in BOOLEAN /\ runNextAsap \in BOOLEAN
  /\ scheduleTimeout \in {"none", "asap", "interval"}

(***************************************************************************)
(* No timer is set during a run, so that runs never overlap; a trigger     *)
(* that was given has the timer set to the short delay.                    *)
(***************************************************************************)
SchedulerInv ==
  /\ SchedulerTypeOK
  /\ isRunning \/ terminated => scheduleTimeout = "none"
  /\ ~isRunning /\ ~terminated => (runNextAsap <=> scheduleTimeout = "asap")
=============================================================================
