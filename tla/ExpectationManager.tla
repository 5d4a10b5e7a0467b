------------------------- MODULE ExpectationManager -------------------------
(***************************************************************************)
(* The ExpectationTracker with the EvaluationScheduler that starts its     *)
(* runs: owner and workers trigger an evaluation with what they bring, a   *)
(* timer starts the run, and its end, however it ends, sets the next one.  *)
(***************************************************************************)
EXTENDS ExpectationTracker

VARIABLES
  terminated, isRunning, runNextAsap, scheduleTimeout,
  result      \* runAgainASAP of the run that is finishing (it still awaits the scaler)

Scheduler == INSTANCE EvaluationScheduler

schedulerVars == <<terminated, isRunning, runNextAsap, scheduleTimeout>>
managerVars   == <<vars, schedulerVars, result>>

ManagerInit == Init /\ Scheduler!Init /\ result = FALSE

-----------------------------------------------------------------------------
\* A method of the manager stores what it is given, which may be nothing new,
\* and triggers an evaluation.
OwnerCalls ==
  /\ Owner \/ UNCHANGED vars
  /\ Scheduler!TriggerEvaluation(TRUE)
  /\ UNCHANGED result

\* A worker connects, for the first time or again after its process died.
WorkerConnection ==
  /\ \E w \in Worker : WorkerConnects(w) \/ WorkerRestarts(w)
  /\ Scheduler!TriggerEvaluation(TRUE)
  /\ UNCHANGED result

\* A worker has become free.
DoneEvent(k) ==
  /\ OnWipEventDone(k)
  /\ IF WipIsWorking(k) THEN Scheduler!TriggerEvaluation(TRUE) ELSE UNCHANGED schedulerVars
  /\ UNCHANGED result

OtherEvents ==
  /\ \/ \E w \in Worker : WorkerGone(w)
     \/ \E k \in WipKey : OnWipEventProgress(k) \/ OnWipEventError(k) \/ WipEventLost(k)
     \/ \E c \in cancels : CancelReturns(c)
     \/ Time
  /\ UNCHANGED <<schedulerVars, result>>

CancelRejected_Unnoticed(c) ==   \* mutant
  /\ "cancelFails" \in Inputs
  /\ cancels' = cancels \ {c}
  /\ UNCHANGED <<receivedVars, tracked, worksInProgress, workerAgents, runnerVars, sessionVars,
                 reported, schedulerVars, result>>
\* The run that awaits the cancel is rejected.
CancelRejected(c) ==
  /\ CancelFails(c)
  /\ IF c \in awaiting THEN Scheduler!RunReturns(FALSE) ELSE UNCHANGED schedulerVars
  /\ UNCHANGED result

-----------------------------------------------------------------------------
RunBegins == /\ Scheduler!TimeoutFires
             /\ StartRun \/ StartRunWithUpdates
             /\ UNCHANGED result

RunGoesOn == /\ pc # "idle" /\ Runner /\ pc' # "idle"
             /\ UNCHANGED <<schedulerVars, result>>

RunFinishes == /\ FinishRun
               /\ result' = (runAgainASAP \/ (updated /\ Tracked # {}))
               /\ UNCHANGED schedulerVars

\* checkIfNeedToScaleUp has been answered.
RunReturns == /\ pc = "idle"
              /\ Scheduler!RunReturns(result)
              /\ result' = FALSE
              /\ UNCHANGED vars

Terminate == Scheduler!Terminate /\ UNCHANGED <<vars, result>>

-----------------------------------------------------------------------------
ManagerNext ==
  \/ OwnerCalls
  \/ WorkerConnection
  \/ \E k \in WipKey : DoneEvent(k)
  \/ OtherEvents
  \/ \E c \in cancels : CancelRejected(c)
  \/ RunBegins
  \/ RunGoesOn
  \/ RunFinishes
  \/ RunReturns
  \/ Terminate

(***************************************************************************)
(* Timers fire, although a trigger may set them anew; calls are answered   *)
(* or time out, so a run goes on and returns; a work ends, or its worker   *)
(* stops sending events on it.                                             *)
(***************************************************************************)
CancelEnds == \E c \in cancels : (CancelReturns(c) /\ UNCHANGED <<schedulerVars, result>>) \/ CancelRejected(c)
JobEnds(k) == \/ DoneEvent(k)
              \/ (OnWipEventError(k) \/ WipEventLost(k)) /\ UNCHANGED <<schedulerVars, result>>
Expires(A) == A /\ UNCHANGED <<schedulerVars, result>>

ManagerFairness ==
  /\ WF_managerVars(RunBegins)
  /\ WF_managerVars(RunGoesOn)
  /\ WF_managerVars(RunFinishes)
  /\ WF_managerVars(RunReturns)
  /\ WF_managerVars(CancelEnds)
  /\ \A k \in WipKey : WF_managerVars(JobEnds(k)) /\ WF_managerVars(Expires(WorkStalls(k)))
  /\ \A e \in Exp : WF_managerVars(Expires(ErrorWaitOver(e)))

ManagerSpec     == ManagerInit /\ [][ManagerNext]_managerVars
FairManagerSpec == ManagerSpec /\ ManagerFairness

-----------------------------------------------------------------------------
ManagerTypeOK == Scheduler!SchedulerTypeOK /\ result \in BOOLEAN

(***************************************************************************)
(* Runs do not overlap: one only begins when the last one has returned,    *)
(* also when that one was rejected or is still waiting for the scaler.     *)
(***************************************************************************)
RunsDoNotOverlap == /\ pc # "idle" => isRunning
                    /\ isRunning => scheduleTimeout = "none"

(***************************************************************************)
(* What has been received is pulled in as soon as possible: either the     *)
(* timer is set to the short delay, or the run in progress knows that      *)
(* another one is due.                                                     *)
(***************************************************************************)
ReceivedIsRunAsap ==
  updated /\ ~terminated => IF isRunning THEN runNextAsap ELSE scheduleTimeout = "asap"

\* Runs do not overlap, and none that is due is forgotten.
EvaluationsAreScheduled == RunsDoNotOverlap /\ ReceivedIsRunAsap

\* A work in progress always ends, although a worker may die without a word:
\* evaluations go on, and find the ones that have stalled.
WorkEnds ==
  \A e \in Exp : e \in InState("WORKING") ~> terminated \/ e \notin InState("WORKING")

\* Whatever is received is pulled in by a later run.
UpdatesArePulledIn == updated ~> terminated \/ ~updated

-----------------------------------------------------------------------------
(***************************************************************************)
(* The inductive invariant of what the scheduler adds.                     *)
(***************************************************************************)
ManagerInv == /\ ManagerTypeOK
              /\ Scheduler!SchedulerInv
              /\ RunsDoNotOverlap
              /\ ReceivedIsRunAsap
=============================================================================
