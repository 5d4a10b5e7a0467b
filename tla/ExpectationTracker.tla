------------------------- MODULE ExpectationTracker -------------------------
(***************************************************************************)
(* The ExpectationManager's tracker: the Expectations it has received from *)
(* its owner, the object it tracks for each of them, the evaluation runs   *)
(* that move those objects through their life cycle, and the works in      *)
(* progress it follows on the workers.                                     *)
(*                                                                         *)
(* The program is a single Node.js thread, so a step here is the code      *)
(* between two awaits.  A run (EvaluationRunner.run) awaits answers of     *)
(* workers, and between two of its steps the owner may call the manager,   *)
(* a worker may connect, leave or send an event, and timers may expire.    *)
(*                                                                         *)
(* The workers are the environment: any answer the API allows is possible. *)
(***************************************************************************)
EXTENDS Naturals

CONSTANTS
  Exp,                  \* ids of Expectations
  Requirement,          \* contents of an Expectation: what is required,
  WorkOption,           \*   the workOptions
  Priority,             \*   and the priority
  Worker,               \* ids of WorkerAgents
  WipId,                \* local ids a worker gives to its works in progress
  DependsOn,            \* exp.dependsOnFulfilled of each Expectation
  TriggerBy,            \* exp.triggerByFulfilledIds of each Expectation
  FAILED_REMOVE_COUNT,  \* failed removals after which an Expectation is dropped
  Inputs,               \* which inputs of the environment occur, see below
  None

(***************************************************************************)
(* Inputs selects what the environment may do besides setting Expectations *)
(* and answering calls.                                                    *)
(***************************************************************************)
AllInputs == {"restart", "restartAll", "abort", "workerGone", "cancelFails",
              "workerRestarts", "containers", "skip"}

ASSUME ConstantsAssumption ==
  /\ DependsOn \in [Exp -> SUBSET Exp]
  /\ TriggerBy \in [Exp -> SUBSET Exp]
  /\ FAILED_REMOVE_COUNT \in Nat
  /\ Inputs \subseteq AllInputs

VARIABLES
  \* TrackedReceivedUpdates
  expectations,      \* _expectations: the wanted Expectations, None when absent
  restart,           \* _restartExpectations
  abort,             \* _abortExpectations
  restartAll,        \* _restartAllExpectations
  updated,           \* _expectationsHasBeenUpdated
  containersUpdated, \* _packageContainersHasBeenUpdated
  \* ExpectationTracker
  tracked,           \* trackedExpectations
  worksInProgress,   \* worksInProgress, by worker id and local wip id
  workerAgents,      \* the registered workers
  cancels,           \* calls of workInProgressCancel that have not returned
  \* EvaluationRunner
  pc,                \* where the run is, "idle" when none is going on
  awaiting,          \* the cancels the run is waiting for
  phase,             \* index of the parallel state being handled
  pending,           \* Expectations left to evaluate in this phase
  hadError,          \* session.hadError
  removeIds,         \* session.expectationCanBeRemoved
  runAgainASAP,
  starting,          \* the workOnExpectation call that has not returned
  \* the callbacks' receiver
  reported           \* last status reported for each Expectation

receivedVars == <<expectations, restart, abort, restartAll, updated, containersUpdated>>
sessionVars  == <<hadError, removeIds, runAgainASAP>>
runnerVars   == <<pc, awaiting, phase, pending, starting>>
vars == <<receivedVars, tracked, worksInProgress, workerAgents, cancels,
          runnerVars, sessionVars, reported>>

-----------------------------------------------------------------------------
State == {"NEW", "WAITING", "READY", "WORKING", "FULFILLED",
          "REMOVED", "RESTARTED", "ABORTED"}

\* The states that are handled in parallel, in the order they are handled.
ParallelStates == <<"ABORTED", "RESTARTED", "REMOVED", "NEW", "WAITING", "FULFILLED">>

WipKey == Worker \X WipId

Content == [requirement: Requirement, workOptions: WorkOption, priority: Priority]

TrackedExpectation ==
  [exp: Content, state: State, availableWorkers: SUBSET Worker,
   lastError: BOOLEAN,           \* an error less than ERROR_WAIT_TIME ago
   errorOnRemoveCount: 0 .. FAILED_REMOVE_COUNT + 1,
   cancel: WipKey \cup {None},   \* status.workInProgressCancel
   recheck: BOOLEAN]             \* lastEvaluationTime = 0

(***************************************************************************)
(* A WorkInProgress holds a reference to a TrackedExpectation object.  It  *)
(* is the tracked one, or one that a major update has replaced: then only  *)
(* whether that object's state is WORKING still matters.                   *)
(***************************************************************************)
WorkInProgress ==
  [exp: Exp,
   object: {"tracked", "replacedWorking", "replacedIdle"},
   job: {"running", "silent", "dead"},  \* silent: no more events; dead: nor a process
   stalled: BOOLEAN]             \* lastUpdated more than WORK_TIMEOUT_TIME ago

Cancel == [exp: Exp, wip: WipKey, replaced: BOOLEAN]

\* The call of workOnExpectation for an Expectation on a worker.
Start == [exp: Exp, worker: Worker]

ASSUME NoneAssumption ==
  None \notin Content \cup TrackedExpectation \cup WorkInProgress \cup WipKey \cup Worker \cup Start

Tracked    == {e \in Exp : tracked[e] # None}
InState(s) == {e \in Tracked : tracked[e].state = s}
Wips       == {k \in WipKey : worksInProgress[k] # None}

\* wip.trackedExp.state === WORKING
WipIsWorking(k) ==
  \/ worksInProgress[k].object = "replacedWorking"
  \/ /\ worksInProgress[k].object = "tracked"
     /\ tracked[worksInProgress[k].exp].state = "WORKING"

\* A difference in priority alone is a minor update, everything else a major one.
IsSignificantlyDifferent(old, new) ==
  old.requirement # new.requirement \/ old.workOptions # new.workOptions

DefaultTrackedExpectation(content) ==
  [exp |-> content, state |-> "NEW", availableWorkers |-> {}, lastError |-> FALSE,
   errorOnRemoveCount |-> 0, cancel |-> None, recheck |-> FALSE]

-----------------------------------------------------------------------------
Init ==
  /\ expectations = [e \in Exp |-> None]
  /\ restart = {} /\ abort = {} /\ restartAll = FALSE
  /\ updated = FALSE /\ containersUpdated = FALSE
  /\ tracked = [e \in Exp |-> None]
  /\ worksInProgress = [k \in WipKey |-> None]
  /\ workerAgents \in SUBSET Worker
  /\ cancels = {}
  /\ pc = "idle" /\ awaiting = {} /\ phase = 0 /\ pending = {} /\ starting = None
  /\ hadError = {} /\ removeIds = {} /\ runAgainASAP = FALSE
  /\ reported = [e \in Exp |-> None]

-----------------------------------------------------------------------------
(* Calls by the owner of the manager; they only store what is received.    *)

\* One Expectation is added, changed or removed in the received map.
SetExpectations(e, v) ==
  /\ expectations[e] # v
  /\ expectations' = [expectations EXCEPT ![e] = v]
  /\ updated' = TRUE
  /\ UNCHANGED <<restart, abort, restartAll, containersUpdated, tracked, worksInProgress,
                 workerAgents, cancels, runnerVars, sessionVars, reported>>

RestartExpectation(e) ==
  /\ "restart" \in Inputs
  /\ e \notin restart
  /\ restart' = restart \cup {e}
  /\ updated' = TRUE
  /\ UNCHANGED <<expectations, abort, restartAll, containersUpdated, tracked, worksInProgress,
                 workerAgents, cancels, runnerVars, sessionVars, reported>>

AbortExpectation(e) ==
  /\ "abort" \in Inputs
  /\ e \notin abort
  /\ abort' = abort \cup {e}
  /\ updated' = TRUE
  /\ UNCHANGED <<expectations, restart, restartAll, containersUpdated, tracked, worksInProgress,
                 workerAgents, cancels, runnerVars, sessionVars, reported>>

RestartAllExpectations ==
  /\ "restartAll" \in Inputs
  /\ ~restartAll
  /\ restartAll' = TRUE
  /\ updated' = TRUE
  /\ UNCHANGED <<expectations, restart, abort, containersUpdated, tracked, worksInProgress,
                 workerAgents, cancels, runnerVars, sessionVars, reported>>

\* setPackageContainers or restartPackageContainers with a change.
UpdatePackageContainers ==
  /\ "containers" \in Inputs
  /\ ~containersUpdated
  /\ containersUpdated' = TRUE
  /\ UNCHANGED <<expectations, restart, abort, restartAll, updated, tracked, worksInProgress,
                 workerAgents, cancels, runnerVars, sessionVars, reported>>

-----------------------------------------------------------------------------
(* Workers come and go, and time passes.                                   *)

WorkerConnects(w) ==
  /\ w \notin workerAgents
  /\ workerAgents' = workerAgents \cup {w}
  /\ UNCHANGED <<receivedVars, tracked, worksInProgress, cancels, runnerVars, sessionVars, reported>>

WorkerGone(w) ==
  /\ "workerGone" \in Inputs
  /\ w \in workerAgents
  /\ workerAgents' = workerAgents \ {w}
  /\ UNCHANGED <<receivedVars, tracked, worksInProgress, cancels, runnerVars, sessionVars, reported>>

\* The process of the worker dies and is started again, under the same id.
WorkerRestarts(w) ==
  /\ "workerRestarts" \in Inputs
  /\ w \in workerAgents
  /\ worksInProgress' = [k \in WipKey |-> IF k \in Wips /\ k[1] = w
                                          THEN [worksInProgress[k] EXCEPT !.job = "dead"]
                                          ELSE worksInProgress[k]]
  /\ worksInProgress' # worksInProgress
  /\ UNCHANGED <<receivedVars, tracked, workerAgents, cancels, runnerVars, sessionVars, reported>>

\* ERROR_WAIT_TIME has passed since the last error.
ErrorWaitOver(e) ==
  /\ tracked[e] # None /\ tracked[e].lastError
  /\ tracked' = [tracked EXCEPT ![e].lastError = FALSE]
  /\ UNCHANGED <<receivedVars, worksInProgress, workerAgents, cancels, runnerVars, sessionVars, reported>>

\* WORK_TIMEOUT_TIME has passed since the last event of this work.
WorkStalls(k) ==
  /\ k \in Wips /\ ~worksInProgress[k].stalled
  /\ worksInProgress' = [worksInProgress EXCEPT ![k].stalled = TRUE]
  /\ UNCHANGED <<receivedVars, tracked, workerAgents, cancels, runnerVars, sessionVars, reported>>

-----------------------------------------------------------------------------
(* updateTrackedExpectationStatus *)

\* The object after a status update.
WithState(o, s, isError) ==
  IF isError THEN [o EXCEPT !.state = s, !.recheck = FALSE, !.lastError = TRUE]
             ELSE [o EXCEPT !.state = s, !.recheck = FALSE]

ReportState_TooEarly(e, old, new) ==   \* mutant
  reported' \in {reported, [reported EXCEPT ![e] = old]}
(***************************************************************************)
(* A change of state is reported; when only the reason may have changed,   *)
(* the state is reported again or not.                                     *)
(***************************************************************************)
ReportState(e, old, new) ==
  LET report == [reported EXCEPT ![e] = new]
  IN  IF old # new THEN reported' = report ELSE reported' \in {reported, report}

\* Object o, a modification of the tracked one, gets state s.
UpdateStatus(e, o, s, isError) ==
  /\ tracked' = [tracked EXCEPT ![e] = WithState(o, s, isError)]
  /\ hadError' = IF isError THEN hadError \cup {e} ELSE hadError
  /\ ReportState(e, tracked[e].state, s)

-----------------------------------------------------------------------------
(* WorkInProgressTracker: events from the workers.                         *)

\* The object of work k leaves WORKING for state s, and the work is dropped.
EndWork(k, s, isError) ==
  LET wip == worksInProgress[k]
      e   == wip.exp
  IN  /\ worksInProgress' = [worksInProgress EXCEPT ![k] = None]
      /\ CASE wip.object = "tracked" /\ WipIsWorking(k) ->
                UpdateStatus(e, tracked[e], s, isError)
           [] wip.object = "replacedWorking" ->
                reported' = [reported EXCEPT ![e] = s] /\ UNCHANGED <<tracked, hadError>>
           [] OTHER -> UNCHANGED <<tracked, hadError, reported>>
      /\ UNCHANGED <<receivedVars, workerAgents, cancels, runnerVars, removeIds, runAgainASAP>>

\* Progress only matters through lastUpdated here.
OnWipEventProgress(k) ==
  /\ k \in Wips /\ worksInProgress[k].job = "running" /\ worksInProgress[k].stalled
  /\ worksInProgress' = [worksInProgress EXCEPT ![k].stalled = FALSE]
  /\ UNCHANGED <<receivedVars, tracked, workerAgents, cancels, runnerVars, sessionVars, reported>>

OnWipEventDone(k) ==
  /\ k \in Wips /\ worksInProgress[k].job = "running"
  /\ EndWork(k, "FULFILLED", FALSE)

OnWipEventError_OnlyDropped(k) ==   \* mutant
  /\ k \in Wips /\ worksInProgress[k].job = "running"
  /\ worksInProgress' = [worksInProgress EXCEPT ![k] = None]
  /\ UNCHANGED <<receivedVars, tracked, workerAgents, cancels, runnerVars, sessionVars, reported>>
OnWipEventError(k) ==
  /\ k \in Wips /\ worksInProgress[k].job = "running"
  /\ EndWork(k, "NEW", TRUE)

\* The worker's job ends without its event reaching the manager.
WipEventLost(k) ==
  /\ k \in Wips /\ worksInProgress[k].job = "running"
  /\ worksInProgress' = [worksInProgress EXCEPT ![k].job = "silent"]
  /\ UNCHANGED <<receivedVars, tracked, workerAgents, cancels, runnerVars, sessionVars, reported>>

-----------------------------------------------------------------------------
(* workInProgressCancel, called by a run and answered later.               *)

\* The worker has cancelled: no more events, and the function deletes itself
\* from whatever status its object has by now.
CancelReturns(c) ==
  /\ c \in cancels
  /\ cancels' = cancels \ {c}
  /\ awaiting' = awaiting \ {c}
  /\ worksInProgress' =
       IF worksInProgress[c.wip] = None THEN worksInProgress
       ELSE [worksInProgress EXCEPT ![c.wip].job = "silent"]
  /\ tracked' = IF c.replaced \/ tracked[c.exp] = None THEN tracked
                ELSE [tracked EXCEPT ![c.exp].cancel = None]
  /\ UNCHANGED <<receivedVars, workerAgents, pc, phase, pending, starting, sessionVars, reported>>

\* The call is rejected; if the run awaits it, the run ends there.
CancelFails(c) ==
  /\ "cancelFails" \in Inputs
  /\ c \in cancels
  /\ cancels' = cancels \ {c}
  /\ IF c \in awaiting THEN pc' = "idle" /\ awaiting' = {}
                       ELSE UNCHANGED <<pc, awaiting>>
  /\ UNCHANGED <<receivedVars, tracked, worksInProgress, workerAgents, phase, pending, starting,
                 sessionVars, reported>>

-----------------------------------------------------------------------------
(* EvaluationRunner.run: pulling in what has been received.                *)

\* Where a run goes when the Expectations are up to date.
ToPackageContainers ==
  /\ pc' = IF containersUpdated THEN "containers" ELSE "checking"
  /\ containersUpdated' = FALSE

StartRun ==
  /\ pc = "idle" /\ ~updated
  /\ ToPackageContainers
  /\ UNCHANGED <<expectations, restart, abort, restartAll, updated, tracked, worksInProgress,
                 workerAgents, cancels, awaiting, phase, pending, starting, sessionVars, reported>>

IsNew(e)     == tracked[e] = None /\ expectations[e] # None
IsChanged(e) == /\ tracked[e] # None /\ expectations[e] # None
                /\ IsSignificantlyDifferent(tracked[e].exp, expectations[e])
IsRemoved(e)   == tracked[e] # None /\ expectations[e] = None

IsRestarted(e) == restartAll \/ e \in restart

\* An update that is not a major one leaves all but the content alone.
MinorUpdate(e) == [tracked[e] EXCEPT !.exp = expectations[e]]

\* The object of an Expectation after updateReceivedData_Expectations.
Received(e) ==
  LET updatedObject == IF IsNew(e) \/ IsChanged(e) THEN DefaultTrackedExpectation(expectations[e])
                       ELSE IF IsRemoved(e) THEN [tracked[e] EXCEPT !.state = "REMOVED", !.recheck = TRUE]
                       ELSE MinorUpdate(e)
  IN  IF e \in abort THEN WithState(updatedObject, "ABORTED", FALSE)
      ELSE IF IsRestarted(e) THEN [updatedObject EXCEPT !.state = "RESTARTED", !.recheck = TRUE]
      ELSE updatedObject

\* The objects that the calls in progress refer to are replaced for these Expectations.
CancelsOf(exps) == {IF c.exp \in exps THEN [c EXCEPT !.replaced = TRUE] ELSE c : c \in cancels}

\* The cancels that are called for an Expectation that is being worked on.
CancelsCalled ==
  {[exp |-> e, wip |-> tracked[e].cancel, replaced |-> IsChanged(e)] :
     e \in {x \in InState("WORKING") :
              /\ tracked[x].cancel # None
              /\ IsChanged(x) \/ IsRemoved(x) \/ IsRestarted(x) \/ x \in abort}}

StartRunWithUpdates ==
  LET known    == {e \in Exp : tracked[e] # None \/ expectations[e] # None}
      replaced == {e \in Exp : IsChanged(e)}
  IN
  /\ pc = "idle" /\ updated
  /\ tracked' = [e \in Exp |-> IF e \in known THEN Received(e) ELSE None]
  /\ reported' = [e \in Exp |->
       IF e \in known /\ (tracked[e] = None \/ e \in replaced \/ Received(e).state # tracked[e].state)
       THEN Received(e).state ELSE reported[e]]
  /\ worksInProgress' = [k \in WipKey |->
       IF k \in Wips /\ worksInProgress[k].exp \in replaced /\ worksInProgress[k].object = "tracked"
       THEN [worksInProgress[k] EXCEPT !.object =
               IF WipIsWorking(k) THEN "replacedWorking" ELSE "replacedIdle"]
       ELSE worksInProgress[k]]
  /\ cancels' = CancelsOf(replaced) \cup CancelsCalled
  /\ awaiting' = CancelsCalled
  /\ restart' = {} /\ abort' = {} /\ restartAll' = FALSE /\ updated' = FALSE
  /\ pc' = "cancelling"
  /\ UNCHANGED <<expectations, containersUpdated, workerAgents, phase, pending, starting, sessionVars>>

CancelsDone_ResetsAfterwards ==   \* mutant
  /\ pc = "cancelling" /\ awaiting = {}
  /\ ToPackageContainers
  /\ restart' = {} /\ abort' = {} /\ restartAll' = FALSE /\ updated' = FALSE
  /\ UNCHANGED <<expectations, tracked, worksInProgress, workerAgents, cancels, awaiting, phase,
                 pending, starting, sessionVars, reported>>
CancelsDone_NotAwaited ==   \* mutant
  /\ pc = "cancelling" /\ awaiting' = {}
  /\ ToPackageContainers
  /\ UNCHANGED <<expectations, restart, abort, restartAll, updated, tracked, worksInProgress,
                 workerAgents, cancels, phase, pending, starting, sessionVars, reported>>
CancelsDone ==
  /\ pc = "cancelling" /\ awaiting = {}
  /\ ToPackageContainers
  /\ UNCHANGED <<expectations, restart, abort, restartAll, updated, tracked, worksInProgress,
                 workerAgents, cancels, awaiting, phase, pending, starting, sessionVars, reported>>

\* _updateReceivedData_TrackedPackageContainers has got its answers.
PackageContainersDone ==
  /\ pc = "containers"
  /\ restart' = {}
  /\ pc' = "checking"
  /\ UNCHANGED <<expectations, abort, restartAll, updated, containersUpdated, tracked, worksInProgress,
                 workerAgents, cancels, awaiting, phase, pending, starting, sessionVars, reported>>

-----------------------------------------------------------------------------
(* checkWorksInProgress and the start of _evaluateAllExpectations, which   *)
(* follow each other without an await.                                     *)

\* The first parallel state after index i that objects t are in, or the serial part.
EnterPhaseAfter(i, t) ==
  LET inState(s) == {e \in Exp : t[e] # None /\ t[e].state = s}
      later == {j \in DOMAIN ParallelStates : j > i /\ inState(ParallelStates[j]) # {}}
  IN  IF later = {}
      THEN /\ pc' = "serial" /\ phase' = 0
           /\ pending' = inState("READY")
      ELSE \E j \in later :
             /\ \A other \in later : j <= other
             /\ pc' = "parallel" /\ phase' = j
             /\ pending' = inState(ParallelStates[j])

\* Works that have stalled.
StalledWips_Unchecked == {}   \* mutant
StalledWips == {k \in Wips : WipIsWorking(k) /\ worksInProgress[k].stalled}

\* Works of which the Expectation is not WORKING (any more).
IdleWips_NotRestarted ==   \* mutant
  {k \in Wips : ~WipIsWorking(k) /\ tracked[worksInProgress[k].exp].state # "RESTARTED"}
IdleWips == {k \in Wips : ~WipIsWorking(k)}

CheckWorksInProgress ==
  LET restarts(e, object) == \E k \in StalledWips : /\ worksInProgress[k].exp = e
                                                    /\ worksInProgress[k].object = object
  IN
  /\ pc = "checking"
  /\ tracked' = [e \in Exp |-> IF restarts(e, "tracked")
                               THEN WithState(tracked[e], "NEW", FALSE) ELSE tracked[e]]
  /\ reported' = [e \in Exp |-> IF restarts(e, "tracked") \/ restarts(e, "replacedWorking")
                                THEN "NEW" ELSE reported[e]]
  /\ worksInProgress' = [k \in WipKey |-> IF k \in StalledWips \cup IdleWips THEN None
                                          ELSE worksInProgress[k]]
  /\ hadError' = {} /\ removeIds' = {} /\ runAgainASAP' = FALSE
  /\ EnterPhaseAfter(0, tracked')
  /\ UNCHANGED <<receivedVars, workerAgents, cancels, awaiting, starting>>

-----------------------------------------------------------------------------
(* evaluateExpectationState                                                *)

CanEvaluate(e) ==
  /\ e \notin hadError /\ e \notin removeIds
  /\ tracked[e].lastError => tracked[e].state = "RESTARTED"

\* The sets availableWorkers may be after the registered workers, or some of
\* them, have been asked whether they support the Expectation.
QueryAnswers(available) ==
  {a \in SUBSET Worker : a \ workerAgents = available \ workerAgents}

\* assignWorkerToSession: a worker that offers a cost, or none.
Assignments(o) ==
  {a \in [available: QueryAnswers(o.availableWorkers \cap workerAgents), worker: Worker \cup {None}] :
     a.worker \in a.available \cup {None}}

NoWorkerAssigned(e, o) ==
  UpdateStatus(e, o, IF o.availableWorkers = {} \/ o.state = "WAITING" THEN "NEW" ELSE o.state, FALSE)

IsWaitingForOther(e) ==
  \E d \in DependsOn[e] : tracked[d] # None /\ tracked[d].state # "FULFILLED"

\* The other tracked Expectations that listen to the fulfillment of e.
Listeners(e) == {x \in Tracked \ {e} : e \in TriggerBy[x]}

\* An error thrown out of a state handler, after it has looked for a worker,
\* only sets the reason.
HandlerThrows(e) ==
  \E a \in Assignments(tracked[e]) :
    UpdateStatus(e, [tracked[e] EXCEPT !.availableWorkers = a.available], tracked[e].state, TRUE)

EvaluateNew(e) ==
  /\ tracked[e].state = "NEW"
  /\ \E a \in QueryAnswers(tracked[e].availableWorkers) :
       LET o == [tracked[e] EXCEPT !.availableWorkers = a, !.cancel = None]
       IN  \/ UpdateStatus(e, o, IF a = {} THEN "NEW" ELSE "WAITING", FALSE)
           \/ UpdateStatus(e, o, "NEW", TRUE)   \* a query was rejected
  /\ UNCHANGED <<removeIds, runAgainASAP>>

\* WAITING to FULFILLED, triggering those who listen.
AlreadyFulfilled(e, o) ==
  /\ tracked' = [x \in Exp |-> IF x = e THEN WithState(o, "FULFILLED", FALSE)
                               ELSE IF x \in Listeners(e) THEN [tracked[x] EXCEPT !.recheck = TRUE]
                               ELSE tracked[x]]
  /\ ReportState(e, "WAITING", "FULFILLED")
  /\ runAgainASAP' = (runAgainASAP \/ Listeners(e) # {})
  /\ UNCHANGED <<hadError, removeIds>>

EvaluateWaiting(e) ==
  /\ tracked[e].state = "WAITING"
  /\ \/ \E a \in Assignments(tracked[e]) :
          LET o == [tracked[e] EXCEPT !.availableWorkers = a.available]
          IN  \/ /\ a.worker = None
                 /\ NoWorkerAssigned(e, o)
                 /\ UNCHANGED <<removeIds, runAgainASAP>>
              \/ /\ a.worker # None /\ IsWaitingForOther(e)
                 /\ UpdateStatus(e, o, "WAITING", FALSE)
                 /\ UNCHANGED <<removeIds, runAgainASAP>>
              \/ /\ a.worker # None /\ ~IsWaitingForOther(e)
                 /\ AlreadyFulfilled(e, o)
              \/ /\ a.worker # None /\ ~IsWaitingForOther(e)
                 /\ \/ UpdateStatus(e, o, "READY", FALSE)
                    \/ UpdateStatus(e, o, "WAITING", FALSE)
                    \/ UpdateStatus(e, o, "NEW", TRUE)
                 /\ UNCHANGED <<removeIds, runAgainASAP>>
     \/ HandlerThrows(e) /\ UNCHANGED <<removeIds, runAgainASAP>>

\* Checked after a while only, unless it has been triggered.
EvaluateFulfilled(e) ==
  /\ tracked[e].state = "FULFILLED"
  /\ \/ ~tracked[e].recheck /\ UNCHANGED <<tracked, hadError, reported>>
     \/ \E a \in Assignments(tracked[e]) :
          LET o == [tracked[e] EXCEPT !.availableWorkers = a.available]
          IN  \/ a.worker = None /\ NoWorkerAssigned(e, o)
              \/ a.worker # None /\ UpdateStatus(e, o, "NEW", FALSE)
              \/ /\ a.worker # None /\ ~IsWaitingForOther(e)
                 /\ tracked' = [tracked EXCEPT ![e] = [o EXCEPT !.recheck = FALSE]]
                 /\ UNCHANGED <<hadError, reported>>
              \/ a.worker # None /\ UpdateStatus(e, o, "FULFILLED", FALSE)
     \/ HandlerThrows(e)
  /\ UNCHANGED <<removeIds, runAgainASAP>>

\* The owner is told that the Expectation is no more.
ReportDropped_Not(e) == UNCHANGED reported   \* mutant
ReportDropped(e) == reported' = [reported EXCEPT ![e] = None]

TooManyFailures(n) == n > FAILED_REMOVE_COUNT

\* The removal fails, or there is no worker to do it; too many failures drop it anyway.
RemovalFails(e, a) ==
  LET o == [tracked[e] EXCEPT !.availableWorkers = a.available, !.errorOnRemoveCount = @ + 1]
      state == IF a.worker = None /\ a.available = {} THEN "NEW" ELSE "REMOVED"
      isError == a.worker # None
  IN  /\ tracked' = [tracked EXCEPT ![e] = WithState(o, state, isError)]
      /\ hadError' = IF isError THEN hadError \cup {e} ELSE hadError
      /\ IF TooManyFailures(o.errorOnRemoveCount)
         THEN removeIds' = removeIds \cup {e} /\ ReportDropped(e)
         ELSE UNCHANGED removeIds /\ ReportState(e, "REMOVED", state)

EvaluateRemoved(e) ==
  /\ tracked[e].state = "REMOVED"
  /\ \/ \E a \in Assignments(tracked[e]) :
          \/ /\ a.worker # None
             /\ tracked' = [tracked EXCEPT ![e].availableWorkers = a.available]
             /\ removeIds' = removeIds \cup {e}
             /\ ReportDropped(e)
             /\ UNCHANGED hadError
          \/ RemovalFails(e, a)
     \/ HandlerThrows(e) /\ UNCHANGED removeIds
  /\ UNCHANGED runAgainASAP

\* RESTARTED and ABORTED both start by removing what the work has made.
RemoveThen(e, next) ==
  /\ \/ \E a \in Assignments(tracked[e]) :
          LET o == [tracked[e] EXCEPT !.availableWorkers = a.available]
          IN  \/ a.worker = None /\ NoWorkerAssigned(e, o)
              \/ a.worker # None /\ UpdateStatus(e, o, next, FALSE)
              \/ a.worker # None /\ UpdateStatus(e, o, o.state, TRUE)
     \/ HandlerThrows(e)
  /\ UNCHANGED <<removeIds, runAgainASAP>>

EvaluateRestarted(e) == tracked[e].state = "RESTARTED" /\ RemoveThen(e, "NEW")

EvaluateAborted(e) == tracked[e].state = "ABORTED" /\ RemoveThen(e, "ABORTED")

EvaluateInParallel(e) ==
  /\ pc = "parallel" /\ e \in pending
  /\ pending' = pending \ {e}
  /\ \/ /\ CanEvaluate(e)
        /\ \/ EvaluateAborted(e) \/ EvaluateRestarted(e) \/ EvaluateRemoved(e)
           \/ EvaluateNew(e) \/ EvaluateWaiting(e) \/ EvaluateFulfilled(e)
     \/ /\ ~CanEvaluate(e)
        /\ UNCHANGED <<tracked, reported, sessionVars>>
  /\ UNCHANGED <<receivedVars, worksInProgress, workerAgents, cancels, pc, awaiting, phase, starting>>

\* On to the next state, when all are evaluated or the pool is stopped.
NextPhase ==
  /\ pc = "parallel"
  /\ pending = {} \/ "skip" \in Inputs
  /\ EnterPhaseAfter(phase, tracked)
  /\ hadError' = IF pc' = "serial" THEN {} ELSE hadError
  /\ UNCHANGED <<receivedVars, tracked, worksInProgress, workerAgents, cancels, awaiting, starting,
                 removeIds, runAgainASAP, reported>>

-----------------------------------------------------------------------------
(* The serial part: READY Expectations are started one by one.             *)

\* After each of them the rest is left for later if there are new updates.
RestAfter(e) == IF updated THEN {} ELSE pending \ {e}

EvaluateReady(e) ==
  /\ pc = "serial" /\ e \in pending
  /\ \/ /\ CanEvaluate(e)
        /\ \E a \in Assignments(tracked[e]) :
             LET o == [tracked[e] EXCEPT !.availableWorkers = a.available]
             IN  \/ /\ a.worker # None
                    /\ pc' = "starting" /\ starting' = [exp |-> e, worker |-> a.worker]
                    /\ tracked' = [tracked EXCEPT ![e] = o]
                    /\ UNCHANGED <<pending, hadError, reported>>
                 \/ \* none, or only busy ones (startCost > 0)
                    /\ \/ NoWorkerAssigned(e, o)
                       \/ UpdateStatus(e, o, "NEW", FALSE)
                    /\ pending' = RestAfter(e)
                    /\ UNCHANGED <<pc, starting>>
     \/ /\ CanEvaluate(e) /\ HandlerThrows(e)
        /\ pending' = RestAfter(e)
        /\ UNCHANGED <<pc, starting>>
     \/ /\ ~CanEvaluate(e)
        /\ pending' = RestAfter(e)
        /\ UNCHANGED <<tracked, reported, hadError, pc, starting>>
  /\ UNCHANGED <<receivedVars, worksInProgress, workerAgents, cancels, awaiting, phase,
                 removeIds, runAgainASAP>>

\* A worker process counts its works up from 0, so it gives no id twice: only
\* the works of an earlier process of the same worker may have that id.
IsFresh(k) ==
  /\ worksInProgress[k] # None => worksInProgress[k].job = "dead"
  /\ \A c \in cancels : c.wip # k

CanBeCancelled(o, k) == [o EXCEPT !.cancel = k]

\* workOnExpectation has returned the id l of the work.  Events of the work
\* that came before this answer have been ignored.
WorkStarted(l) ==
  LET e == starting.exp
      k == <<starting.worker, l>>
  IN
  /\ pc = "starting"
  /\ IsFresh(k)
  /\ \E job \in {"running", "silent"} :
       worksInProgress' = [worksInProgress EXCEPT ![k] =
         [exp |-> e, object |-> "tracked", job |-> job, stalled |-> FALSE]]
  /\ UpdateStatus(e, CanBeCancelled(tracked[e], k), "WORKING", FALSE)
  /\ pc' = "serial" /\ starting' = None
  /\ pending' = RestAfter(e)
  /\ UNCHANGED <<receivedVars, workerAgents, cancels, awaiting, phase, removeIds, runAgainASAP>>

WorkNotStarted ==
  /\ pc = "starting"
  /\ UpdateStatus(starting.exp, tracked[starting.exp], "NEW", TRUE)
  /\ pc' = "serial" /\ starting' = None
  /\ pending' = RestAfter(starting.exp)
  /\ UNCHANGED <<receivedVars, worksInProgress, workerAgents, cancels, awaiting, phase,
                 removeIds, runAgainASAP>>

FinishRun ==
  /\ pc = "serial"
  /\ pending = {} \/ updated \/ (runAgainASAP /\ "skip" \in Inputs)
  /\ tracked' = [e \in Exp |-> IF e \in removeIds THEN None ELSE tracked[e]]
  /\ cancels' = CancelsOf(removeIds)
  /\ pc' = "idle" /\ pending' = {}
  /\ hadError' = {} /\ removeIds' = {} /\ runAgainASAP' = FALSE
  /\ UNCHANGED <<receivedVars, worksInProgress, workerAgents, awaiting, phase, starting, reported>>

-----------------------------------------------------------------------------
Owner ==
  \/ \E e \in Exp, v \in Content \cup {None} : SetExpectations(e, v)
  \/ \E e \in Exp : RestartExpectation(e)
  \/ \E e \in Exp : AbortExpectation(e)
  \/ RestartAllExpectations
  \/ UpdatePackageContainers

Workers ==
  \/ \E w \in Worker : WorkerConnects(w)
  \/ \E w \in Worker : WorkerGone(w)
  \/ \E w \in Worker : WorkerRestarts(w)
  \/ \E k \in WipKey : OnWipEventProgress(k)
  \/ \E k \in WipKey : OnWipEventDone(k)
  \/ \E k \in WipKey : OnWipEventError(k)
  \/ \E k \in WipKey : WipEventLost(k)
  \/ \E c \in cancels : CancelReturns(c)
  \/ \E c \in cancels : CancelFails(c)

Time ==
  \/ \E e \in Exp : ErrorWaitOver(e)
  \/ \E k \in WipKey : WorkStalls(k)

Runner ==
  \/ StartRun
  \/ StartRunWithUpdates
  \/ CancelsDone
  \/ PackageContainersDone
  \/ CheckWorksInProgress
  \/ \E e \in Exp : EvaluateInParallel(e)
  \/ NextPhase
  \/ \E e \in Exp : EvaluateReady(e)
  \/ \E l \in WipId : WorkStarted(l)
  \/ WorkNotStarted
  \/ FinishRun

Next == Owner \/ Workers \/ Time \/ Runner

Spec == Init /\ [][Next]_vars

-----------------------------------------------------------------------------
TypeOK ==
  /\ expectations \in [Exp -> Content \cup {None}]
  /\ restart \in SUBSET Exp /\ abort \in SUBSET Exp
  /\ restartAll \in BOOLEAN /\ updated \in BOOLEAN /\ containersUpdated \in BOOLEAN
  /\ tracked \in [Exp -> TrackedExpectation \cup {None}]
  /\ worksInProgress \in [WipKey -> WorkInProgress \cup {None}]
  /\ workerAgents \in SUBSET Worker
  /\ cancels \in SUBSET Cancel
  /\ pc \in {"idle", "cancelling", "containers", "checking", "parallel", "serial", "starting"}
  /\ awaiting \in SUBSET Cancel
  /\ phase \in 0 .. 6
  /\ pending \in SUBSET Exp
  /\ hadError \in SUBSET Exp /\ removeIds \in SUBSET Exp /\ runAgainASAP \in BOOLEAN
  /\ starting \in Start \cup {None}
  /\ reported \in [Exp -> State \cup {None}]

(***************************************************************************)
(* Every Expectation that is WORKING has a work in progress, through which *)
(* it leaves WORKING: by the worker's done or error event, or by the check *)
(* for stalled works.  Without it it would be WORKING forever.             *)
(***************************************************************************)
IsWipOf(k, e) == /\ worksInProgress[k] # None
                 /\ worksInProgress[k].exp = e
                 /\ worksInProgress[k].object = "tracked"

WorkingIsMonitored == \A e \in InState("WORKING") : \E k \in WipKey : IsWipOf(k, e)

(***************************************************************************)
(* An Expectation that is WORKING has no second work in progress: the end  *)
(* of an earlier work, cancelled but racing with its own done event, can   *)
(* not be taken for the end of the present one.                            *)
(***************************************************************************)
OneWorkInProgress ==
  \A e \in InState("WORKING") : \A j, k \in WipKey : IsWipOf(j, e) /\ IsWipOf(k, e) => j = k

(***************************************************************************)
(* The work of a WORKING Expectation can be cancelled: its status has the  *)
(* cancel function of exactly that work (removing, restarting, aborting    *)
(* and updating an Expectation rely on it).  It holds because a run awaits *)
(* the cancels of all Expectations before it goes on, and as long as none  *)
(* of them is rejected: see AbortCancelsTheWork.                           *)
(***************************************************************************)
WorkingCanBeCancelled ==
  \A e \in InState("WORKING") : tracked[e].cancel # None /\ IsWipOf(tracked[e].cancel, e)

(***************************************************************************)
(* No received change is lost: when no update waits to be pulled in, no    *)
(* restart or abort waits either, which no run would see, and each tracked *)
(* Expectation has the content that was received last, whether the change  *)
(* was a major one, a minor one or came with a restart or an abort.        *)
(***************************************************************************)
TrackedIsUpToDate ==
  ~updated => /\ restart = {} /\ abort = {} /\ ~restartAll
              /\ \A e \in Tracked : expectations[e] # None => tracked[e].exp = expectations[e]

(***************************************************************************)
(* The status reported last is the state of the tracked object, although   *)
(* events, timeouts and runs report from several places; a dropped         *)
(* Expectation is reported as removed.                                     *)
(***************************************************************************)
ReportedIsCurrent ==
  \A e \in Exp \ removeIds : IF tracked[e] = None THEN reported[e] = None
                                                  ELSE reported[e] = tracked[e].state

-----------------------------------------------------------------------------
(* What the comments of the code say, and the code does not keep.          *)

(***************************************************************************)
(* trackedReceivedUpdates.ts:12: what is received is stored "to be         *)
(* processed on next iteration round".  A restart leaves the store only by *)
(* being processed: its Expectation becomes RESTARTED (or ABORTED), or is  *)
(* not tracked.  The code clears the store a second time, when package     *)
(* containers have been updated.                                           *)
(***************************************************************************)
RestartsAreHandled ==
  [][\A e \in restart \ restart' :
       tracked'[e] # None => tracked'[e].state \in {"RESTARTED", "ABORTED"}]_vars

(***************************************************************************)
(* aborted.ts:8: an aborted Expectation "will stay Aborted until a user    *)
(* clicks Restart", or the owner removes it or changes what it requires.   *)
(* The code also takes it to NEW when no worker is available for it.       *)
(***************************************************************************)
LeavesAborted(e) == /\ tracked[e] # None /\ tracked[e].state = "ABORTED"
                    /\ tracked'[e] # None /\ tracked'[e].state # "ABORTED"
IsAskedFor(e) == pc = "idle" /\ (IsRestarted(e) \/ IsRemoved(e) \/ IsChanged(e))

AbortedStaysAborted == [][\A e \in Exp : LeavesAborted(e) => IsAskedFor(e)]_vars

\* What the code keeps of it.
LeavesForAReason(e) ==
  LeavesAborted(e) =>
    IsAskedFor(e) \/ (tracked'[e].state = "NEW" /\ tracked'[e].availableWorkers = {})

AbortedLeavesForAReason == [][\A e \in Exp : LeavesForAReason(e)]_vars

(***************************************************************************)
(* expectationManager.ts:106: to abort an Expectation "means that any      *)
(* current work is cancelled".  A cancel of an earlier work deletes the    *)
(* cancel function of the present one when it is answered after the run    *)
(* that awaited it: that needs a second cancel, which is rejected.         *)
(***************************************************************************)
AbortCancelsTheWork ==
  [][\A e \in (abort \ abort') \cap InState("WORKING") :
       \E c \in awaiting' : c.exp = e /\ IsWipOf(c.wip, e)]_vars

-----------------------------------------------------------------------------
(***************************************************************************)
(* The inductive invariant behind the safety properties, in named parts.   *)
(***************************************************************************)
Evaluating == pc \in {"parallel", "serial", "starting"}

\* A work in progress of a tracked object: that object is still there.
WipsAreTracked ==
  \A k \in Wips : worksInProgress[k].object = "tracked" => tracked[worksInProgress[k].exp] # None

\* checkWorksInProgress has dropped the works whose object is not WORKING, so
\* while Expectations are evaluated there are none of those.
WipsAreWorking ==
  Evaluating => \A k \in Wips : worksInProgress[k].object = "tracked" => WipIsWorking(k)

\* What is evaluated next is in the state that is being handled.
PendingIsInPhase ==
  /\ pc = "parallel" => /\ phase \in DOMAIN ParallelStates
                        /\ pending \subseteq InState(ParallelStates[phase])
  /\ pc \in {"serial", "starting"} => pending \subseteq InState("READY")
  /\ pc = "starting" => starting # None /\ starting.exp \in InState("READY")

\* A run only waits for cancels before it evaluates anything.
AwaitsBeforeEvaluating == awaiting # {} => pc = "cancelling"

\* What FinishRun will drop has been REMOVED in this run, and not worked on since.
RemovalsAreOver ==
  /\ removeIds # {} => Evaluating
  /\ removeIds \subseteq InState("REMOVED") \cup InState("NEW")
  /\ \A e \in Tracked : tracked[e].errorOnRemoveCount > FAILED_REMOVE_COUNT => e \in removeIds

\* A worker that is not restarted gives no id twice.
NoWorkIsLost ==
  "workerRestarts" \notin Inputs => /\ WorkingIsMonitored
                                    /\ \A k \in Wips : worksInProgress[k].job # "dead"

\* When no cancel fails, a run waits for all of them, so that none is answered
\* after its Expectation is being worked on again.
CancelsAreAwaited ==
  Inputs \cap {"workerRestarts", "cancelFails"} = {} =>
    /\ WorkingCanBeCancelled
    /\ cancels # {} => pc = "cancelling" /\ cancels = awaiting
    /\ \A c \in cancels : c.replaced \/ c.exp \notin InState("WORKING")

IInv == /\ TypeOK
        /\ WipsAreTracked
        /\ WipsAreWorking
        /\ PendingIsInPhase
        /\ AwaitsBeforeEvaluating
        /\ RemovalsAreOver
        /\ OneWorkInProgress
        /\ TrackedIsUpToDate
        /\ NoWorkIsLost
        /\ CancelsAreAwaited
=============================================================================
