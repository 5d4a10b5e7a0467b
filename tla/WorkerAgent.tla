----------------------------- MODULE WorkerAgent -----------------------------
(***************************************************************************)
(* One WorkerAgent: the jobs an ExpectationManager has it do, the events   *)
(* it sends about them, the watch on jobs that show no progress, and what  *)
(* makes the Worker ask its AppContainer to be stopped (nothing to do for  *)
(* spinDownTime, or a failure in each of failurePeriodLimit periods).      *)
(*                                                                         *)
(* Time passes in ticks: the interval of the watch on a job (one second).  *)
(* Timeout and SpinDownTime are counted in ticks.  `told` is what the      *)
(* manager has last been sent about a job, and `work` what the             *)
(* ExpectationHandler's WorkInProgress really does; neither is a variable  *)
(* of the code.                                                            *)
(***************************************************************************)
EXTENDS Naturals, FiniteSets, Sequences

CONSTANTS
  Jobs,               \* the jobs (their wipIds)
  Containers,         \* PackageContainers that can be monitored
  Timeout,            \* WORK_TIMEOUT_TIME: no progress for longer cancels the job
  SpinDownTime,       \* idle for longer: the Worker asks to be stopped
  FailurePeriodLimit  \* config.worker.failurePeriodLimit, when it is above 0

\* A job without progress is given up before the Worker that does it is idle: 30 s
\* against 60 s in the defaults.
ASSUME TimesAssumption ==
  /\ Timeout \in Nat /\ SpinDownTime \in Nat /\ Timeout <= SpinDownTime
  /\ FailurePeriodLimit \in Nat \ {0}

VARIABLES
  job,           \* the CurrentJob records
  work,          \* what the work of a job does
  told,          \* the last event about a job the manager was sent
  sinceWork,     \* ticks since IDidSomeWork()
  failed,        \* failureCounter > 0
  failedPeriods, \* failurePeriodCounter
  periods,       \* whether anything failed in the last FailurePeriodLimit periods
  activeMonitors,\* the PackageContainers with an entry in the map of monitors
  known,         \* the manager is in the map of expectationManagers
  asked,         \* the request to be stopped that has been sent: "no", "kindly" or "forced"
  terminated

jobVars == <<job, work, told>>
failureVars == <<failed, failedPeriods, periods>>
agentVars == <<jobVars, sinceWork, failureVars, activeMonitors, known, asked, terminated>>

CurrentJob ==
  [current : BOOLEAN,     \* it is in currentJobs
   cancelled : BOOLEAN,
   wip : BOOLEAN,         \* workInProgress is set
   timer : BOOLEAN,       \* timeoutInterval runs
   cancelling : BOOLEAN,  \* workInProgress.cancel() is awaited
   since : 0 .. (Timeout + 1)]

NoJob ==
  [current |-> FALSE, cancelled |-> FALSE, wip |-> FALSE, timer |-> FALSE, cancelling |-> FALSE,
   since |-> 0]

InitAgent ==
  /\ job = [j \in Jobs |-> NoJob]
  /\ work = [j \in Jobs |-> "none"]
  /\ told = [j \in Jobs |-> "nothing"]
  /\ sinceWork = 0
  /\ failed = FALSE /\ failedPeriods = 0 /\ periods = <<>>
  /\ activeMonitors = {}
  /\ known = TRUE
  /\ asked = "no"
  /\ terminated = FALSE

\* A Worker that is not there.
NoAgent ==
  /\ job = [j \in Jobs |-> NoJob] /\ work = [j \in Jobs |-> "none"] /\ told = [j \in Jobs |-> "nothing"]
  /\ sinceWork = 0 /\ failed = FALSE /\ failedPeriods = 0 /\ periods = <<>> /\ activeMonitors = {}
  /\ known = FALSE /\ asked = "forced" /\ terminated = TRUE

IDidSomeWork == sinceWork' = 0
IFailed == failed' = TRUE /\ UNCHANGED <<failedPeriods, periods>>

removeJob_NotCancelled(r) == [r EXCEPT !.current = FALSE]

removeJob(r) == [r EXCEPT !.current = FALSE, !.cancelled = TRUE]

Least(a, b) == IF a < b THEN a ELSE b

-----------------------------------------------------------------------------
(* The life of a job.                                                      *)

\* workOnExpectation: the job is created, and the ExpectationHandler is asked to start.
createNewJobForExpectation(j) ==
  /\ work[j] = "none" /\ ~terminated
  /\ IDidSomeWork
  /\ IF known
     THEN /\ job' = [job EXCEPT ![j] = [NoJob EXCEPT !.current = TRUE, !.timer = TRUE]]
          /\ work' = [work EXCEPT ![j] = "starting"]
          /\ UNCHANGED failureVars
     ELSE /\ IFailed
          /\ UNCHANGED <<job, work>>
  /\ UNCHANGED <<told, activeMonitors, known, asked, terminated>>

\* The handler has started: the job gets its WorkInProgress and the manager its wipId.
\* Whether the job has been given up meanwhile is not looked at.
makeWorkerWorkOnJobForExpecation(j) ==
  /\ work[j] = "starting"
  /\ work' = [work EXCEPT ![j] = "running"]
  /\ job' = [job EXCEPT ![j].wip = TRUE]
  /\ UNCHANGED <<told, sinceWork, failureVars, activeMonitors, known, asked, terminated>>

\* The handler could not start: the job is removed, the manager gets the error.
InitialError(j) ==
  /\ work[j] = "starting"
  /\ work' = [work EXCEPT ![j] = "refused"]
  /\ job' = [job EXCEPT ![j] = removeJob(@)]
  /\ IFailed
  /\ UNCHANGED <<told, sinceWork, activeMonitors, known, asked, terminated>>

\* An event is dropped when the manager is not known (any more).
Tell(j, event) == told' = IF known THEN [told EXCEPT ![j] = event] ELSE told

onProgress_IsNoWork(j) ==
  /\ work[j] \in {"running", "over"}
  /\ IF job[j].cancelled THEN UNCHANGED <<job, told>>
     ELSE /\ job' = [job EXCEPT ![j].since = 0]
          /\ Tell(j, "progress")
  /\ UNCHANGED <<work, sinceWork, failureVars, activeMonitors, known, asked, terminated>>

\* The WorkInProgress emits an event.  Progress is rate-limited by a timer of its own,
\* and may come when the work is over.
onProgress(j) ==
  /\ work[j] \in {"running", "over"}
  /\ IDidSomeWork
  /\ IF job[j].cancelled THEN UNCHANGED <<job, told>>
     ELSE /\ job' = [job EXCEPT ![j].since = 0]
          /\ Tell(j, "progress")
  /\ UNCHANGED <<work, failureVars, activeMonitors, known, asked, terminated>>

onDone(j) ==
  /\ work[j] = "running"
  /\ work' = [work EXCEPT ![j] = "over"]
  /\ IDidSomeWork
  /\ IF job[j].cancelled THEN UNCHANGED <<job, told>>
     ELSE /\ job' = [job EXCEPT ![j] = [removeJob(@) EXCEPT !.since = 0]]
          /\ Tell(j, "done")
  /\ UNCHANGED <<failureVars, activeMonitors, known, asked, terminated>>

\* An error may also come after the work has reported that it is done (do() reports
\* whatever its function throws).
onWorkError(j) ==
  /\ work[j] \in {"running", "over"}
  /\ work' = [work EXCEPT ![j] = "over"]
  /\ IDidSomeWork
  /\ IF job[j].cancelled THEN UNCHANGED <<job, told, failureVars>>
     ELSE /\ job' = [job EXCEPT ![j] = [removeJob(@) EXCEPT !.since = 0]]
          /\ Tell(j, "error")
          /\ IFailed
  /\ UNCHANGED <<activeMonitors, known, asked, terminated>>

\* cancelJob: only a job that has a WorkInProgress is cancelled, and stays in the list
\* while that takes.
startCancel(r) == IF r.wip THEN [r EXCEPT !.cancelling = TRUE] ELSE removeJob(r)

\* The manager cancels a job; it finds it by its wipId among the current ones.
cancelWorkInProgress(j) ==
  /\ ~terminated
  /\ job[j].current /\ work[j] # "starting" /\ ~job[j].cancelling
  /\ job' = [job EXCEPT ![j] = startCancel(@)]
  /\ UNCHANGED <<work, told, sinceWork, failureVars, activeMonitors, known, asked, terminated>>

CancelSucceeds(j) ==
  /\ job[j].cancelling
  /\ job' = [job EXCEPT ![j] = removeJob([@ EXCEPT !.cancelling = FALSE, !.wip = FALSE])]
  /\ work' = [work EXCEPT ![j] = "over"]
  /\ UNCHANGED <<told, sinceWork, failureVars, activeMonitors, known, asked, terminated>>

\* The handler's cancel throws, or does not come to an end in time: the job stays.  It is a
\* failure of the method the manager has called; a timeout and terminate() do not count it.
CancelFails(j) ==
  /\ job[j].cancelling
  /\ job' = [job EXCEPT ![j].cancelling = FALSE]
  /\ \/ job[j].current /\ IFailed
     \/ (~job[j].current \/ terminated) /\ UNCHANGED failureVars
  /\ UNCHANGED <<work, told, sinceWork, activeMonitors, known, asked, terminated>>

-----------------------------------------------------------------------------
(* Timers.                                                                 *)

timeoutInterval_AwaitsCancel(r) ==
  CASE ~r.timer                -> r
    [] r.timer /\ r.cancelled  -> [r EXCEPT !.timer = FALSE]
    [] r.timer /\ ~r.cancelled /\ r.since > Timeout -> startCancel([r EXCEPT !.timer = FALSE])
    [] OTHER -> r

\* The watch on a job: it ends with the job, or gives the job up (and cancels its work,
\* when there is any) after Timeout without progress.
timeoutInterval(r) ==
  CASE ~r.timer                -> r
    [] r.timer /\ r.cancelled  -> [r EXCEPT !.timer = FALSE]
    [] r.timer /\ ~r.cancelled /\ r.since > Timeout ->
         startCancel(removeJob([r EXCEPT !.timer = FALSE]))
    [] OTHER -> r

Tick ==
  /\ sinceWork' = Least(sinceWork + 1, SpinDownTime + 1)
  /\ job' = [j \in Jobs |->
               IF job[j].current \/ job[j].timer
               THEN timeoutInterval([job[j] EXCEPT !.since = Least(@ + 1, Timeout + 1)])
               ELSE job[j]]
  /\ <<job, sinceWork>>' # <<job, sinceWork>>
  /\ UNCHANGED <<work, told, failureVars, activeMonitors, known, asked, terminated>>

requestShutDown(how) == asked' = how

\* An idle Worker asks to be stopped, unless it has (or ever had) a monitor.
intervalCheck ==
  /\ ~terminated
  /\ sinceWork > SpinDownTime
  /\ IDidSomeWork
  /\ IF activeMonitors = {} THEN requestShutDown("kindly") ELSE UNCHANGED asked
  /\ UNCHANGED <<jobVars, failureVars, activeMonitors, known, terminated>>

\* The AppContainer does not stop the Worker (it is needed).
StaysUp ==
  /\ asked = "kindly"
  /\ asked' = "no"
  /\ UNCHANGED <<jobVars, sinceWork, failureVars, activeMonitors, known, terminated>>

LastOf(p) == IF Len(p) > FailurePeriodLimit THEN Tail(p) ELSE p

\* The end of a failure period.
intervalErrorCheck ==
  /\ ~terminated
  /\ periods' = LastOf(Append(periods, failed))
  /\ failed' = FALSE
  /\ failedPeriods' = IF failed THEN failedPeriods + 1 ELSE 0
  /\ IF failed /\ failedPeriods' >= FailurePeriodLimit
     THEN requestShutDown("forced") ELSE UNCHANGED asked
  /\ UNCHANGED <<jobVars, sinceWork, activeMonitors, known, terminated>>

-----------------------------------------------------------------------------

\* A call of any method fails, or ends with a reason that is not known beforehand.
MethodFails ==
  /\ ~terminated /\ ~failed
  /\ IFailed
  /\ UNCHANGED <<jobVars, sinceWork, activeMonitors, known, asked, terminated>>

\* The entry in the map is made before the monitors are, and is left when they are
\* disposed of.
setupPackageContainerMonitors(c) ==
  /\ ~terminated
  /\ activeMonitors' = activeMonitors \cup {c}
  /\ UNCHANGED <<jobVars, sinceWork, failureVars, known, asked, terminated>>

\* The Workforce (or its list of managers) says that the manager is there, or is gone.
expectationManagerAvailable ==
  /\ ~known
  /\ known' = TRUE
  /\ UNCHANGED <<jobVars, sinceWork, failureVars, activeMonitors, asked, terminated>>

expectationManagerGone ==
  /\ known
  /\ known' = FALSE
  /\ UNCHANGED <<jobVars, sinceWork, failureVars, activeMonitors, asked, terminated>>

terminate ==
  /\ ~terminated
  /\ terminated' = TRUE
  /\ job' = [j \in Jobs |-> IF job[j].current /\ ~job[j].cancelling THEN startCancel(job[j]) ELSE job[j]]
  /\ UNCHANGED <<work, told, sinceWork, failureVars, activeMonitors, known, asked>>

Job(j) ==
  \/ createNewJobForExpectation(j) \/ makeWorkerWorkOnJobForExpecation(j) \/ InitialError(j)
  \/ onProgress(j) \/ onDone(j) \/ onWorkError(j)
  \/ cancelWorkInProgress(j) \/ CancelSucceeds(j) \/ CancelFails(j)

\* A Worker that asks by force is stopped by its AppContainer.
NextAgent ==
  /\ asked # "forced"
  /\ \/ \E j \in Jobs : Job(j)
     \/ Tick \/ intervalCheck \/ StaysUp \/ intervalErrorCheck
     \/ MethodFails
     \/ \E c \in Containers : setupPackageContainerMonitors(c)
     \/ expectationManagerAvailable \/ expectationManagerGone
     \/ terminate

\* Time passes.  Nothing is assumed of the ExpectationHandlers and the manager.
FairnessOfAgent == WF_agentVars(asked # "forced" /\ Tick)

-----------------------------------------------------------------------------
(* Properties.                                                             *)

\* Every variable has the values the code can give it; a job that is not among the
\* current ones is cancelled, and a handler that runs belongs to a job.
TypeOKOfAgent ==
  /\ job \in [Jobs -> CurrentJob]
  /\ work \in [Jobs -> {"none", "starting", "refused", "running", "over"}]
  /\ told \in [Jobs -> {"nothing", "progress", "done", "error"}]
  /\ sinceWork \in 0 .. (SpinDownTime + 1)
  /\ failed \in BOOLEAN /\ failedPeriods \in Nat /\ periods \in Seq(BOOLEAN)
  /\ Len(periods) <= FailurePeriodLimit /\ failedPeriods <= Len(periods)
  /\ activeMonitors \subseteq Containers
  /\ known \in BOOLEAN
  /\ asked \in {"no", "kindly", "forced"}
  /\ terminated \in BOOLEAN
  /\ \A j \in Jobs : work[j] # "none" => job[j].current # job[j].cancelled

\* A Worker never asks to be stopped for being idle while it has a job: the watch on the
\* job gives it up first, because every update of a job also counts as work.  It asks by
\* force only when something has failed in each of the last FailurePeriodLimit periods.
AsksForAReason ==
  [][/\ asked' = "kindly" /\ asked # "kindly" => \A j \in Jobs : ~job[j].current
     /\ asked' = "forced" /\ asked # "forced" =>
          Len(periods') = FailurePeriodLimit /\ \A i \in DOMAIN periods' : periods'[i]]_agentVars

\* Once the manager has been told that a job is done or has failed it is told nothing more
\* about it, although progress is sent late and a handler may still throw; nor is anything
\* sent about a job whose cancellation is over, or that was given up for showing no progress.
NothingAfterTheEnd ==
  [][\A j \in Jobs :
       told[j] \in {"done", "error"} \/ job[j].cancelled => told'[j] = told[j]]_agentVars

\* "Ensure that the job is removed, so that it won't block others": a job whose handler
\* hangs, whose cancel fails or that is never heard of again leaves the list of current
\* jobs, unless there is progress again.
JobsEnd ==
  \A j \in Jobs :
    (job[j].current /\ job[j].since > 0) ~> (~job[j].current \/ job[j].since = 0 \/ asked = "forced")

-----------------------------------------------------------------------------
(* The inductive invariant behind the safety properties, in named parts.   *)

\* A job is watched from its beginning to its end, and its updates are work of the Worker;
\* the manager is only told of an end with which the job has ended.
JobsAreWatched ==
  \A j \in Jobs :
    /\ work[j] = "none" => job[j] = NoJob
    /\ told[j] \in {"done", "error"} => job[j].cancelled
    /\ job[j].current => job[j].timer /\ job[j].since <= Timeout /\ sinceWork <= job[j].since

\* The counter stands for that many failed periods at the end, and stays below the limit
\* until the Worker asks to be stopped.
PeriodsAreCounted ==
  /\ \A i \in DOMAIN periods : i > Len(periods) - failedPeriods => periods[i]
  /\ asked # "forced" => failedPeriods < FailurePeriodLimit

AgentInv == TypeOKOfAgent /\ JobsAreWatched /\ PeriodsAreCounted
=============================================================================
