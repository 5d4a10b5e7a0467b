# Sofie Package Manager in TLA+

This directory specifies the Package Manager: which Expectations follow from the packages
in Core, how they are tracked, evaluated, worked on by Workers and reported, what their
work does to files, which processes and tools it takes, and how processes are
started, stopped and share data. The modules are translated from the TypeScript sources;
`PROJECT.json` maps each definition to the lines it stands for. TLC checks small instances
(`*.cfg`), and TLAPS proves the results of section 14 for every value of the constants.

Paths are relative to `src/`; `EM` is `shared/packages/expectationManager/src`, `PM`
`apps/package-manager/packages/generic/src`, `W` `shared/packages/worker/src`.

    tlc -workers 2 -config ET_Faults.cfg MCExpectationTracker.tla
    tlapm ExpectationManager_proofs.tla

| Module | Section | |
|---|---|---|
| `ExpectationTracker` | 3 | tracker and runner: the life cycle of Expectations |
| `EvaluationScheduler`, `ExpectationManager` | 4 | the scheduler; tracker and scheduler composed |
| `JsonFile` | 5 | a JSON file that is updated by several processes |
| `AtomicUpdates`, `DataStore` | 6 | what a key-value store with locks promises; the store and its clients |
| `StatusReport` | 7 | statuses on their way to Core |
| `GenerateExpectations`, `PackageManager` | 8 | from packages to Expectations; when that is done anew |
| `AppContainer` | 9 | the processes of Workers, and requests for more |
| `WorkerAgent`, `PackageContainers`, `FolderMonitor`, `WorkersAndMonitors` | 10 | the jobs of a Worker; containers and who monitors them; a monitor of a folder |
| `FileWork` | 11 | the work on one Expectation, file by file |
| `Tools`, `HTMLRenderer`, `ToolUse` | 12 | what a work waits for |
| `MC*` | 13 | instances for TLC |
| `*_proofs` | 14 | theorems, checked by TLAPS |

## 1. The system

A *Package Manager* receives packages from Sofie Core and generates
*Expectations* ("a copy of this file shall be in that folder"). Its
*ExpectationManager* drives each Expectation through a life cycle by asking
*Workers* over websockets; a *Workforce* makes Workers and managers known to
each other and asks *AppContainers* to start and stop Worker processes. Every
process is a single-threaded Node.js program: code runs to its next `await`, and
anything may happen in between. All remote calls can be rejected, time out, or
be answered when their caller no longer expects it.

| Component | State | Operations | Talks to | What is hard |
|---|---|---|---|---|
| **PackageManager** (`PM/packageManager.ts`) | data of Core, settings, external data, findings of monitors; a timer | changes of each; generate everything anew | Core, ExpectationManager | data from several sources, looked up in each other at different times |
| **generateExpectations** (`PM/generateExpectations`) | none | pure mapping from packages to Expectations | — | merging Expectations of several packages with one id; side effects that depend on each other |
| **PackageManager status reporting** (`PM/packageManager.ts`, `PM/coreHandler.ts`) | last reported statuses per Expectation, package and container; queue of changes | report, retry, clean up | Core | changes made while a report is being sent |
| **ExpectationTracker** (`EM/expectationTracker`) | received Expectations, restarts, aborts and dirty flags; a tracked object per Expectation; works in progress; cached sorted lists | set / restart / abort, worker events, status updates | its owner (calls and status callbacks), Workers (events) | received data is pulled in at one point of a run, events come at any point; objects are replaced while works refer to them |
| **EvaluationRunner** (`EM/evaluationRunner`) | the session (errors, removals), the parallel state being handled, the calls being awaited | one run: pull in, check works, evaluate in parallel by state, then READY ones serially | Workers (queries, start and cancel of work) | everything it read before an await may be stale after it |
| **EvaluationScheduler** (`EM/expectationTracker/lib/evaluationScheduler.ts`) | running flag, "run next asap" flag, timer | trigger, run, reschedule | EvaluationRunner | a trigger during a run |
| **Package containers** (`EM/evaluationRunner`, `EM/expectationTracker/lib/trackedPackageContainerAPI.ts`) | tracked containers with the current worker and whether monitors are set up | receive, remove, find a worker, set up and stop monitors, run cronjobs | Workers | a worker that leaves with the monitors it holds; calls that are answered too late |
| **WorkerScaler** (`EM/expectationTracker/lib/workerScaler.ts`) | what has been waiting for a worker, and since when | request resources | Workforce | requests are limited per run |
| **WorkerAgent** (`W/workerAgent.ts`) | current jobs with cost and cancel, wip counter, monitors, connections to managers | create job, work, cancel, progress / done / error events, idle spin-down, error checks | ExpectationManager, Workforce, AppContainer, DataStore | a job cancelled while it ends; events are sent once; spin-down races new work |
| **Expectation handlers** (`W/worker/workers/genericWorker/expectationHandlers`) | none between calls | query support, readiness, fulfilment; work; remove | accessor handlers, tools | target is changed in several steps that can fail in between |
| **Tools of the Worker** (`.../expectationHandlers/lib`, `W/worker/workers/genericWorker/lib`) | a child process or a remote job, a promise | start, read output, cancel | ffprobe, ffmpeg, robocopy, Quantel Fileflow | cancel, errors and exit in any order |
| **HTML renderer** (`apps/html-renderer`, `.../renderHTML.ts`) | the step that is executed, on both sides of a websocket | commands and replies, recording | each other | either side may be gone, silent or late |
| **Accessor handlers** (`W/worker/accessorHandlers`) | files, metadata, temporary files, files to be removed later | read, write, put metadata, remove, monitor | file systems, HTTP, Quantel, Core | several processes change the same JSON file; a deferred removal races a new write |
| **FileWatcher** (`W/worker/accessorHandlers/lib`) | timers per file, seen files, a report under way | list, subscribe, wait until a file is stable, report | the file system, ExpectationManager | files that change while they are read or reported |
| **JSON files** (`W/worker/accessorHandlers/lib/json-write-file.ts`) | a batch of updates per file; a lock file | update, read | other processes | dead and slow holders of the lock |
| **DataStore** (`shared/packages/api/src/dataStorage.ts`) | values with write lock and waiting reads and writes | get write lock, write, read, release, release by tag | Workers (through the manager's connection) | lock time-out while the holder is still at work; the holder disconnects |
| **AppContainer** (`apps/appcontainer-node`) | running apps with process, start time, use and restart counts | request an app type for an Expectation, spin up / down, restart crashed, monitor, minimum apps | Workers, Workforce | check-then-spin-up over awaits; restart timer of an app that was spun down |
| **Workforce** (`shared/packages/workforce`) | connected workers, managers and containers, their statuses | register, announce managers, forward resource requests | all | a connection that is replaced before the old one is closed |
| **Connections** (`shared/packages/api/src/websocket*.ts`, `adapter*.ts`) | sockets, awaited replies, heartbeat | send and reply, reconnect | all | replies that time out, half-open sockets, reconnect within the grace time |

What makes each of them correct:

* *PackageManager*: the manager has been given what follows from the data of now; the
  Expectations fit together (dependencies exist and come earlier, one for each id).
* *Status reporting*: Core ends up with the last status of each thing, and with none
  for what is gone.
* *Tracker and runner*: no received change is lost; an Expectation that is WORKING has
  exactly one work, which is watched and can be cancelled; a work always ends;
  requests (restart, abort, remove) take effect; what is reported is the state;
  dependencies and triggers mean what the API says.
* *Scheduler*: never two runs at a time, and a trigger is always followed by a run that
  starts after it.
* *Package containers and FileWatcher*: what counts as monitored is, by one Worker, and can
  be stopped; Workers are found or asked for; the manager is told what is in a folder.
* *WorkerAgent*: a started job ends with exactly one event unless it is cancelled, and leaves
  the list even if its handler hangs; the Worker asks to be stopped only for a reason.
* *Handlers and accessors*: what counts as fulfilled is whole and current, a wanted package
  comes and an unwanted one goes, whatever fails or is cancelled at any step.
* *Tools, HTML renderer*: a promise resolves with whole results, always settles, and leaves
  no process.
* *JSON files*: no update of a metadata file is lost between processes.
* *DataStore*: at most one holder of a lock; a waiter is served or told of a time-out;
  the locks of a lost client are given back and those of others are kept.
* *AppContainer / Workforce*: a crashed app is restarted, the minimum is kept, an app that is
  needed is not stopped; every request is answered; every manager is known to every worker.

## 2. Plan

A module is written with its MC module, run, mutants and hazards. The order is that of
importance.

1. **ExpectationTracker**, **EvaluationScheduler**, **ExpectationManager**: done, with their
   inductive invariants and proofs, and liveness.
2. **JsonFile**: done, with proofs. **DataStore** as an implementation of **AtomicUpdates**:
   done, refinement proved.
3. **StatusReport**: done, with proofs.
4. **FileWork**: the handlers and accessors over their files, with the deferred removal:
   done, with proofs of its safety.
5. **AppContainer**, with the requests of the Workforce: done, with proofs.
6. **WorkerAgent**, **PackageContainers**, **FolderMonitor**, composed: done, with proofs of
   the first two.
7. **GenerateExpectations**, **PackageManager**: done, with proofs.
8. **Tools**, **HTMLRenderer**, composed as **ToolUse**: done, with proofs.

Left: *Connections* and the registry of the *Workforce* (section 15); the jobs of
`WorkerAgent` in the place of the environment actions of `ExpectationTracker`
(`OnWipEventDone`, `WipEventLost`, ...). Every safety and action property of the runs is stated
by a theorem (section 14); liveness is not. Modules to be proved about declare no recursive
operator: what the code computes in loops is a recursive function.

## 3. ExpectationTracker

### State and actions

One module holds the tracker and the runner: they share the tracked objects, and
what can go wrong goes wrong between them. A step is the code between two
awaits.

| Variables | Code |
|---|---|
| `expectations`, `restart`, `abort`, `restartAll`, `updated`, `containersUpdated` | `TrackedReceivedUpdates` |
| `tracked` | `TrackedExpectationsStorage`: per Expectation the content, state, available workers, error (recent or not), failed removals, cancel function, whether it is to be checked at once |
| `worksInProgress` | `WorkInProgressTracker`, by worker and wip id. `object` says which TrackedExpectation the entry refers to: the tracked one, or a replaced one that is WORKING or not |
| `workerAgents`, `cancels` | registered workers; calls of `workInProgressCancel` without an answer |
| `pc`, `awaiting`, `phase`, `pending`, `starting`, `hadError`, `removeIds`, `runAgainASAP` | where `EvaluationRunner.run` is, what it awaits, and its session |
| `reported` | the last status passed to the owner's callback |

`StartRun`, `StartRunWithUpdates`, `CancelsDone`, `PackageContainersDone`,
`CheckWorksInProgress`, `EvaluateInParallel`, `NextPhase`, `EvaluateReady`,
`WorkStarted` / `WorkNotStarted` and `FinishRun` are the run;
`Owner` are the manager's methods; `Workers` are the events and answers of workers,
their coming, leaving and restarting; `Time` lets the error wait and the work
time-out expire. Each `evaluateExpectationState*` handler is an operator
(`EvaluateNew`, ..., `EvaluateAborted`) that chooses among the answers a worker
may give.

Abstractions, and why they are sound:

* *An Expectation's evaluation is one step*, although a handler awaits its worker. In
  a parallel phase the handlers of one state interleave, but a handler writes only its
  own object (listeners get `recheck`, which is not read in that phase), and the
  states its decision depends on, those of its dependencies, only change in handlers of
  other phases or in events. An event that arrives during such an await concerns a
  WORKING object, which is never the one that is evaluated. The start of a work is the
  exception that matters, since the worker acts before its answer is seen: it is two
  steps, `EvaluateReady` and `WorkStarted` / `WorkNotStarted`.
* *Contents* are a requirement, work options and a priority: what `diff` tells apart.
* *Times* are two flags per object (an error less than `ERROR_WAIT_TIME` ago; nothing heard
  for `WORK_TIMEOUT_TIME`) and `recheck` (`lastEvaluationTime = 0`); the periodic check of
  FULFILLED Expectations may happen in any run.
* *The order* in which Expectations of one state are evaluated is left open, so all results
  hold for any priority, skip count and `sort`.
* *A reason* that changes without the state may or may not be reported again.
* `resetWork` is called by tests only and is left out. Package containers appear as
  the awaits they cause in a run and the clearing of `restart` after them
  (`PackageContainersDone`).

`Inputs` names the inputs that occur in an instance: `restart`, `restartAll`,
`abort`, `workerGone`, `workerRestarts` (a worker process dies and a new one gets its id),
`cancelFails` (a cancel is rejected), `containers` (package containers are
updated), `skip` (a run is cut short, by `runAgainASAP` or a stopped pool). Setting
Expectations, connecting workers, every answer of a worker, lost events and
time-outs are always possible. Leaving an input out is how a run says what a
property depends on; section 13 says of each such exclusion what happens
without it.

### Properties

| Property | Meaning |
|---|---|
| `TypeOK` | types; that removals that fail end is part of it (`errorOnRemoveCount`) |
| `WorkingIsMonitored`, `OneWorkInProgress` | an Expectation that is WORKING has one work in progress, and only one: it can leave WORKING, and nobody else's event takes it out of it |
| `WorkingCanBeCancelled` | its cancel function is the one of that work |
| `TrackedIsUpToDate` | with no update waiting to be pulled in, no restart or abort waits either, and what is tracked is what was received last |
| `ReportedIsCurrent` | the status reported last is the state |
| `AbortedLeavesForAReason` | ABORTED is left by a request, or for want of a worker (action property) |
| `IInv` | the inductive invariant |
| `RestartsAreHandled` | a restart request only disappears by being carried out (action property); *violated* |
| `AbortedStaysAborted` | ABORTED is left by a request only (action property); *violated* |
| `AbortCancelsTheWork` | the work of an Expectation that is aborted is cancelled (action property); *violated* |

`TypeOK`, `AbortedLeavesForAReason` and `IInv` are proved for all constants and not among the
properties of a run; TLC evaluates the others. The last three are what comments of the code
promise, and the code does not keep: each has a run that shows how (section 13).

A deviation that is not a property: `dependsOnFulfilled` ("Won't start until ALL other
expectations are fulfilled") is looked at in WAITING only; a READY Expectation that waits
for a worker starts although a dependency has been restarted meanwhile. Comments and the
API promise two more things that the code does not keep. *REMOVED means it is no longer wanted*: one that is removed,
then added again unchanged before the removal is done, shows no difference, is removed and
dropped, and stays so until the next change. *Fulfilment triggers the listeners*: only when
the Expectation was found fulfilled already, not when its work ends.

## 4. ExpectationManager and EvaluationScheduler

`EvaluationScheduler` is the class of that name: `TriggerEvaluation(asap)` is its
method, `TimeoutFires` the callback of its timer up to the call of the runner,
`RunReturns(asap)` what its `then` and `catch` do. The timer is `scheduleTimeout`, set to
"asap" (1 ms) or "interval" (`EVALUATE_INTERVAL`).

`ExpectationManager` EXTENDS the tracker, instantiates the scheduler and says who calls
whom: `OwnerCalls` (a call may bring nothing new), `WorkerConnection` and `DoneEvent`
trigger an evaluation with what they change, other events do not; `RunBegins` is the timer
that starts a run of the tracker, `RunGoesOn` any later step of it, `RunFinishes` its end,
after which it still awaits the scaler, and `RunReturns` its answer, with
`runAgainASAP` (`result`) as the tracker computed it. `CancelRejected` is the case
that a run is rejected: a cancel it awaits fails. Every step of the composition is a
step of the tracker or leaves it alone, so its invariants hold here
(`TrackerIsImplemented`).

| Property | Meaning |
|---|---|
| `RunsDoNotOverlap` | a run is only begun when the last one has returned, be it rejected |
| `ReceivedIsRunAsap` | received updates have the short timer set, or are noted for the end of the run in progress |
| `EvaluationsAreScheduled` | both of these; what the run checks |
| `WorkEnds` | no Expectation stays WORKING for ever, crashed workers and lost events included |
| `UpdatesArePulledIn` | what is received is pulled in by a run, rejected runs included |

**Fairness** (`ManagerFairness`). Weak fairness of the timer and of the run's own steps:
each call that the run awaits is answered or rejected by the connection's time-out, so
each of its steps stays enabled until it is taken. Weak fairness of the answers of cancels
(same reason), of the end of each running job or the loss of its event (a job is a
process that ends or dies), and of the passing of the two waiting times. Nothing is
assumed of the owner, of workers connecting, or of any answer being a good one: a work may
be lost in every possible way and still ends, by the time-out alone. `Terminate` may
happen at any time and excuses both liveness properties.

## 5. JsonFile

`updateJSONFileBatch` collects the callbacks of a process in a batch, which
`updateJSONFile` applies to the file under a lock file (`proper-lockfile`), writing a
temporary file that it renames. `StartBatch`, `JoinBatch` and `JoinFailedBatch` are the
three things that can happen to a call; the first update of a batch names the batch.
`pc[b]` is the await that `updateJSONFile` is at: `locking` (`FileIsMissing`,
`FileIsLocked`, `Lock`, `OtherError`), `creating` the missing file, `reading` it
(`Manipulate` applies the callbacks and closes the batch), `writing` the temporary file,
`renaming` it, `releasing` the lock (`WriteError` after a failure); `TryAgain` is the next
round of its loop, and `Ends` its return, or throw, which settles the calls of the batch.

* The *content* of the file is the set of updates that are in it. Callbacks that
  remove entries, or the file, are not distinguished: what matters is whether an update was
  applied to the content that is replaced.
* The *lock file* becomes `stale` when it has not been renewed in time, because its process
  is dead or busy; it may then be taken by others, and its owner's `onCompromised` is
  called some time later (`Compromised`). Releasing removes it, whoever made it; a
  process that has lost its lock to another batch of its own gets ERELEASED.
* *Reading and applying* the callbacks is one step: whoever has the lock is the only one to
  write meanwhile, or else the lock was stolen or the file created again, which
  `interference` records.
* *Reading* may fail although the file is intact (`readIfExists` throws any error but ENOENT).
  `readJSONFile` takes that for a corrupt file, and uses the temporary file or nothing:
  `ReadJSONFile` is the set of what may come of it, and `interference` records a `misread`.
* *Releasing* may fail (`ReleaseFails`): the calls of the batch are rejected with that error and
  the lock file stays, `unreleased`, until it is stale: the library no longer renews it.
* A *crash* loses what the process has in memory; files and the lock remain. Writes to
  disk are taken to be in order and durable.

| Property | Meaning |
|---|---|
| `ResolvedIsInTheFile` | an update of which the promise has resolved is, and stays, in the file, unless the lock of a live process was stolen, the file was created twice, or an intact file could not be read |
| `FileIsReadable` | death and errors during a write never leave a half-written file (unless stolen) |
| `OneWriter` | one batch at a time between reading and releasing (unless stolen) |
| `LockIsGivenBack` | a lock file is stale, its batch still needs it or is dead, or it could not be removed; this holds with thefts too |
| `EveryCallEnds` | every call is answered unless its process dies (liveness) |
| `JsonFileInv` | the inductive invariant |

`OneWriter` and `JsonFileInv` are proved, and not among the properties of the run. Three
deviations: an error of reading an intact file makes the batch replace it by one without the
updates it held, though the comment there says "file data is corrupt" (`json-write-file.ts:82`); a process that found the file missing truncates it, without a lock, after
another one has written it ("several processes can write without corrupting the file");
and a batch that could not lock the file (10 attempts take a second, a dead process's
lock takes 10 seconds to become stale) stays in the map: all later updates of that process
are rejected with it.

**Fairness**: the operating system answers each call and the timer between two attempts
fires: weak fairness of `Step(b)` for each batch. The number of attempts is bounded by the
code, so no fairness of the lock is needed, and none is assumed of a stale lock being
noticed.

## 6. DataStore

An AppContainer keeps data for its workers. `getWriteLock` and `read` queue a claim per
key (`WaitForAccess`); a timer (`HandleClaims`) resolves the first claim of each key that
is not locked, or rejects it when it has expired, and what the caller then does runs
before anything else: an update gets a lock and the current value, a read the value. The
worker writes (`Write`), or fails and releases the lock (`CallbackFails`, `WriteRefused`,
`ReleaseLock`), or is never heard of again (`Abandon`). `CloseConnection` releases by
tag. Locks (`LockExpires`) and claims (`ClaimExpires`) have a time to live; how long it is,
and how long the timer waits, is left open. A lock is named by the request that has
it: `lockI` only starts anew after 2^53 locks. A worker's `Abandon` covers its
death, a lost answer and a release that does not arrive.

The abstract specification `AtomicUpdates` has no locks: a request is given the
current value, and an update commits only if that is still the value. `NoUpdateIsLost` says
that the store implements it, with what a request was given as `basis` and its state as
`phase`. `StoreInv` is the inductive invariant: the queues hold the waiting requests, each
once, a holder has been answered, and whoever holds a lock, even an expired one, has seen
the current value, which is why a write under it can be let through and why a replaced
holder must be refused.

`EveryClaimIsAnswered` (liveness) needs the timer and the passing of a lock's time, and
nothing of the lock's holder nor of the claims' own time-outs.

`DataStore` names its parts apart from those of other modules (`InitStore`, `NextStore`,
`StoreTypeOK`), as its theorems and its run are those of `AppContainer`, too, the process that
keeps it.
`StoreInv` is proved, and not among the properties of the run. A deviation: all locks of a
client that disconnects should be released, but the tag is that of the client which created
the entry; the lock of another holder stays until it expires, and the creator's
disconnection releases somebody else's lock (whose write is then refused).

## 7. StatusReport

`toReport` holds the last report of each key and whether it has been sent, `reported` what
Core is thought to have; `batch` is the kind of statuses that is being sent and what has
been reported anew meanwhile (the comparison of hashes), `calls` are the calls that Core
has not answered, in order. `report*Status` are the callbacks of the ExpectationManager,
`SendUpdatedStatuses` the timer, `UpdateSucceeds`, `PackageNotFound` and `UpdateFails` the
answers to a batch with all the code that runs until the next call, `SetStatusAnswered`
that of the device's status, `CleaningStep` the removal of what an earlier life of the
Package Manager had reported, `Connect` and `Disconnect` the connection to Core. Hashes,
which are only compared, and the delays of timers are abstracted; a status has two values.
The parts of the module are named apart from those of `PackageManager` (`InitReport`,
`NextReport`, `ReportTypeOK`), with which it shares a run.

| Property | Meaning |
|---|---|
| `CoreIsCurrent` | what counts as sent is what Core has |
| `NothingIsForgotten` | while there is something to send, a send is scheduled or under way and will reach it |
| `DeviceIsCurrent` | the device's status in Core follows from the latest ones |
| `StatusesInv` | these two, the types, and that no call is made while another of its kind is under way (but the device's status, which may be set again) |
| `IInv` | the inductive invariant |
| `ScheduledIsSent` | what is scheduled is sent (liveness) |

Each names what it excuses, and so what the code does not do: a failed send is not tried
again until the next report or connection; an error "ExpectedPackages not found" counts for
the whole batch as sent; the hash of the device's status is stored before the call and
not reset when it fails; an entry deleted before it was sent stays in `toReport`. Reports
that come before Core has been cleaned (`EarlyReports`) break `CoreIsCurrent`: the map that is
forgotten is not that of the kind that is removed next.

**Fairness**: Core answers, the connection comes back, the timer fires. A steady stream of
reports restarts the timer each time, so the timer is weakly fair only because reports are
bounded.

## 8. GenerateExpectations and PackageManager

`GenerateExpectations` is a pure translation: each `generate*` of `expectations-lib.ts` gives
a record with the id (what is hashed), type, priority, places, dependencies and what
decides about merging (the version of the package among them); `getExpectations` adds those of all packages, merges those with the
same id, copies to the temporary storage first, adds the side effects (scans, thumbnails,
previews, loudness, iframes) and sorts. Labels and options are left out, and a content is what
its file is called; one without a name, for which the code makes no Expectation, does not
occur. For a Smartbull clip the content and the version are those of the file that was found;
its sources stay. A loop that
picks or sorts is an order of places (`Within`, `ByPriority`), and the loop over
the packages a recursive function (`AddedExpectations`), so that both can be proved about.

`PackageManager` has the sources of data as variables, an action for each kind of change
(`CoreChanges`, `onSettingsChanged`, `setExternalData`, `onReportMonitoredPackages`), and
`UpdateExpectedPackages`, the timer of 300 ms that generates everything anew. `given` is what
the manager was given last, at first nothing. A source reports up to `MaxPackages` packages
at a time; none is a report, too.

| Property | Meaning |
|---|---|
| `GivenIsCurrent` | with no timer running, the manager has been given what follows from the data of now: every source schedules the update |
| `DependenciesAreGenerated`, `DependentsComeLater` | no Expectation waits for one that does not exist, or is more urgent than one it waits for |
| `SideEffectsOnce` | a package has each side effect once, wherever it is copied to |
| `PackageManagerInv` | these three and the types |
| `EveryPackageIsExpected` | with no timer running, every package that has an accessor and is not left to the Smartbull, and every file found for a Smartbull clip, has its Expectation, as urgent as the package, or another content has the same place |

Deviations: packages that are merged keep the `sideEffect` and `external` of the first; the
id of an HTML rendering depends on its targets and its version, not on which template is
rendered; `FileVerify` and `FileCopy`
to one place share an id; what a monitor has found stays when the monitor ends, and is looked up among
the containers of the last update, not again when they change.

## 9. AppContainer

`apps` is the map of running apps, with what the code compares times with: an app is
`silent`, `aged`, or `sick` (its Worker has seen too many periods with failures). An
app is started (`_spinUp`), exits (`ProcessExit`), is restarted by a timer (`Restart`, or
`StrayRestart` when the app is gone: its process becomes one of the `orphans`), connects, is
pinged. `monitorApps` is the interval that stops what is to be stopped and starts what is
missing; `requestSpinDown` and `requestSpinDownForced` come from the Worker. A request
goes from the Workforce's `WorkerHandler` (`requestAppType`) over the apps that are asked
(`AppAnswers`, `AppDoesNotAnswer`), or started and waited for (`AppWaitedFor`), to
`spinUp`.

| Property | Meaning |
|---|---|
| `TypeOK` | types, and that a new app gets an id that no app ever had |
| `HealthyAppIsNeeded` | a working app is only stopped while enough others of its type are left |
| `MinimumIsRestored` | in the end the minimum of connected Workers of each type runs, and of critical ones |
| `RequestsEnd` | every request is answered |

There is no property "never more than `maxRunningApps`": `spinUp`, `spinUpMinimumApps` and
the start of an app to ask it do not look at the limit. Further deviations: the restart timer
does not look whether its app is still there; a process that cannot be spawned is only
noticed when `maxAppKeepalive` has passed.

**Fairness**: the interval, the other timers, a started Worker connects, a closed
connection is noticed, a sick Worker says so; each step of a request (calls are answered or
time out).

## 10. WorkerAgent, PackageContainers, FolderMonitor

**WorkerAgent**: one Worker and its jobs. `createNewJobForExpectation` and
`makeWorkerWorkOnJobForExpecation` start a job; `onProgress`, `onDone`, `onWorkError` are the events
of its work and what is sent about them; `timeoutInterval` is the watch on each job,
`cancelWorkInProgress` and `removeJob` its end; `intervalCheck` and `intervalErrorCheck` make the
Worker ask to be stopped. Time passes in ticks of the watch (`Tick`).

**PackageContainers**: one PackageContainer in the runs of the ExpectationManager, and the
Workers it may be given to. A run goes through `step`: what was received
(`_updateReceivedData_TrackedPackageContainers`, `Removed`), `Evaluate`, `Reset` of an updated one, the
questions to all Workers (`Answer`, in any order, also after the round they belong to has
been given up), `SetUp`, the cronjob, and the WorkerScaler's request (`RequestResources`),
which some run may make or none.
Each call may fail before or after it had its effect, and a setup may go on after its caller
has given up (`LateSetUp`). On the Workers' side `entry` is the map from which monitors can be stopped
and `running` how many really run. Contents are two values of which Workers support one or
both; statuses of single monitors are left out.

**FolderMonitor**: `setupPackagesMonitor` with its `FileWatcher`, for one file that others
write and delete. What the `FileWatcher` sees of a file is what is there when it handles the
answer; reading the version for a report takes two steps (`FileIsRead`, `FileHasBeenRead`), as
events that come in between are what goes wrong. `waitsForStable` is the option to wait until
a file no longer changes (`StableTimer`; `StrayTimer` is one that was forgotten, not
stopped, when the file was deleted).

**WorkersAndMonitors** composes the three: they share Workers, but none reads the other's
state, so a behaviour is one of the three.

| Property | Meaning |
|---|---|
| `AsksForAReason` | a Worker asks to be stopped only when idle, or after a failure in each of the last periods |
| `NothingAfterTheEnd` | no event about a job after its end, or after it was cancelled |
| `JobsEnd` | a job without progress leaves the list (liveness) |
| `MonitorsCanBeStopped` | each monitor that runs is one that its Worker can stop, and belongs to the current worker |
| `GoodIsMonitored` | a container that is reported GOOD has its monitors, for what it is now |
| `MonitorsInv` | these two and the types |
| `AgentInv`, `ContainersInv` | the inductive invariants of the jobs and of the containers |
| `MonitorsAreSetUp`, `UnwantedContainerIsRemoved` | liveness of a container |
| `FolderIsReported` | in the end the manager is told what is in the folder |
| `MonitorsWork` | these three |

What these excuse is recorded by `astray`, `givenUp` and `excused`, and is what the code
does otherwise than its comments say:

* *"If the packageContainer was newly updated, reset and set up again"*: `monitorIsSetup` is
  never reset. After an update, or when the Worker is gone, monitors are not set up again
  (`givenUp`).
* A setup that is repeated after a lost reply overwrites the entry of the first watcher, which
  can then never be stopped; one whose caller has timed out may finish after the removal; the
  monitors of a Worker that lost its connection keep running and reporting (`astray`).
* An answer of `doYouSupportPackageContainer` that comes after its round was given up is about
  the content of then: it gives the container to a Worker that may not support the new one,
  and the setup fails for ever.
* A supporting Worker that answers after another has refused makes the run end with BAD.
* A removed container without a connected current worker is never removed nor reported as
  gone; a failing disposal is only tried again at the next update of containers, and an
  evaluation in between may report GOOD.
* `_restartPackageContainers` is never cleared (`clearRestartExpectations` is called in its place,
  which drops restarts of Expectations): a second restart of a container is ignored, and every
  later update restarts it.
* A folder: an update or deletion that comes while the version is being read is overwritten
  by it; a failed report is not repeated until the next change; changes between listing and
  subscribing are missed; the watcher's BAD status is never taken back (`excused`).
* A job that times out while its work is being started runs on.
* A container without a Worker may wait for ever: the WorkerScaler spends `SCALE_UP_COUNT`
  (1 by default) on waiting Expectations first, in every run, so that as long as any waits no
  Worker is asked for on behalf of a container. Nothing is claimed of such a container:
  `MonitorsAreSetUp` is about one that a connected Worker supports.

**Fairness**: runs go on and the calls of a run end (weak); nothing is assumed of requests
for resources; ticks of the watch; events and timers of the folder are handled.
Nothing is assumed of works, Workers or their answers.

## 11. FileWork

The work of one Expectation: each handler is the sequence of what it awaits, `todo` what is left
of it, and `Step` takes one, changing the target (`After`) as its accessor does. An accessor is what tells
it apart for this: where streams write, whether there is a temporary file that is renamed,
what aborting does, whether anything can be removed. `target` is the package's file,
temporary file, metadata and its entry in the list of removals. A content is the version
of the source, torn, or mixed from two. `Cancel` and `Undo` are what each handler's
cancellation does, at each step it may come; `Fails` and `Throws` the errors, after which the
work ends. An error of a write stream is another thing (`WriteFails`): the manager is told of
it, but the stream closes, and the handler of "close" goes on with `finalizePackage` and
`updateMetadata`, as after a complete copy. The manager
asks whether it is fulfilled (`FoundFulfilled`, `FoundUnfulfilled`), starts works, cancels, and removes
(`removeExpectation`, `RemoveStep`, and `IsRemoved` or `RemoveThrows`); `ListDue` to `ForgetDue`
are the cronjob's removal, which `DueThrows` ends. A removal of files passes over what it cannot
access (`Skips`): `unlinkIfExists` takes it for a file that does not exist. `Crash`,
`FileIsLost`, `Unreachable` and `SourceChanges` are the world.

| Property | Meaning |
|---|---|
| `FulfilledIsComplete` | what counts as fulfilled is a whole copy of the source as it is |
| `IInv` | the inductive invariant |
| `TemporaryFirst` | where the temporary file is used, the file in place is never a partial one |
| `FileWorkInv` | `TemporaryFirst` and the types |
| `WantedIsFulfilled` | a wanted package comes to be in place (liveness) |
| `UnwantedIsRemoved` | an unwanted one goes, with its metadata (liveness) |
| `FinalizedIsComplete` | what is finalized and counts as fulfilled is not half written; *violated* |

What the first five excuse is recorded, and is what the code does otherwise than it says:

* A work that is cancelled between its steps goes on (`overran`), and may write after the
  removal.
* A stream that fails closes (`finalized`): a torn file is put in place, with or without a
  temporary file, gets the metadata of the source, and counts as fulfilled. `finalizePackage` is
  "to be called after a .putPackageStream(), putPackageInfo() or other file operation (like a
  write or copy) has completed" (`genericHandle.ts:166`): the run `failed_copy_finalized`.
* A removal is answered, and an entry of the list dropped, while the file or its metadata are
  there and could only not be accessed (`unremoved`); nobody tries again.
  `removePackage` "removes the package from the PackageContainer (if the package exists)"
  (`genericHandle.ts:122`).
* An entry made for the list while the cronjob removes an earlier one is forgotten with it
  (`forgotten`).
* A file lost before its metadata, then partly copied again in place, counts as fulfilled
  (`left`; with a temporary file it does not).
* Streams to a FileShare, and ffmpeg as `spawnFFMpeg` runs it, write to the file in place, whatever
  `useTemporaryFilePath` is (`IgnoresTemporary`). Then `finalizePackage` removes what they have
  written and waits for a temporary file that is not there: each work fails, and the package never
  comes. "When set, will work on a temporary package first, then move the package to the right
  place", says `expectationApi.ts:526`. `TemporaryFirst` and `WantedIsFulfilled` say nothing of
  these; `FulfilledIsComplete` and `UnwantedIsRemoved` hold for them, and the run has both kinds.

Not expressible here: found fulfilled without `clearPackageRemoval` when wanted again
(`localFolder.ts:374`), then removed when due; a preview of a file without a video
stream is done but never fulfilled; `updateProgress` of a Quantel copy never stops when
copying fails. Assumed: the delay of a removal is longer than a run of the cronjob, than a
removal, and than the time from the start of a work to its first change of the target.

**Fairness**: the steps of a work, the manager's evaluation, the cronjob, and the target
becoming reachable again.

## 12. Tools, HTMLRenderer, ToolUse

**Tools**: a promise around a process. Each tool is what tells it apart: whether something
is awaited before there is a process, whether its output must have been read, what its
cancellation does. A loudness scan is a sequence of calls, a deep scan has a timer that
starts a second one. Input, output, exit, close, errors, `cancel` and kill come in every
order the event loop allows. `listens` says whether the end of the process is listened to: an
ffmpeg of which the output is uploaded runs while `putPackageStream` is awaited, is listened to
afterwards (`putPackageStream`; `late` if it has ended by then), or never, if the upload is refused.

**HTMLRenderer**: the Worker's side executes the steps one by one, each a command with a time-out
of 10 seconds; the process loads the page, records, and replies. stdout, the two directions
of the websocket and the exit code are channels with delays of their own.

**ToolUse** composes the two (a behaviour is one of them).

| Property | Meaning |
|---|---|
| `ResolvedIsWhole` | a promise resolves only when all that it promises is there |
| `ToolsInv` | the inductive invariant of the tools |
| `RendererInv` | the inductive invariant of a rendering |
| `LeavesNothingRunning` | a settled promise leaves no process behind |
| `NothingStartsAfterCancel` | after `cancel()` no process is started |
| `RendersInOrder` | commands are executed in order, none twice, and all of them when it is done |
| `EveryPromiseSettles`, `EveryRenderingSettles`, `NoProcessIsLeft` | liveness |
| `ToolUseInv`, `EverythingEnds` | what the run checks: `RendersInOrder` and the types; the other four of the last lines |

Excused by the properties, each as a case of its own, and so deviations:

* `IsLeftBehind`: an ffmpeg whose upload is refused keeps running; so does a Fileflow job when a
  request about it fails, for which the promise is rejected, when the answer to the request that made
  it is lost, or when its cancellation fails; the deep scan's second try cannot be cancelled, and its
  timer starts it for a cancelled scan as well.
* `EndIsMissed`: an ffmpeg that ends while its upload is awaited may never be heard of again, so that
  the promise stays pending; or its output, as far as it is lost, is missing from what is uploaded. An
  output of ffprobe that is no JSON makes the callback throw, and nothing settles either.
* A loudness scan goes on with its next channel; scans that resolve on `exit` may not have read all
  output; a cancelled robocopy resolves; a rendering that is cancelled leaves its promise pending.
* A reply that comes after its time-out continues the steps; `waitForLoad` hangs on the process's
  side when the failure to load is reported late.

**Fairness**: the event loop; a child process that is not killed comes to an end; the
html-renderer executes its commands, except those that never end.

## 13. Runs

Eight runs pass. The properties of a module are in the table of its section.

| Run | Inputs | Shows |
|---|---|---|
| `faults` (`ET_Faults.cfg`) | all but `restartAll`; contents that differ in the requirement | works are monitored and single, and nothing received is lost, when the owner asks for anything at any point of a run, events are lost, workers leave or crash, and cancels are rejected and answered late |
| `dependencies` (`ET_Dependencies.cfg`) | restartAll; e2 depends on and is triggered by e1 | reports and cancel functions with two Expectations that share a worker and its wip ids |
| `scheduled` (`EM_Scheduled.cfg`, `FairManagerSpec`) | workerRestarts, cancelFails, containers; contents that differ in the requirement | runs do not overlap, updates are prompt, works end and updates are pulled in, crashes and rejected runs included |

| Run | Instance | Shows |
|---|---|---|
| `json_file` (`JsonFile.cfg`) | two updates by one process, one by another, two attempts | no acknowledged update is lost, the file stays readable, the lock comes free, calls end |
| `package_manager` (`PackageManager.cfg`) | *PackageManager*: up to two of nine packages of all kinds, with a temporary storage, a source monitor and a Smartbull storage; then one change, of up to two packages found. *StatusReport*: one key of each kind, two values, three reports, at most two calls under way, all faults | the manager's data is current, and the Expectations fit together; Core is current, nothing is forgotten, what is scheduled is sent |
| `app_container` (`AppContainer.cfg`) | *AppContainer*: two types, one of them critical, a minimum of 1, at most 4 apps, 7 ids, one thing that goes wrong, one request. *DataStore*: two updates and a read of one key by two clients | the minimum is restored, apps that are needed stay, requests end; the store implements atomic updates, claims are answered |
| `worker` (`Worker.cfg`) | *WorkersAndMonitors*: one job with a time-out of 2 ticks; two Workers and two contents with 2 updates and 2 mishaps; a file with up to 3 versions and one error. *ToolUse*: up to 3 channels and 2 failures; 6 sequences of steps and 3 upsets | sections 10 and 12 |
| `file_work` (`FileWork.cfg`) | 21 Expectations of all handlers and kinds of target; two works, two versions, two upsets | section 11 |

`MCPackageManager`, `MCAppContainer` and `MCWorker` stand for a process that does two things which do
not read each other's state. Interleaving them shows nothing, so a behaviour is one of the two: the
initial state decides which, and the other one rests.

Four runs show that the code does not keep what a comment of it says. Each checks one property, on
the smallest instance that will do, and TLC must find it violated:

| Run | Property | What the code does |
|---|---|---|
| `dropped_restart` | `RestartsAreHandled` | a restart that arrives while the package containers are updated is cleared with the handled ones (`evaluationRunner.ts:539`) |
| `left_aborted` | `AbortedStaysAborted` | an aborted Expectation whose workers have left becomes NEW, and is worked on again (`trackedExpectationAPI.ts:166`) |
| `late_cancel` | `AbortCancelsTheWork` | a run that awaits two cancels ends when one of them is rejected; the other one, answered after a new work has begun, deletes that work's cancel function, so that a later abort does not stop it (`ready.ts:48`). `CalmSpec` leaves out what is not needed for this |
| `failed_copy_finalized` | `FinalizedIsComplete` | what a failed stream has written is finalized (`file.ts:312`) |

*ExpectationTracker.* Instances have one or two Expectations and one worker with two wip ids.
One Expectation and two wip ids are enough for the races of a work with its
successor (a work and the cancelled or timed-out one before it); two Expectations on
one worker with two wip ids are enough for one to be given the id, the worker or the
phase of another. A content may change into one other and back; a major update
twice in a row shows no more than a work and its replacement. `FAILED_REMOVE_COUNT`
is 1 or 0 instead of 10, so that the limit is reached and crossed. `scheduled` has one
Expectation, so that no other one can take the entry of its work (see `worker crash`
below). `dependencies` has one content per Expectation, so no major updates.

*Files and stores.* Two processes are what a lock is for, two updates of one process share a batch or have
one each, and two attempts (instead of 10) are one that fails and one more. In
`MCJsonFile`, `OneTheft` bounds the run: once a live process has lost its lock no lock
becomes stale any more. Most properties say nothing after the first theft; `LockIsGivenBack` is proved without this bound.
The keys of the store are independent of each other, so one is enough; with three requests one can
hold an expired lock, one replace it and one wait behind; the tag is that of either client.

*The others.* One key of each status kind is enough for the order of kinds and for a key that is
reported anew while it is sent, as keys of one kind are only sent together; three reports are one that is sent, one
during that, and one after. Two packages are what merging is about. Two types of apps
are looked at one after the other; one fault is what the restart is for. Two of them, without requests
(`MaxFaults = 2`, `Requests = {}`), which is too many for the run, do not break
`MinimumIsRestored` either. Two Workers are one that supports a container and one that
does not; two mishaps are a lost call and a Worker that leaves meanwhile. Two works are one
and the one after it that may overlap; two upsets are a failure and a failure in its repair.

The runs from `json_file` on end when their bounds are reached (each request is made once,
reports, updates and faults are counted), and a real system without input rests as well:
deadlock is not checked there. It is checked in the three of the ExpectationManager.

Deviations that follow from `ExpectationTracker` when an input that a run excludes is
put back, or when two Expectations meet it; they are why it is excluded:

| Excluded | Violated | What happens |
|---|---|---|
| major updates in `dependencies` | `ReportedIsCurrent` | a major update replaces the object of a work that is about to end; the replaced object stays WORKING, and its done event is reported as FULFILLED |
| `cancelFails` in `dependencies` | `WorkingCanBeCancelled` | as in the run `late_cancel` |
| `workerRestarts` with two Expectations | `WorkingIsMonitored` | *worker crash*: the new process reuses wip ids; an upsert overwrites the entry of another Expectation's dead work, which stays WORKING for ever |

## 14. Proofs

For every value of the constants: any Expectations, contents, workers and wip ids; any
processes, updates, attempts, keys, clients and requests; any apps and limits; any number
of works, versions, failures and upsets, the bounds of the runs among them:

| Module | Theorem | |
|---|---|---|
| `ExpectationManager_proofs` | `Invariance` | `Spec => []IInv` |
| | `TypeCorrectness` | `Spec => []TypeOK` |
| | `OneWork` | `Spec => []OneWorkInProgress` |
| | `NothingReceivedIsLost` | `Spec => []TrackedIsUpToDate` |
| | `NoWorkWithoutMonitor` | `Spec => []WorkingIsMonitored`, if no worker restarts under its id |
| | `CancelsTheRightWork` | `Spec => []WorkingCanBeCancelled`, if moreover no cancel is rejected |
| | `ReportsAreCurrent` | `Spec /\ []NoMajorUpdate => []ReportedIsCurrent` |
| | `AbortedIsLeftForAReason` | `Spec => AbortedLeavesForAReason` |
| | `TrackerIsImplemented` | `ManagerSpec => Spec`: the above hold under the scheduler |
| | `OneRunAtATime`, `UpdatesRunAsap` | `ManagerSpec => []RunsDoNotOverlap`, `[]ReceivedIsRunAsap` |
| | `EvaluationsStayScheduled` | `ManagerSpec => []EvaluationsAreScheduled`, both of these |
| `JsonFile_proofs` | `JsonFileInvariance` | `Spec => []JsonFileInv` |
| | `UpdatesAreKept`, `FileStaysReadable`, `WritersAreAlone`, `LocksAreGivenBack` | `ResolvedIsInTheFile`, `FileIsReadable`, `OneWriter`, `LockIsGivenBack` |
| `StatusReport_proofs` | `StatusesAgree` | `ReportSpec => []IInv` |
| | `NoReportIsForgotten` | `ReportSpec => []StatusesInv` |
| | `CoreHasTheReports` | `ReportSpec => []CoreIsCurrent`, if nothing is reported before Core has been cleaned (`~EarlyReports`) |
| `AppContainer_proofs` | `IdsAreNew` | `Spec => []TypeOK` |
| | `NeededAppsStay` | `Spec => HealthyAppIsNeeded` |
| | `StoreInvariance` | `StoreSpec => []StoreInv`, of `DataStore` |
| | `UpdatesAreAtomic` | `StoreSpec => NoUpdateIsLost`, the refinement of `AtomicUpdates` |
| `PackageManager_proofs` | `GivenFitsTogether` | `Spec => []PackageManagerInv` |
| | `ExpectationsAreCurrent` | `Spec => []GivenIsCurrent` |
| | `NoPackageIsForgotten` | `Spec => []EveryPackageIsExpected` |
| `WorkersAndMonitors_proofs` | `MonitorsAreKnown` | `Spec => []MonitorsInv` |
| | `AskingHasAReason`, `TheEndIsTheEnd` | `Spec => AsksForAReason`, `Spec => NothingAfterTheEnd` |
| `FileWork_proofs` | `FulfilledIsWhole` | `Spec => []FulfilledIsComplete` |
| | `NeverTornInPlace` | `Spec => []FileWorkInv` |
| `ToolUse_proofs` | `PromisesAreKept`, `NoProcessIsForgotten` | `ToolUseSpec => []ResolvedIsWhole`, `[]LeavesNothingRunning` |
| | `CancelledStaysCancelled` | `ToolUseSpec => NothingStartsAfterCancel` |
| | `CommandsAreInOrder` | `ToolUseSpec => []ToolUseInv`, that is `RendersInOrder` and the types |

The assumptions on constants are of four kinds. *Types*: `ConstantsAssumption`,
`DataStoreAssumption`, `AppsAssumption`, `ToolsAssumption`, `FolderAssumption`,
`WorksAssumption`, `MaxUpsetsAssumption`, `VersionsAssumption`, `ContainersAssumption`,
`DataAssumption`, `PackagesAssumption` (moreover, that a package names at most one container for its
thumbnail and one for its preview, as its fields are). *That `None`, `Corrupt`
and the like are none of the values they stand beside*: `NoneAssumption`,
`NullAssumption`, `ContainersAssumption`. *That keys of different kinds differ*: `KeysAssumption`. *What the
configuration and the handlers guarantee*: a job times out no later than a Worker spins down
and the limit on failed periods is not zero (`TimesAssumption`); a handler has Core as its
target exactly when it checks that it is Core, and a clip is copied to Quantel
(`ExpectationsAssumption`).

The hypotheses of single theorems name what the code does not keep otherwise; the last table of
section 13, and section 7, say what happens then.

### ExpectationTracker

None of the properties is inductive. *One work*: a new work begins for a READY
Expectation, so one must know that a READY Expectation has no leftover entry. It may have
one before the run (a time-out or cancel leaves it), but `checkWorksInProgress` has
dropped those, and nothing that happens during the evaluation leaves another:
`WipsAreWorking`. For this the run's place must be known to say something about
the objects it works on (`PendingIsInPhase`), in particular that an Expectation being
evaluated is not WORKING. *Monitored*: the entry of a WORKING Expectation could be
overwritten by another with its wip id; `NoWorkIsLost` says that only a dead process's
ids are given again. *Cancel*: a cancel that is answered deletes the cancel function; it
must not be that of a later work. When no cancel fails a run awaits all it has
called, so that none is left when works are started: `CancelsAreAwaited`. *Types*:
`errorOnRemoveCount` is bounded because an Expectation that crosses the limit is in
`removeIds`, is not evaluated again in the run and is dropped at its end:
`RemovalsAreOver`. `WipsAreTracked` and `AwaitsBeforeEvaluating` support these.

*Reports* (`ReportsInv`): every work must refer to the tracked object itself, as one of an
object that has been replaced would report for it; only a major update replaces an object,
hence `NoMajorUpdate`. And what is about to be dropped must not be reported again. *What was
received* (`TrackedIsUpToDate`) is a part of `IInv`: whatever comes in sets `updated`
(`ReceivingKeepsIInv` is about that, and about steps after which nothing more waits, `NothingReceived`),
and the one step that resets it takes all there is (`ReceivedObject`). *Aborted*: a work that
ends or a READY Expectation that is evaluated is not the ABORTED one, by the parts of `IInv`
above; what an evaluation makes of an ABORTED one is in `AbortedEvaluated`.

### ExpectationManager

`ManagerInv` adds the scheduler's own invariant: no timer is set during a run, and a
trigger that has not been served has the short timer set when no run is in progress. An
update comes with a trigger; a run that is not the one that pulls it in began before it and
still knows of the trigger when it returns.

### JsonFile

The lock is worth something because a batch between reading and releasing has it, unless
it was stolen (`WriterHasTheLock`), and so is alone. Then what it has read is what it replaces:
its new value contains the file's content and its callbacks from the moment of reading on
(`NothingIsForgotten`), the temporary file is whole when it is renamed (`TmpIsWhole`), and
after the renaming the callbacks are in the file when the calls are resolved. A batch must
be closed by then (`OpenBatchIsUnread`), or a late call would be resolved with it. For
`LockIsGivenBack` a batch that believes to have lost its lock, and so does not release it,
must be right: `CompromisedForAReason`, which the reset of the flag at each attempt ensures.

### DataStore

`HolderIsUpToDate` is the core: the value changes only by a write of the holder, which also
releases the lock. For it to be inductive a holder must have been answered, and claims must
be those of waiting requests, once each, so that no request is given a lock twice. A step of
the store then is an `Answer` (several keys may be served in one `HandleClaims`), a
`Commit`, or a stutter.

### StatusReport

A report may come at any of the awaits of a run. `BatchIsOfEntries`: what is being sent is
what is to be sent, or the run will be repeated; `NothingIsSkipped`: whatever
waits is in the batch, of a kind the run still comes to, or left to the next run. For
`CoreIsCurrent` the calls must be known to be answered in order (`OneCallEach`), Core to be
cleaned kind by kind before anything is reported (`CleanBeforeReports`), and a change to be
relative to what Core has (`CoreIsAsReported`). The status of the device is set by
calls that may overlap; the last of them counts (`DeviceCallsAreInOrder`).

### AppContainer

`TypeOK` says that no id is given twice; to be inductive it needs only that a request is about
a type that there is (`RequestsAreOfAType`). Several apps may be started in one step, with
consecutive ids, so what is needed is how the new map relates to the counter (`WithType`).
The apps to start are a sequence put together from one for each type. That `FlattenSeq` returns
one (`FlattenSeqType`) rests on the function it computes with, which exists for every length
as there is no smallest length for which it does not. `HealthyAppIsNeeded` is then proved step by
step: an app that asks to be stopped is counted before it is removed, and what the monitor
stops is silent or too old.

### PackageManager

`GivenIsCurrent` is inductive: every change of data sets the timer. The rest is about what
`Generated` is, for any packages with priorities (`IsPackage`). `Within` and `ByPriority` return
what they are given, all of it and once, as the number of elements before one is its
place (`InOrderIsABijection`). *Adding*: `addExpectation` keeps one Expectation for each id, none of
them becomes less urgent or loses a package it is from, and the added one is expected
afterwards (`AddExpectation`); so after the loop all of them are (`AllAreAdded`), for there is no
smallest number of candidates after which it were otherwise. *Side effects*: what is
generated because of one Expectation begins with its id and differs in the suffix, is no more
urgent, and depends on it or on its copy in the temporary storage, which is generated
whenever something depends on it (`DerivedType`); an Expectation has each type of side effect
once (`EffectsAreOnce`); of the Expectations with a package in common only the first has side
effects (`GroupedAreApart`). Together these make `FitTogether`, which with the types is the
inductive invariant. And no side effect takes the place of a basic Expectation, so what was
added is given (`EveryPackageIsExpected`).

### WorkersAndMonitors

A step of one of the three components leaves the variables of the others alone, so each has
its invariant. *Jobs* (`AgentInv`): the manager is told of an end only when the job has ended,
and every current job is watched (`JobsAreWatched`), which with `TimesAssumption` means that a
Worker that is idle for long has none; the counter of failed periods stands for as many
at the end of the list (`PeriodsAreCounted`). *Containers* (`ContainersInv`): an evaluation
is of a tracked container and what it calls is the current worker (`EvaluationIsOfTracked`),
monitors that count as set up are those of that worker for the content of now, unless
they are among the exceptions that `astray` and `givenUp` record (`SetUpIsMonitored`), and
GOOD is only set when they count as set up (`GoodIsSetUp`). *Folder*: its types.

### FileWork

A package is torn or old at many points of a work; that it then does not count as fulfilled has to
do with the order of steps of each handler. `WorksGoOn`: what is left of a work is a rest of
its handler's plan. `CopiesAreOfTheirVersion`: what a work has read is at least as new as the
version it will write to the metadata, and that at least as new as what is there; if the
source still has that version, so has the copy. `WorksOnTheUnfulfilled`: a work that writes in
place does so while the metadata are not those of the source. `LostIsKnown` and
`MetadataGoesFirst`: a file that is not there has no metadata that say it is current, as
a removal takes them first, but for files that are lost (`left`). `NothingTornInPlace`: renaming
moves what is whole. All but the structure only hold while no work goes on after its
cancellation or after its stream has failed (`WentOn`): both are in the code, and the second is
the finding `failed_copy_finalized`. A removal that passes over what it cannot access changes the
package in nothing but `left` (`PassedOver`, `DoesFacts`).

The proof does not go through the 16 handlers for each kind of step: `PlanFacts` states what
their plans have in common (nothing is renamed or noted before it is copied, a version is
noted first, ...), `Effect` what a step of each kind does to the package, and `RightAfterStep` puts the
two together, one case per kind of step. Steps that only take away (losses, removals,
failures, crashes) are covered by `LosesKeeps`.
When a stream fails its `close` handler finalizes what there is; from then on `WentOn` holds
and only the structure is claimed (`GoodAfterWriteFails`).

### Tools

`CallsAreWatched`: a process that runs is held by its call, and output that is whole is of one
that has ended. `SettledHasEnded`: a settled call has no process, unless it is one of those the code
leaves behind (`IsLeftBehind`: an ffmpeg whose upload was refused, a Fileflow job whose
cancellation was refused or whose status could not be asked for). `PromiseIsOfItsCall` relates the promise to the call that settles it,
which for a loudness scan is the last channel, and for a deep scan the first or the second
(`SecondTryIsOfDeepScan`). `CancelledHasAProcess`: who has cancelled knows of the process,
so it is not one that starts later.

### HTMLRenderer

`OneCommand` is the core: what the process has executed is what the steps taken so far ask for,
except for one command that is on its way to the process, being executed there, or lost with it;
so a reply is always one to the command that is waited for. A reply and the end of a pause both take
the next step, so there must not be both (`OnePause`), and no step may be taken before there
is a connection (`NoStepBeforeItListens`). A step that can not be executed ends the steps: what
was asked for does not include it (`Asked`). `NextIs` says what `doNextCommand` comes to from
any step. The commands of the first steps are computed by recursion (`CommandsUpTo`); that
there is such a function, and that its values are prefixes of one another, follows from
the smallest number of steps for which it were otherwise (`SmallestNumber`).

### Only model-checked

* Liveness under fairness, in all modules: out of the prover's reach. These are `WorkEnds`,
  `UpdatesArePulledIn`, `EveryCallEnds`, `EveryClaimIsAnswered`, `ScheduledIsSent`,
  `MinimumIsRestored`, `RequestsEnd`, `JobsEnd`, `MonitorsWork`, `WantedIsFulfilled`,
  `UnwantedIsRemoved` and `EverythingEnds` (of which `CancelledStaysCancelled` proves a part).
* What the models assume of the environment, and the bounds on it that the MC modules choose.

## 15. Not modelled

* **Connections** (`websocket*.ts`, `adapter*.ts`): in the modules a call may be rejected,
  answered late or never, and a connection may close, wherever the code allows for it; what
  reply handling, heartbeats and reconnection do inside is left out. Known from reading: an
  entry of the managers' and Workforce's maps is removed by id when an *old* connection
  closes, also when the client has reconnected meanwhile (`workforce.ts:99`,
  `expectationManagerServer.ts:52`).
* **Workforce**: its registry of managers and AppContainers and its statuses; the requests that
  pass through it are in `AppContainer`.
* **Which Expectations wait** in `WorkerScaler`: left open in `PackageContainers`.
* **Manager status**: statistics and a watchdog that nothing else reads.
* **WorkerAgent**: costs of jobs, reconnection, two jobs started at the same moment.
  **AppContainer**: the wrap of ids, its connection to the Workforce.
* **Handlers and accessors**: what they answer about support and readiness is any answer in
  `ExpectationTracker`; reading, authentication, the ATEM, `FileVerify` (which does no
  work) and HTTP as a target are left out.
* **HTML renderer** run from the command line; **HTTP server**, **Quantel HTTP transformer
  proxy**, **Single app**, **configuration, logging and helpers**: thin shells around
  libraries, or pure functions, without state that steps of several actors change.
