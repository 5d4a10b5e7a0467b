-------------------------- MODULE PackageContainers --------------------------
(***************************************************************************)
(* A PackageContainer of the ExpectationManager: received, updated and     *)
(* removed, and evaluated in every run, which gives it a Worker, has that  *)
(* Worker set up its monitors and run its cronjobs, and asks the Workforce *)
(* for a Worker when there is none.  A step is the code between two        *)
(* awaits.  Other PackageContainers are evaluated before and after it, and *)
(* do not touch it.                                                        *)
(*                                                                         *)
(* The Workers are the other half: the monitors that run there, and those  *)
(* of them in the map activeMonitors, from which they can be stopped.      *)
(***************************************************************************)
EXTENDS Naturals, FiniteSets

CONSTANTS
  Agents,       \* the WorkerAgents
  Contents,     \* what a PackageContainerExpectation can be
  Monitored,    \* those of them with monitors
  Supports,     \* Supports[w]: those that w has access to
  None,
  MaxUpdates,   \* bound on changes and restarts by the owner
  MaxMishaps    \* bound on calls that fail and Workers that leave

ASSUME ContainersAssumption ==
  /\ None \notin Agents \cup Contents
  /\ Monitored \subseteq Contents
  /\ Supports \in [Agents -> SUBSET Contents]
  /\ MaxUpdates \in Nat /\ MaxMishaps \in Nat

VARIABLES
  wanted,        \* the PackageContainer that was received last
  hasBeenUpdated,\* packageContainersHasBeenUpdated
  restarted,     \* it is in restartPackageContainers
  tracked,       \* its TrackedPackageContainerExpectation
  status,        \* the status that has been reported last, "none" for null
  step,          \* where the run is, "off" without an ExpectationManager
  questions,     \* calls of doYouSupportPackageContainer without an answer
  refused,       \* notSupportReason is set
  badStatus,
  connected,     \* manager.workerAgents
  entry,         \* entry[w]: what the monitor in activeMonitors is for
  running,       \* running[w]: how many monitors run
  late,          \* late[w]: a setup that goes on although its caller has given up
  updates, mishaps,
  astray,        \* Workers with a monitor that the manager does not know of
  givenUp        \* the monitors are gone, but are taken for set up

managerVars == <<wanted, hasBeenUpdated, restarted, tracked, status, step, questions, refused, badStatus>>
monitorVars == <<entry, running, late, astray, givenUp>>
containerVars == <<managerVars, monitorVars, connected, updates, mishaps>>

Tracked ==
  [content : Contents, isUpdated : BOOLEAN, currentWorker : Agents \cup {None},
   monitorIsSetup : BOOLEAN,
   waiting : BOOLEAN]   \* waitingForWorkerTime is set

NewContainer(c) ==
  [content |-> c, isUpdated |-> TRUE, currentWorker |-> None, monitorIsSetup |-> FALSE,
   waiting |-> FALSE]

Untracked == NewContainer(None)

NothingTracked ==
  /\ hasBeenUpdated = (wanted # None) /\ restarted = FALSE
  /\ tracked = Untracked /\ status = "none"
  /\ questions = {} /\ refused = FALSE /\ badStatus = FALSE
  /\ entry = [w \in Agents |-> None] /\ running = [w \in Agents |-> 0]
  /\ late = [w \in Agents |-> None]
  /\ updates = 0 /\ mishaps = 0
  /\ astray = {} /\ givenUp = FALSE

\* A PackageContainer may have been received.
InitContainers ==
  wanted \in Contents \cup {None} /\ step = "idle" /\ connected \in SUBSET Agents /\ NothingTracked

NoContainers == wanted = None /\ step = "off" /\ connected = {} /\ NothingTracked

\* A call fails, or a Worker leaves.
Mishap == mishaps < MaxMishaps /\ mishaps' = mishaps + 1

\* The call of a Worker that has left fails by itself.
CallFails(w) == IF w \in connected THEN Mishap ELSE UNCHANGED mishaps

-----------------------------------------------------------------------------
(* The monitors of a Worker.                                               *)

\* setupPackageContainerMonitors has made a monitor: it replaces the one in the map.
StartMonitor(w, c) ==
  /\ running' = [running EXCEPT ![w] = @ + 1]
  /\ entry' = [entry EXCEPT ![w] = c]

\* disposePackageContainerMonitors
StopMonitor(w) ==
  /\ running' = [running EXCEPT ![w] = IF entry[w] = None THEN @ ELSE @ - 1]
  /\ entry' = [entry EXCEPT ![w] = None]

\* monitorIsSetup stays as it is when the monitors are stopped, or go with their Worker.
GivesUp == givenUp' = (givenUp \/ tracked.monitorIsSetup)

-----------------------------------------------------------------------------
(* What is received.                                                       *)

ByOwner ==
  /\ updates < MaxUpdates /\ updates' = updates + 1
  /\ hasBeenUpdated' = TRUE
  /\ UNCHANGED <<tracked, status, step, questions, refused, badStatus, monitorVars, connected, mishaps>>

setPackageContainers(c) == ByOwner /\ c # wanted /\ wanted' = c /\ UNCHANGED restarted

restartPackageContainers == ByOwner /\ ~restarted /\ restarted' = TRUE /\ UNCHANGED wanted

AddedOrChanged_NotReset ==
  CASE tracked = Untracked -> NewContainer(wanted)
    [] tracked # Untracked /\ (tracked.content # wanted \/ restarted) -> [tracked EXCEPT !.content = wanted]
    [] OTHER -> tracked

\* Which tracked PackageContainer follows from what has been received.
AddedOrChanged ==
  CASE tracked = Untracked -> NewContainer(wanted)
    [] tracked # Untracked /\ (tracked.content # wanted \/ restarted) ->
         [tracked EXCEPT !.content = wanted, !.isUpdated = TRUE]
    [] OTHER -> tracked

\* The run begins.  What is no longer wanted is removed by its Worker, if that is connected.
_updateReceivedData_TrackedPackageContainers ==
  /\ step = "idle" /\ hasBeenUpdated
  /\ hasBeenUpdated' = FALSE
  /\ IF wanted # None
     THEN /\ tracked' = AddedOrChanged
          /\ status' = IF AddedOrChanged # tracked \/ restarted THEN "UNKNOWN" ELSE status
          /\ step' = "evaluating"
     ELSE /\ step' = IF tracked # Untracked /\ tracked.currentWorker \in connected
                     THEN "removing" ELSE "evaluating"
          /\ UNCHANGED <<tracked, status>>
  /\ UNCHANGED <<wanted, restarted, questions, refused, badStatus, monitorVars, connected, updates, mishaps>>

NothingReceived ==
  /\ step = "idle" /\ ~hasBeenUpdated
  /\ step' = "evaluating"
  /\ UNCHANGED <<wanted, hasBeenUpdated, restarted, tracked, status, questions, refused, badStatus,
                 monitorVars, connected, updates, mishaps>>

Removed ==
  /\ step = "removing" /\ tracked.currentWorker \in connected
  /\ StopMonitor(tracked.currentWorker)
  /\ tracked' = Untracked /\ status' = "none" /\ questions' = {}
  /\ givenUp' = FALSE
  /\ step' = "evaluating"
  /\ UNCHANGED <<wanted, hasBeenUpdated, restarted, refused, badStatus, late, astray, connected, updates, mishaps>>

\* It is not removed, and will only be tried again when something else is received.
RemovalFails ==
  /\ step = "removing"
  /\ CallFails(tracked.currentWorker)
  /\ \/ UNCHANGED <<entry, running, givenUp>>
     \/ StopMonitor(tracked.currentWorker) /\ GivesUp  \* the answer is lost
  /\ status' = "BAD"
  /\ step' = "evaluating"
  /\ UNCHANGED <<wanted, hasBeenUpdated, restarted, tracked, questions, refused, badStatus, late, astray,
                 connected, updates>>

-----------------------------------------------------------------------------
(* The evaluation: _evaluateAllTrackedPackageContainers.                   *)

Bad == status' = "BAD" /\ step' = "scaling"

AllGood == status' = (IF badStatus THEN status ELSE "GOOD") /\ step' = "scaling"

\* The cronjobs are run when it is time, or else this is the end.
RunsCronjob ==
  \/ step' = "cronjob" /\ UNCHANGED status
  \/ AllGood

\* What is done with the Worker t has.
UseWorker(t) ==
  /\ tracked' = t
  /\ CASE t.currentWorker \notin connected -> Bad
       [] t.currentWorker \in connected /\ t.content \in Monitored /\ ~t.monitorIsSetup ->
            step' = "settingUp" /\ UNCHANGED status
       [] OTHER -> RunsCronjob

\* A Worker is looked for, unless t has one.
FindWorker(t) ==
  IF t.currentWorker # None THEN UseWorker(t) /\ UNCHANGED <<questions, refused>>
  ELSE /\ tracked' = t
       /\ refused' = FALSE
       /\ questions' = questions \cup
            [agent : connected, content : {t.content}, stale : {FALSE}]
       /\ IF connected = {} THEN Bad ELSE step' = "asking" /\ UNCHANGED status

WithoutWorker(t) == [t EXCEPT !.currentWorker = None]

\* A Worker that is gone takes its monitors along; if its process is still there, they run.
WorkerIsGone(w) ==
  /\ GivesUp
  /\ astray' = IF entry[w] # None THEN astray \cup {w} ELSE astray

Evaluate ==
  /\ step = "evaluating"
  /\ LET w == tracked.currentWorker
         t == [tracked EXCEPT !.isUpdated = FALSE]
     IN  CASE tracked = Untracked ->
                step' = "scaling" /\ UNCHANGED <<tracked, status, questions, refused, astray, givenUp>>
           [] tracked # Untracked /\ tracked.isUpdated /\ w \in connected ->
                step' = "resetting" /\ UNCHANGED <<tracked, status, questions, refused, astray, givenUp>>
           [] tracked # Untracked /\ w \notin connected \cup {None} -> FindWorker(WithoutWorker(t)) /\ WorkerIsGone(w)
           [] OTHER -> FindWorker(t) /\ UNCHANGED <<astray, givenUp>>
  /\ UNCHANGED <<wanted, hasBeenUpdated, restarted, badStatus, entry, running, late, connected, updates, mishaps>>

\* An updated PackageContainer: its monitors have been stopped.
Reset ==
  /\ step = "resetting" /\ tracked.currentWorker \in connected
  /\ StopMonitor(tracked.currentWorker)
  /\ GivesUp
  /\ FindWorker(WithoutWorker([tracked EXCEPT !.isUpdated = FALSE]))
  /\ UNCHANGED <<wanted, hasBeenUpdated, restarted, badStatus, late, astray, connected, updates, mishaps>>

ResetFails ==
  /\ step = "resetting"
  /\ CallFails(tracked.currentWorker)
  /\ \/ UNCHANGED <<entry, running, givenUp>>
     \/ StopMonitor(tracked.currentWorker) /\ GivesUp
  /\ Bad
  /\ UNCHANGED <<wanted, hasBeenUpdated, restarted, tracked, questions, refused, badStatus, late, astray,
                 connected, updates>>

\* A Worker answers.  The first that supports the PackageContainer gets it; the answer may be to
\* a question of an earlier run that has been given up.
Answer(q) ==
  /\ q.agent \in connected
  /\ questions' = questions \ {q}
  /\ LET none == tracked.currentWorker = None
         supports == q.content \in Supports[q.agent]
         t == IF none /\ supports THEN [tracked EXCEPT !.currentWorker = q.agent] ELSE tracked
     IN  IF q.stale THEN tracked' = t /\ UNCHANGED <<status, step, refused>>
         ELSE /\ refused' = (refused \/ (none /\ ~supports))
              /\ IF \E other \in questions' : ~other.stale
                 THEN tracked' = t /\ UNCHANGED <<status, step>>
                 ELSE IF refused' \/ t.currentWorker = None
                      THEN tracked' = t /\ Bad
                      ELSE UseWorker(t)
  /\ UNCHANGED <<wanted, hasBeenUpdated, restarted, badStatus, monitorVars, connected, updates, mishaps>>

\* One question that fails ends the evaluation; the others are still answered.
QuestionFails(q) ==
  /\ CallFails(q.agent)
  /\ IF q.stale THEN questions' = questions \ {q} /\ UNCHANGED <<status, step>>
     ELSE /\ questions' = {[other EXCEPT !.stale = TRUE] : other \in questions \ {q}}
          /\ Bad
  /\ UNCHANGED <<wanted, hasBeenUpdated, restarted, tracked, refused, badStatus, monitorVars, connected, updates>>

SetUp ==
  /\ step = "settingUp" /\ tracked.currentWorker \in connected
  /\ tracked.content \in Supports[tracked.currentWorker]
  /\ StartMonitor(tracked.currentWorker, tracked.content)
  /\ astray' = IF entry[tracked.currentWorker] # None THEN astray \cup {tracked.currentWorker} ELSE astray
  /\ tracked' = [tracked EXCEPT !.monitorIsSetup = TRUE]
  /\ UNCHANGED badStatus
  /\ RunsCronjob
  /\ UNCHANGED <<wanted, hasBeenUpdated, restarted, questions, refused, late, givenUp, connected, updates, mishaps>>

\* The Worker can not: the cronjobs are run all the same.
SetUpRefused ==
  /\ step = "settingUp" /\ tracked.currentWorker \in connected
  /\ IF tracked.content \in Supports[tracked.currentWorker] THEN Mishap ELSE UNCHANGED mishaps
  /\ badStatus' = TRUE
  /\ status' = "BAD"
  /\ step' \in {"cronjob", "scaling"}
  /\ UNCHANGED <<wanted, hasBeenUpdated, restarted, tracked, questions, refused, monitorVars, connected, updates>>

\* The call fails before the Worker has done anything, after it, or while it is at it.
SetUpFails ==
  /\ step = "settingUp"
  /\ CallFails(tracked.currentWorker)
  /\ LET w == tracked.currentWorker
     IN  \/ UNCHANGED monitorVars
         \/ /\ w \in connected /\ tracked.content \in Supports[w]
            /\ \/ /\ StartMonitor(w, tracked.content)
                  /\ astray' = IF entry[w] # None THEN astray \cup {w} ELSE astray
                  /\ UNCHANGED late
               \/ /\ late' = [late EXCEPT ![w] = tracked.content]
                  /\ UNCHANGED <<entry, running, astray>>
            /\ UNCHANGED givenUp
  /\ Bad
  /\ UNCHANGED <<wanted, hasBeenUpdated, restarted, tracked, questions, refused, badStatus, connected, updates>>

\* A setup that the manager has given up comes to its end.
LateSetUp(w) ==
  /\ late[w] # None
  /\ StartMonitor(w, late[w])
  /\ late' = [late EXCEPT ![w] = None]
  /\ astray' = astray \cup {w}
  /\ UNCHANGED <<managerVars, givenUp, connected, updates, mishaps>>

CronjobDone ==
  /\ step = "cronjob" /\ tracked.currentWorker \in connected
  /\ UNCHANGED badStatus
  /\ AllGood
  /\ UNCHANGED <<wanted, hasBeenUpdated, restarted, tracked, questions, refused, monitorVars, connected,
                 updates, mishaps>>

CronjobFails ==
  /\ step = "cronjob"
  /\ CallFails(tracked.currentWorker)
  /\ Bad
  /\ UNCHANGED <<wanted, hasBeenUpdated, restarted, tracked, questions, refused, badStatus, monitorVars,
                 connected, updates>>

-----------------------------------------------------------------------------
(* The end of a run (WorkerScaler), and the Workers.                       *)

EndRun(next) ==
  /\ step = "scaling"
  /\ tracked' = IF tracked = Untracked THEN tracked
                ELSE [tracked EXCEPT !.waiting = (tracked.currentWorker = None)]
  /\ step' = next
  /\ badStatus' = FALSE
  /\ UNCHANGED <<wanted, hasBeenUpdated, restarted, status, questions, refused, monitorVars, connected,
                 updates, mishaps>>

\* No request is made for a PackageContainer that has not waited for SCALE_UP_TIME, or when
\* SCALE_UP_COUNT requests have been made for Expectations, which come first in every run, or one
\* of those has failed.  Nothing keeps that from being so in every run.
NoRequest == EndRun("idle")

RequestResources == tracked.waiting /\ tracked.currentWorker = None /\ EndRun("requesting")

\* The Workforce answers, or does not: errors are logged.
RequestAnswered ==
  /\ step = "requesting"
  /\ step' = "idle"
  /\ UNCHANGED <<wanted, hasBeenUpdated, restarted, tracked, status, questions, refused, badStatus,
                 monitorVars, connected, updates, mishaps>>

AgentConnects(w) ==
  /\ w \notin connected
  /\ connected' = connected \cup {w}
  /\ UNCHANGED <<managerVars, monitorVars, updates, mishaps>>

\* The connection closes, or the process ends and its monitors with it.
AgentLeaves(w) ==
  /\ w \in connected /\ Mishap
  /\ connected' = connected \ {w}
  /\ \/ UNCHANGED monitorVars
     \/ /\ entry' = [entry EXCEPT ![w] = None]
        /\ running' = [running EXCEPT ![w] = 0]
        /\ late' = [late EXCEPT ![w] = None]
        /\ astray' = astray \ {w}
        /\ IF tracked # Untracked /\ tracked.currentWorker = w THEN GivesUp ELSE UNCHANGED givenUp
  /\ UNCHANGED <<managerVars, updates>>

Run ==
  \/ _updateReceivedData_TrackedPackageContainers \/ NothingReceived
  \/ Removed \/ RemovalFails
  \/ Evaluate \/ Reset \/ ResetFails
  \/ \E q \in questions : Answer(q) \/ QuestionFails(q)
  \/ SetUp \/ SetUpRefused \/ SetUpFails
  \/ CronjobDone \/ CronjobFails
  \/ NoRequest \/ RequestResources \/ RequestAnswered

NextContainers ==
  /\ step # "off"
  /\ \/ \E c \in Contents \cup {None} : setPackageContainers(c)
     \/ restartPackageContainers
     \/ Run
     \/ \E w \in Agents : AgentConnects(w) \/ AgentLeaves(w) \/ LateSetUp(w)

\* Runs go on and calls end.
FairnessOfContainers == WF_containerVars(Run)

-----------------------------------------------------------------------------
(* Properties.                                                             *)

TypeOKOfContainers ==
  /\ wanted \in Contents \cup {None}
  /\ hasBeenUpdated \in BOOLEAN /\ restarted \in BOOLEAN /\ refused \in BOOLEAN /\ badStatus \in BOOLEAN
  /\ tracked \in Tracked \cup {Untracked}
  /\ status \in {"none", "UNKNOWN", "GOOD", "BAD"}
  /\ step \in {"off", "idle", "removing", "evaluating", "resetting", "asking", "settingUp", "cronjob",
             "scaling", "requesting"}
  /\ questions \subseteq [agent : Agents, content : Contents, stale : BOOLEAN]
  /\ connected \subseteq Agents /\ astray \subseteq Agents /\ givenUp \in BOOLEAN
  /\ entry \in [Agents -> Contents \cup {None}] /\ late \in [Agents -> Contents \cup {None}]
  /\ running \in [Agents -> Nat]
  /\ updates \in 0 .. MaxUpdates /\ mishaps \in 0 .. MaxMishaps

\* Every monitor that runs is one that its Worker can stop, and belongs to the Worker of a
\* tracked PackageContainer, however often that is changed, restarted or removed and whichever
\* call fails, except on a Worker whose monitors were set up twice, or after the call for it had
\* been given up, or that was disconnected and forgotten with them.
MonitorsCanBeStopped ==
  \A w \in Agents \ astray :
    /\ running[w] = IF entry[w] = None THEN 0 ELSE 1
    /\ running[w] > 0 => tracked # Untracked /\ tracked.currentWorker = w

\* A PackageContainer that is reported as GOOD has its monitors, for what it is now, on the
\* Worker it is given to, unless they had been set up before and are gone, or that Worker is
\* one of those just named.
GoodIsMonitored ==
  status = "GOOD" /\ tracked.content \in Monitored /\ tracked.currentWorker \notin astray /\ ~givenUp =>
    entry[tracked.currentWorker] = tracked.content

\* Whichever calls fail and Workers leave or refuse: a PackageContainer that stays, with
\* monitors, gets them set up if a Worker stays that supports it, unless it was given to one
\* that does not by a late answer about what it was before.
MonitorsAreSetUp ==
  []<>(\/ wanted \notin Monitored
       \/ \A w \in connected : wanted \notin Supports[w]
       \/ /\ tracked # Untracked
          /\ \/ tracked.monitorIsSetup
             \/ tracked.currentWorker # None /\ tracked.content \notin Supports[tracked.currentWorker])

\* A PackageContainer that is no longer wanted is removed, if its Worker is there and answers.
UnwantedContainerIsRemoved ==
  (/\ wanted = None /\ hasBeenUpdated /\ tracked # Untracked /\ mishaps = MaxMishaps
   /\ tracked.currentWorker \in connected)
  ~> (wanted # None \/ tracked = Untracked \/ tracked.currentWorker = None)

-----------------------------------------------------------------------------
(* The inductive invariant behind the safety properties, in named parts.   *)

\* What the evaluation works on is there, a Worker that is called has been given it, and what
\* it has been told to do has been taken in; nobody is asked about a PackageContainer that is
\* not tracked, and answers are only waited for while Workers are asked.
EvaluationIsOfTracked ==
  /\ step = "asking" => tracked # Untracked
  /\ step \in {"removing", "resetting", "settingUp", "cronjob"} => tracked.currentWorker # None
  /\ step \in {"asking", "settingUp", "cronjob"} => ~tracked.isUpdated
  /\ tracked = Untracked => questions = {}
  /\ \A q \in questions : ~q.stale => step = "asking"

\* A Worker with an entry in its map has a monitor to stop.
EntriesAreRunning ==
  \A w \in Agents : entry[w] # None => running[w] > 0

\* Monitors that count as set up are those of the Worker, unless they are gone, or are to be
\* set up anew.
SetUpIsMonitored ==
  tracked.monitorIsSetup /\ ~givenUp =>
    /\ tracked.currentWorker # None
    /\ tracked.isUpdated \/ tracked.currentWorker \in astray
         \/ entry[tracked.currentWorker] = tracked.content

\* What is GOOD, or about to be, has been set up.
GoodIsSetUp ==
  tracked.content \in Monitored =>
    /\ status = "GOOD" => tracked.monitorIsSetup /\ ~tracked.isUpdated
    /\ step = "cronjob" => tracked.monitorIsSetup \/ badStatus

ContainersInv ==
  /\ TypeOKOfContainers /\ MonitorsCanBeStopped
  /\ EvaluationIsOfTracked /\ EntriesAreRunning /\ SetUpIsMonitored /\ GoodIsSetUp
=============================================================================
