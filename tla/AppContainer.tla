---------------------------- MODULE AppContainer ----------------------------
(***************************************************************************)
(* The AppContainer: it starts Workers as child processes, keeps at least  *)
(* the configured number of them running, restarts those that exit, stops  *)
(* those that fall silent or grow old, and starts more when the Workforce  *)
(* asks for resources.  A request is followed from the Workforce's         *)
(* WorkerHandler (which asks for a proposal, then for a spin-up) to the    *)
(* Worker that answers whether it supports the Expectation.                *)
(*                                                                         *)
(* Time is abstracted into what the code compares it with: an app is       *)
(* "silent" when its last ping is more than 2.5 ping periods old, "aged"   *)
(* when it has outlived maxAppKeepalive, and "sick" when the Worker itself *)
(* has had too many periods with failures.  What goes wrong in a behaviour *)
(* is counted, and bounded by MaxFaults.                                   *)
(***************************************************************************)
EXTENDS Naturals, FiniteSets, Sequences, SequencesExt

CONSTANTS
  AppTypes,        \* the types of apps found on disk, in the order of the map
  CriticalTypes,   \* those that can run for critical Expectations only
  Requests,        \* requests for resources
  MinRunningApps,  \* config.appContainer.minRunningApps, per type
  MinCriticalApps, \* config.appContainer.minCriticalWorkerApps, per type
  MaxRunningApps,  \* config.appContainer.maxRunningApps
  MaxAppId,        \* bound: how many ids of apps are looked at
  MaxFaults        \* bound: how many things go wrong

TypeNames == {AppTypes[i] : i \in DOMAIN AppTypes}

ASSUME AppsAssumption ==
  /\ AppTypes \in Seq(TypeNames)
  /\ MinRunningApps \in Nat /\ MinCriticalApps \in Nat /\ MaxRunningApps \in Nat
  /\ MaxAppId \in Nat /\ MaxFaults \in Nat

VARIABLES
  apps,       \* the map of running apps
  nextId,     \* the counter app ids are made from
  stray,      \* ids of apps that are gone while their restart timer is still running
  orphans,    \* ids whose process runs although the app is not in the map
  conns,      \* ids of the apps with an open connection that has a close handler
  requests,   \* the requests under way
  closed,     \* the AppContainer's process has exited
  faults

vars == <<apps, nextId, stray, orphans, conns, requests, closed, faults>>

AppIds == 1 .. MaxAppId

RunningAppInfo ==
  [type : TypeNames, auto : BOOLEAN, alive : BOOLEAN, restarting : BOOLEAN, connected : BOOLEAN,
   monitorPing : BOOLEAN, health : {"ok", "silent", "aged", "sick"}]

NewApp(t, isAuto) ==
  [type |-> t, auto |-> isAuto, alive |-> TRUE, restarting |-> FALSE, connected |-> FALSE,
   monitorPing |-> FALSE, health |-> "ok"]

Tracked == DOMAIN apps
Alive == {a \in Tracked : apps[a].alive}

AutoScalingApps(m, t) == {a \in DOMAIN m : m[a].type = t /\ m[a].auto}
CriticalApps(m, t) == {a \in DOMAIN m : m[a].type = t /\ ~m[a].auto}
getAutoScalingAppCount(m, t) == Cardinality(AutoScalingApps(m, t))
getCriticalExpectationAppCount(m, t) == Cardinality(CriticalApps(m, t))

RequestStates ==
  [pc : {"idle", "waiting", "asking", "unavailable", "proposed", "refused", "failed", "done"},
   todo : 0 .. Len(AppTypes), app : 0 .. MaxAppId]

Init ==
  /\ apps = <<>>
  /\ nextId = 1
  /\ stray = {} /\ orphans = {} /\ conns = {}
  /\ requests = [r \in Requests |-> [pc |-> "idle", todo |-> 0, app |-> 0]]
  /\ closed = FALSE
  /\ faults = 0

Fault == faults < MaxFaults /\ faults' = faults + 1

-----------------------------------------------------------------------------
(* Starting and stopping apps.                                             *)

Several(n, x) == [k \in 1 .. n |-> x]
Missing(n, min) == IF n < min THEN min - n ELSE 0

\* What is started when m are the apps: the critical apps of every type, then the
\* auto-scaling ones, up to the minimum.
spinUpMinimumApps(m) ==
  FlattenSeq([i \in DOMAIN AppTypes |->
                IF AppTypes[i] \notin CriticalTypes THEN <<>>
                ELSE Several(Missing(getCriticalExpectationAppCount(m, AppTypes[i]), MinCriticalApps),
                             NewApp(AppTypes[i], FALSE))])
  \o FlattenSeq([i \in DOMAIN AppTypes |->
                   Several(Missing(getAutoScalingAppCount(m, AppTypes[i]), MinRunningApps),
                           NewApp(AppTypes[i], TRUE))])

Without(S) == [a \in Tracked \ S |-> apps[a]]

\* The apps m and the new ones, which get the next ids.
With(m, new) ==
  [a \in (DOMAIN m) \cup (nextId .. (nextId + Len(new) - 1)) |->
     IF a \in DOMAIN m THEN m[a] ELSE new[a - nextId + 1]]

\* The processes of the apps S are killed and the apps forgotten; a restart timer that
\* runs keeps running.
spinDown(S) ==
  /\ apps' = Without(S)
  /\ stray' = stray \cup {a \in S \cap Tracked : apps[a].restarting}

_spinUp_KeepsTheId(t) ==
  /\ nextId <= MaxAppId
  /\ apps' = With(apps, <<NewApp(t, TRUE)>>)
  /\ UNCHANGED nextId

_spinUp(t) ==
  /\ nextId <= MaxAppId
  /\ apps' = With(apps, <<NewApp(t, TRUE)>>)
  /\ nextId' = nextId + 1

TooSilent_NeverPinged(a) == apps[a].monitorPing /\ ~apps[a].connected

\* An app is stopped by the monitor: it is silent, or older than allowed.
TooSilent(a) == apps[a].monitorPing /\ apps[a].health = "silent"
TooOld(a) == apps[a].health = "aged"

\* The timer of the monitor: stop what is to be stopped, then start what is missing.
monitorApps ==
  /\ ~closed
  /\ LET dead == {a \in Tracked : TooSilent(a) \/ TooOld(a)}
         left == Without(dead)
         new == spinUpMinimumApps(left)
     IN /\ nextId + Len(new) <= MaxAppId + 1
        /\ nextId' = nextId + Len(new)
        /\ apps' = With(left, new)
        /\ stray' = stray \cup {a \in dead : apps[a].restarting}
  /\ UNCHANGED <<orphans, conns, requests, closed, faults>>

-----------------------------------------------------------------------------
(* What happens to the child processes.                                    *)

\* A Worker's process exits: its app, when it is still known, is to be restarted.
ProcessExit(a) ==
  /\ a \in Alive /\ Fault
  /\ apps' = [apps EXCEPT ![a].alive = FALSE, ![a].restarting = TRUE]
  /\ UNCHANGED <<nextId, stray, orphans, conns, requests, closed>>

\* A process could not be started at all: there is no exit event then.
SpawnError(a) ==
  /\ a \in Alive /\ ~apps[a].connected /\ a \notin conns /\ Fault
  /\ apps' = [apps EXCEPT ![a].alive = FALSE]
  /\ UNCHANGED <<nextId, stray, orphans, conns, requests, closed>>

\* The restart timer of a known app.
Restart(a) ==
  /\ a \in Tracked /\ apps[a].restarting /\ ~closed
  /\ apps' = [apps EXCEPT ![a].alive = TRUE, ![a].restarting = FALSE]
  /\ UNCHANGED <<nextId, stray, orphans, conns, requests, closed, faults>>

\* The restart timer of an app that has been stopped meanwhile: the timer does not look
\* whether its app is still there, and the process it starts belongs to nobody.
StrayRestart(a) ==
  /\ a \in stray /\ ~closed
  /\ stray' = stray \ {a}
  /\ orphans' = orphans \cup {a}
  /\ UNCHANGED <<apps, nextId, conns, requests, closed, faults>>

OrphanExit(a) ==
  /\ a \in orphans
  /\ orphans' = orphans \ {a}
  /\ UNCHANGED <<apps, nextId, stray, conns, requests, closed, faults>>

\* The Worker's websocket reaches the AppContainer.
WorkerConnects(a) ==
  /\ a \in Alive /\ a \notin conns /\ ~closed
  /\ conns' = conns \cup {a}
  /\ apps' = [apps EXCEPT ![a].connected = TRUE, ![a].monitorPing = TRUE, ![a].health = "ok"]
  /\ UNCHANGED <<nextId, stray, orphans, requests, closed, faults>>

\* The connection is cut, or closes because the process is gone.
ConnectionClosed(a) ==
  /\ a \in conns
  /\ \/ Fault
     \/ a \notin Alive /\ UNCHANGED faults
  /\ conns' = conns \ {a}
  /\ apps' = IF a \in Tracked THEN [apps EXCEPT ![a].connected = FALSE] ELSE apps
  /\ UNCHANGED <<nextId, stray, orphans, requests, closed>>

\* No ping for more than 2.5 periods: the Worker hangs, or has no connection.
PingOverdue(a) ==
  /\ a \in Tracked /\ apps[a].monitorPing /\ apps[a].health = "ok"
  /\ IF apps[a].alive /\ apps[a].connected THEN Fault ELSE UNCHANGED faults
  /\ apps' = [apps EXCEPT ![a].health = "silent"]
  /\ UNCHANGED <<nextId, stray, orphans, conns, requests, closed>>

ping(a) ==
  /\ a \in conns \cap Alive /\ apps[a].health = "silent"
  /\ apps' = [apps EXCEPT ![a].health = "ok"]
  /\ UNCHANGED <<nextId, stray, orphans, conns, requests, closed, faults>>

\* maxAppKeepalive has passed.  An app that never got a process has nothing else that
\* ends it.
LifetimePasses(a) ==
  /\ a \in Tracked /\ apps[a].health \in {"ok", "silent"}
  /\ IF apps[a].alive THEN Fault ELSE UNCHANGED faults
  /\ apps' = [apps EXCEPT ![a].health = "aged"]
  /\ UNCHANGED <<nextId, stray, orphans, conns, requests, closed>>

\* The Worker has seen too many periods with failures.
WorkerIsSick(a) ==
  /\ a \in conns \cap Alive /\ apps[a].health = "ok" /\ Fault
  /\ apps' = [apps EXCEPT ![a].health = "sick"]
  /\ UNCHANGED <<nextId, stray, orphans, conns, requests, closed>>

-----------------------------------------------------------------------------
(* The methods the AppContainer offers to its Workers.                     *)

\* A Worker with too many failures asks by force.
requestSpinDownForced(a) ==
  /\ a \in conns \cap Tracked /\ apps[a].health = "sick" /\ ~closed
  /\ spinDown({a})
  /\ UNCHANGED <<nextId, orphans, conns, requests, closed, faults>>

requestSpinDown_AtTheMinimum(a) ==
  /\ a \in conns \cap Alive /\ ~closed
  /\ apps[a].auto
  /\ getAutoScalingAppCount(apps, apps[a].type) >= MinRunningApps
  /\ spinDown({a})
  /\ UNCHANGED <<nextId, orphans, conns, requests, closed, faults>>

\* An idle Worker asks kindly: only auto-scaling apps above the minimum are stopped.
requestSpinDown(a) ==
  /\ a \in conns \cap Alive /\ ~closed
  /\ apps[a].auto
  /\ getAutoScalingAppCount(apps, apps[a].type) > MinRunningApps
  /\ spinDown({a})
  /\ UNCHANGED <<nextId, orphans, conns, requests, closed, faults>>

-----------------------------------------------------------------------------
(* Requests for resources.                                                 *)

Set(r, pc, todo, app) == requests' = [requests EXCEPT ![r] = [pc |-> pc, todo |-> todo, app |-> app]]

\* The Worker is asked, when there is a connection to do it over.
Ask(r, i, a) == Set(r, IF apps[a].connected THEN "asking" ELSE "unavailable", i, a)

\* The i-th type is looked at: one of its auto-scaling apps is asked, and when there is
\* none, one is started and waited for.  When the types are exhausted, nobody supports it.
getRunningOrSpawnScalingApp(r, i) ==
  IF i > Len(AppTypes)
  THEN Set(r, "refused", 0, 0) /\ UNCHANGED <<apps, nextId>>
  ELSE \/ \E a \in AutoScalingApps(apps, AppTypes[i]) :
            /\ \A b \in AutoScalingApps(apps, AppTypes[i]) : a <= b
            /\ Ask(r, i, a)
            /\ UNCHANGED <<apps, nextId>>
       \/ /\ AutoScalingApps(apps, AppTypes[i]) = {}
          /\ _spinUp(AppTypes[i])
          /\ Set(r, "waiting", i, nextId)

\* The Workforce asks for a proposal: refused at once when the limit is reached.
requestAppType(r) ==
  /\ requests[r].pc = "idle" /\ ~closed
  /\ IF Cardinality(Tracked) >= MaxRunningApps
     THEN Set(r, "refused", 0, 0) /\ UNCHANGED <<apps, nextId>>
     ELSE getRunningOrSpawnScalingApp(r, 1)
  /\ UNCHANGED <<stray, orphans, conns, closed, faults>>

AppWaitedFor_UntilItConnects(r) ==
  LET a == requests[r].app
  IN /\ requests[r].pc = "waiting"
     /\ a \in Tracked
     /\ apps[a].connected
     /\ Ask(r, requests[r].todo, a)
     /\ UNCHANGED <<apps, nextId, stray, orphans, conns, closed, faults>>

\* The started app is looked for a few times: until it has connected, it is gone, or the
\* tries are used up (it is then taken as it is).
AppWaitedFor(r) ==
  LET a == requests[r].app
  IN /\ requests[r].pc = "waiting"
     /\ IF a \in Tracked THEN Ask(r, requests[r].todo, a) ELSE Set(r, "failed", 0, 0)
     /\ UNCHANGED <<apps, nextId, stray, orphans, conns, closed, faults>>

\* The Worker answers, as it likes: its type is proposed, or the next one is looked at.
AppAnswers(r) ==
  LET a == requests[r].app
      i == requests[r].todo
  IN /\ \/ /\ requests[r].pc = "asking" /\ a \in conns \cap Alive
           /\ \/ Set(r, "proposed", i, 0) /\ UNCHANGED <<apps, nextId>>
              \/ getRunningOrSpawnScalingApp(r, i + 1)
        \/ /\ requests[r].pc = "unavailable"
           /\ getRunningOrSpawnScalingApp(r, i + 1)
     /\ UNCHANGED <<stray, orphans, conns, closed, faults>>

\* The call is cut off, or not answered in time: the whole request fails.
AppDoesNotAnswer(r) ==
  LET a == requests[r].app
  IN /\ requests[r].pc = "asking"
     /\ a \notin {b \in conns \cap Alive : apps[b].health # "silent"}
     /\ Set(r, "failed", 0, 0)
     /\ UNCHANGED <<apps, nextId, stray, orphans, conns, closed, faults>>

\* The WorkerHandler takes the proposal up; the limit is not looked at again.
spinUp(r) ==
  /\ requests[r].pc = "proposed" /\ ~closed
  /\ _spinUp(AppTypes[requests[r].todo])
  /\ Set(r, "done", 0, 0)
  /\ UNCHANGED <<stray, orphans, conns, closed, faults>>

-----------------------------------------------------------------------------

\* The AppContainer's own process exits.
killAllApps ==
  /\ ~closed /\ Fault
  /\ closed' = TRUE
  /\ apps' = <<>>
  /\ stray' = {} /\ conns' = {}
  /\ UNCHANGED <<nextId, orphans, requests>>

TrackedApp(a) ==
  \/ ProcessExit(a) \/ SpawnError(a) \/ Restart(a) \/ WorkerConnects(a) \/ PingOverdue(a) \/ ping(a)
  \/ LifetimePasses(a) \/ WorkerIsSick(a) \/ requestSpinDownForced(a) \/ requestSpinDown(a)

RequestGoesOn(r) == requestAppType(r) \/ AppWaitedFor(r) \/ AppAnswers(r) \/ AppDoesNotAnswer(r) \/ spinUp(r)

Next ==
  \/ monitorApps
  \/ killAllApps
  \/ \E a \in Tracked : TrackedApp(a)
  \/ \E a \in conns : ConnectionClosed(a)
  \/ \E a \in stray : StrayRestart(a)
  \/ \E a \in orphans : OrphanExit(a)
  \/ \E r \in Requests : RequestGoesOn(r)

\* Restart timers fire, a started Worker connects, a closed connection is noticed, a sick
\* Worker says so, and an app without a process grows old.
Housekeeping ==
  \/ \E a \in conns : ConnectionClosed(a)
  \/ \E a \in Tracked :
       \/ Restart(a) \/ WorkerConnects(a) \/ requestSpinDownForced(a)
       \/ a \notin Alive /\ LifetimePasses(a)

\* The interval timer runs, and so do the other timers, the Workers and the requests.
Fairness ==
  /\ WF_vars(monitorApps)
  /\ WF_vars(Housekeeping)
  /\ WF_vars(\E r \in Requests : AppWaitedFor(r) \/ AppAnswers(r) \/ AppDoesNotAnswer(r) \/ spinUp(r))

Spec == Init /\ [][Next]_vars /\ Fairness

-----------------------------------------------------------------------------
(* Properties.                                                             *)

\* Every variable has the values the code can give it, and no id has been given out that
\* the counter has not passed.
TypeOK ==
  /\ Tracked \subseteq AppIds /\ apps \in [Tracked -> RunningAppInfo]
  /\ nextId \in 1 .. (MaxAppId + 1)
  /\ \A a \in Tracked \cup stray \cup orphans \cup conns : a < nextId
  /\ stray \subseteq AppIds /\ orphans \subseteq AppIds /\ conns \subseteq AppIds
  /\ requests \in [Requests -> RequestStates]
  /\ closed \in BOOLEAN
  /\ faults \in 0 .. MaxFaults

\* A request that is under way is about one of the types.
RequestsAreOfAType ==
  \A r \in Requests :
    requests[r].pc \in {"waiting", "asking", "unavailable", "proposed"}
      => requests[r].todo \in DOMAIN AppTypes

IInv == TypeOK /\ RequestsAreOfAType

Healthy(a) == apps[a].alive /\ apps[a].connected /\ apps[a].health = "ok"

\* An app that works is only ever stopped while more auto-scaling apps than the minimum
\* are left: several idle Workers asking at once do not take the container below it, and
\* the apps reserved for critical Expectations are not stopped for being idle.
HealthyAppIsNeeded ==
  [][\A a \in AppIds :
       (a \in Tracked /\ Healthy(a) /\ a \notin DOMAIN apps' /\ ~closed')
         => /\ apps[a].auto
            /\ getAutoScalingAppCount(apps', apps[a].type) >= MinRunningApps]_vars

Working(S) == {a \in S : apps[a].alive /\ apps[a].connected /\ apps[a].health # "silent"}

\* Whatever exits, hangs, cannot be started, grows old or gives itself up: once that
\* ends, the minimum of connected Workers of every type, and of critical ones, is
\* reached and kept.
MinimumIsRestored ==
  <>[](closed \/ \A t \in TypeNames :
         /\ Cardinality(Working(AutoScalingApps(apps, t))) >= MinRunningApps
         /\ t \in CriticalTypes => Cardinality(Working(CriticalApps(apps, t))) >= MinCriticalApps)

\* A request for resources is always answered: a Worker that never connects, is stopped
\* while it is waited for, or dies while it is asked, does not keep the Workforce (and
\* the ExpectationManager behind it) waiting.
RequestsEnd ==
  \A r \in Requests :
    (requests[r].pc \in {"waiting", "asking", "unavailable", "proposed"})
      ~> (closed \/ requests[r].pc \in {"refused", "failed", "done"})
=============================================================================
