--------------------------- MODULE PackageManager ---------------------------
(***************************************************************************)
(* PackageManagerHandler of packageManager.ts: which expectations the      *)
(* expectation manager is given, while the data in Core, the settings, the *)
(* external data (of the watched file) and the packages which the workers' *)
(* monitors find are changing.  Every change (re)starts a timer of 300 ms; *)
(* when it fires, everything is generated anew from the data at that time. *)
(***************************************************************************)
EXTENDS GenerateExpectations

CONSTANTS
  CorePackages,     \* the packages which may be in Core (as wraps)
  FoundPackages,    \* the packages which monitors and the watched file may hold
  Containers,       \* the containers that there may be
  Writeable,        \* those with an accessor that allows writing
  Rundowns,         \* the values of the active rundowns: functions to their ranks
  Monitors,
  MaxPackages       \* how many packages Core has at first, or one source reports, at most

\* A package has at most one container for its thumbnail, and one for its preview.
ASSUME PackagesAssumption ==
  \A p \in CorePackages \cup FoundPackages :
    /\ DOMAIN p = {"id", "type", "content", "version", "hash", "sources", "targets",
                   "accessors", "priority", "rundown", "external", "smartbull", "sideEffect"}
    /\ p.type \in {"MEDIA_FILE", "QUANTEL_CLIP", "JSON_DATA", "HTML_TEMPLATE"}
    /\ p.priority \in Int
    /\ \A c, d \in p.sideEffect : c[1] = d[1] => c = d

ASSUME DataAssumption ==
  /\ \A r \in Rundowns : \A id \in DOMAIN r : r[id] \in Int
  /\ IsFiniteSet(Monitors) /\ MaxPackages \in Nat

ASSUME ContainersAssumption ==
  /\ {TemporaryStorage, SourceMonitor, Smartbull} \cup Writeable \subseteq Containers
  /\ None \notin Containers

VARIABLES
  packages,            \* packageManagerExpectedPackages, in Core
  packageContainers,   \* packageManagerPackageContainers, in Core; None: not there yet
  activeRundowns,      \* of packageManagerPlayoutContext; None: not there yet
  settings,            \* the settings in Core's device
  externalData,        \* externalData
  monitoredPackages,   \* monitoredPackages: for each monitor, what it has reported
  packageContainersCache,
  timer,               \* _triggerUpdatedExpectedPackagesTimeout
  given                \* what the expectation manager was given last, at first nothing

data == <<packages, packageContainers, activeRundowns, settings, externalData, monitoredPackages>>
vars == <<data, packageContainersCache, timer, given>>

\* What a source of packages may hold
Lists(S) == UNION {[1 .. n -> S] : n \in 0 .. MaxPackages}

triggerUpdatedExpectedPackages == timer' = TRUE

\* The observers of setupObservers: added, changed, removed.
CoreChanges ==
  /\ \/ \E p \in CorePackages :
          packages' = Append(packages, p) /\ UNCHANGED <<packageContainers, activeRundowns>>
     \/ \E i \in DOMAIN packages :
          packages' = RemoveAt(packages, i) /\ UNCHANGED <<packageContainers, activeRundowns>>
     \/ \E cs \in SUBSET Containers :
          packageContainers' = cs /\ UNCHANGED <<packages, activeRundowns>>
     \/ \E r \in Rundowns :
          activeRundowns' = r /\ UNCHANGED <<packages, packageContainers>>
  /\ triggerUpdatedExpectedPackages
  /\ UNCHANGED <<settings, externalData, monitoredPackages, packageContainersCache, given>>

\* onDeviceChanged and onSettingsChanged
onSettingsChanged(s) ==
  /\ settings' = s
  /\ triggerUpdatedExpectedPackages
  /\ UNCHANGED <<packages, packageContainers, activeRundowns, externalData,
                 monitoredPackages, packageContainersCache, given>>

\* A package with its sources and targets looked up among the containers, or None.
wrapExpectedPackage(containers, p) ==
  LET sources == p.sources \cap containers
      targets == p.targets \cap containers
  IN  IF sources = {} \/ targets = {} THEN None
      ELSE [p EXCEPT !.sources = sources, !.targets = targets, !.priority = 999, !.external = TRUE]

Wrapped(containers, found) ==
  LET all == [i \in DOMAIN found |-> wrapExpectedPackage(containers, found[i])]
  IN  Within(all, Range(all) \ {None})

\* reloadInput of connector.ts: the watched file has changed.
setExternalData_WithoutTrigger(containers, found) ==
  /\ externalData' = [containers |-> containers, packages |-> Wrapped(containers, found)]
  /\ UNCHANGED <<packages, packageContainers, activeRundowns, settings,
                 monitoredPackages, packageContainersCache, given, timer>>
setExternalData(containers, found) ==
  /\ externalData' = [containers |-> containers, packages |-> Wrapped(containers, found)]
  /\ triggerUpdatedExpectedPackages
  /\ UNCHANGED <<packages, packageContainers, activeRundowns, settings,
                 monitoredPackages, packageContainersCache, given>>

\* A worker reports what a monitor has found: it is looked up among the containers of
\* the last update, not again when the containers change.
onReportMonitoredPackages(m, found) ==
  /\ monitoredPackages' = [monitoredPackages EXCEPT ![m] = Wrapped(packageContainersCache, found)]
  /\ triggerUpdatedExpectedPackages
  /\ UNCHANGED <<packages, packageContainers, activeRundowns, settings, externalData,
                 packageContainersCache, given>>

-----------------------------------------------------------------------------
(* The update *)

AllContainers == externalData.containers \cup packageContainers

\* The packages of the external data, of Core and of the monitors
AllPackages ==
  externalData.packages \o packages
    \o FlattenSeq([i \in 1 .. Cardinality(Monitors) |-> monitoredPackages[SetToSeq(Monitors)[i]]])

\* Every container is expected to be there, the writeable ones to be cleaned up.
ensureMandatoryPackageContainerExpectations(containers, expectations) ==
  [c \in containers |->
     IF c \in DOMAIN expectations
       THEN [expectations[c] EXCEPT !.cleanup = @ \/ c \in Writeable]
       ELSE [cleanup |-> c \in Writeable, monitor |-> FALSE]]

Generated ==
  [expectations |-> getExpectations(AllPackages, AllContainers, activeRundowns, settings),
   containers |-> ensureMandatoryPackageContainerExpectations(AllContainers,
                    getPackageContainerExpectations(AllContainers))]

DataIsThere == packageContainers # None /\ activeRundowns # None

\* The timer: handleExpectedPackages, unless a collection of Core is not there.
UpdateExpectedPackages ==
  /\ timer /\ timer' = FALSE
  /\ IF DataIsThere
       THEN given' = Generated /\ packageContainersCache' = AllContainers
       ELSE UNCHANGED <<given, packageContainersCache>>
  /\ UNCHANGED data

-----------------------------------------------------------------------------
Settings == [skipDeepScan : BOOLEAN]

\* Core may have some data when the Package Manager starts, and none of a kind.
Init ==
  /\ packages \in Lists(CorePackages)
  /\ packageContainers \in (SUBSET Containers) \cup {None}
  /\ activeRundowns \in Rundowns \cup {None}
  /\ settings = [skipDeepScan |-> FALSE]
  /\ externalData = [containers |-> {}, packages |-> <<>>]
  /\ monitoredPackages = [m \in Monitors |-> <<>>]
  /\ packageContainersCache = {} /\ timer = TRUE
  /\ given = [expectations |-> {}, containers |-> [c \in {} |-> None]]

Next ==
  \/ CoreChanges
  \/ \E s \in Settings \ {settings} : onSettingsChanged(s)
  \/ \E cs \in SUBSET Containers, found \in Lists(FoundPackages) : setExternalData(cs, found)
  \/ \E m \in Monitors, found \in Lists(FoundPackages) : onReportMonitoredPackages(m, found)
  \/ UpdateExpectedPackages

Spec == Init /\ [][Next]_vars

-----------------------------------------------------------------------------
(* Properties *)

WrappedPackages ==
  {wrapExpectedPackage(cs, p) : cs \in SUBSET Containers, p \in FoundPackages} \ {None}

TypeOK ==
  /\ packages \in Seq(CorePackages)
  /\ packageContainers = None \/ packageContainers \subseteq Containers
  /\ activeRundowns \in Rundowns \cup {None}
  /\ settings \in Settings
  /\ externalData \in [containers : SUBSET Containers, packages : Seq(WrappedPackages)]
  /\ monitoredPackages \in [Monitors -> Seq(WrappedPackages)]
  /\ packageContainersCache \subseteq Containers
  /\ timer \in BOOLEAN
  /\ DOMAIN given.containers \subseteq Containers

(* The expectation manager is up to date: when no update is scheduled, it has been given  *)
(* what follows from the data of now.  (Every source of data has to schedule the update.) *)
GivenIsCurrent == (~timer /\ DataIsThere) => given = Generated

Expectations == given.expectations

(* No expectation waits for one that does not exist, and there is one for each id.        *)
DependenciesAreGenerated ==
  /\ \A e \in Expectations : \A id \in e.dependsOn : \E f \in Expectations : f.id = id
  /\ \A e, f \in Expectations : e.id = f.id => e = f

(* No expectation is more urgent than the one it depends on (it could not start earlier). *)
DependentsComeLater ==
  \A e, f \in Expectations : f.id \in e.dependsOn => e.priority >= f.priority

\* There is an expectation for the package, as urgent as it is -- or one for another content
\* in the same place, which came first.
HasExpectation(c) ==
  \E e \in Expectations :
    /\ e.id = c.exp.id
    /\ e.priority <= getPriority(activeRundowns, c.package, c.exp)
    /\ \/ c.exp.from[1] \in Range(e.from)
       \/ e.from[1].hash # c.package.hash

(* Every package with an accessor is expected, and every smartbull: it is copied, verified *)
(* or rendered, however many packages there are for the same place.                       *)
EveryPackageIsExpected ==
  (~timer /\ DataIsThere) =>
    /\ \A p \in Range(AllPackages) :
         ~shouldBeIgnored(p) /\ p.accessors =>
           HasExpectation([package |-> p, exp |-> BasicExpectation(p)])
    /\ \A c \in Range(Candidates(AllPackages)) : HasExpectation(c)

(* A package has each side effect once, however many places it is copied to.              *)
SideEffectsOnce ==
  \A e, f \in Expectations :
    (e.type = f.type /\ e.dependsOn # {} /\ Range(e.from) \cap Range(f.from) # {}) => e = f

(* The expectations that the expectation manager has been given fit together.             *)
PackageManagerInv ==
  TypeOK /\ DependenciesAreGenerated /\ DependentsComeLater /\ SideEffectsOnce
=============================================================================
