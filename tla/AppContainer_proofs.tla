------------------------ MODULE AppContainer_proofs ------------------------
(***************************************************************************)
(* Proofs about AppContainer: every variable keeps its type, and an app    *)
(* that works is only stopped while enough others of its type are left;    *)
(* and about its DataStore, which implements AtomicUpdates, for any number *)
(* of keys, clients and requests.                                          *)
(***************************************************************************)
EXTENDS AppContainer, DataStore, FiniteSetTheorems, SequenceTheorems, WellFoundedInduction, TLAPS

-----------------------------------------------------------------------------
(* Sequences *)

\* What FlattenSeq computes with: the parts up to each place put together.
Flattened(f, seqs, n) ==
  f = [i \in 1 .. n |-> IF i = 1 THEN seqs[i] ELSE f[i - 1] \o seqs[i]]

\* The parts can be put together up to the next place.
LEMMA FlattenedNext ==
  ASSUME NEW seqs, NEW n \in Nat, NEW f, Flattened(f, seqs, n)
  PROVE  \E g : Flattened(g, seqs, n + 1)
<1> DEFINE g == [i \in 1 .. (n + 1) |->
                   IF i = 1 THEN seqs[i] ELSE f[i - 1] \o seqs[i]]
<1>1. ASSUME NEW i \in 1 .. (n + 1), i # 1
      PROVE  g[i - 1] = f[i - 1]
  <2>1. i - 1 \in 1 .. n /\ i - 1 \in 1 .. (n + 1)
    BY <1>1
  <2>2. f[i - 1] = IF i - 1 = 1 THEN seqs[i - 1] ELSE f[(i - 1) - 1] \o seqs[i - 1]
    BY <2>1 DEF Flattened
  <2> QED BY <2>1, <2>2
<1>2. g = [i \in 1 .. (n + 1) |-> IF i = 1 THEN seqs[i] ELSE g[i - 1] \o seqs[i]]
  <2>1. ASSUME NEW i \in 1 .. (n + 1)
        PROVE  g[i] = IF i = 1 THEN seqs[i] ELSE g[i - 1] \o seqs[i]
    BY <1>1, <2>1
  <2> QED BY <2>1
<1> QED BY <1>2 DEF Flattened

\* The parts can be put together.
LEMMA FlattenedExists ==
  ASSUME NEW seqs, NEW n \in Nat
  PROVE  \E f : Flattened(f, seqs, n)
<1> DEFINE Bad == {k \in Nat : ~ \E f : Flattened(f, seqs, k)}
<1> SUFFICES ASSUME Bad # {} PROVE FALSE
  OBVIOUS
<1>1. PICK k \in Bad : \A m \in Bad : <<m, k>> \notin OpToRel(<, Nat)
  BY NatLessThanWellFounded, WFMin
<1>2. CASE k = 0
  <2>1. Flattened([i \in {} |-> 0], seqs, 0)
    BY DEF Flattened
  <2> QED BY <1>2, <2>1
<1>3. CASE k # 0
  <2>1. k - 1 \in Nat /\ k - 1 < k /\ (k - 1) + 1 = k
    BY <1>3
  <2>2. <<k - 1, k>> \in OpToRel(<, Nat)
    BY <2>1 DEF OpToRel
  <2>3. \E f : Flattened(f, seqs, k - 1)
    BY <1>1, <2>1, <2>2
  <2> QED BY <2>1, <2>3, FlattenedNext
<1> QED BY <1>2, <1>3

\* Together, the parts are a sequence of what the parts are sequences of.
LEMMA FlattenSeqType ==
  ASSUME NEW S, NEW seqs \in Seq(Seq(S))
  PROVE  FlattenSeq(seqs) \in Seq(S)
<1>1. CASE Len(seqs) = 0
  <2>1. seqs = <<>>
    BY <1>1, EmptySeq
  <2> QED BY <1>1, <2>1 DEF FlattenSeq
<1>2. CASE Len(seqs) # 0
  <2> DEFINE n == Len(seqs)
             f == CHOOSE f : Flattened(f, seqs, n)
             Bad == {k \in 1 .. n : f[k] \notin Seq(S)}
  <2>1. n \in Nat /\ n # 0
    BY <1>2
  <2>2. Flattened(f, seqs, n)
    BY <2>1, FlattenedExists
  <2>3. FlattenSeq(seqs) = f[n]
    BY <1>2 DEF FlattenSeq, Flattened
  <2> HIDE DEF f
  <2>4. ASSUME Bad # {} PROVE FALSE
    <3>1. PICK k \in Bad : \A m \in Bad : <<m, k>> \notin OpToRel(<, Nat)
      <4>1. Bad \subseteq Nat
        BY <2>1
      <4> QED BY <2>4, <4>1, NatLessThanWellFounded, WFMin
    <3>2. f[k] = IF k = 1 THEN seqs[k] ELSE f[k - 1] \o seqs[k]
      BY <2>2 DEF Flattened
    <3>3. seqs[k] \in Seq(S)
      BY ElementOfSeq
    <3>4. k # 1
      BY <3>2, <3>3
    <3>5. k - 1 \in 1 .. n /\ <<k - 1, k>> \in OpToRel(<, Nat)
      BY <2>1, <3>4 DEF OpToRel
    <3>6. f[k - 1] \in Seq(S)
      BY <3>1, <3>5
    <3>7. f[k - 1] \o seqs[k] \in Seq(S)
      BY <3>3, <3>6
    <3> QED BY <3>2, <3>4, <3>7
  <2> QED BY <2>1, <2>3, <2>4
<1> QED BY <1>1, <1>2

-----------------------------------------------------------------------------
(* Apps *)

\* A map of apps with ids below n.
Apps(m, n) ==
  /\ DOMAIN m \subseteq AppIds
  /\ m \in [DOMAIN m -> RunningAppInfo]
  /\ \A a \in DOMAIN m : a < n

\* The apps of a type can be counted.
LEMMA AppsAreCounted ==
  ASSUME NEW m, DOMAIN m \subseteq AppIds, NEW t
  PROVE  /\ IsFiniteSet(AutoScalingApps(m, t))
         /\ getAutoScalingAppCount(m, t) \in Nat
         /\ getCriticalExpectationAppCount(m, t) \in Nat
<1>1. MaxAppId \in Int
  BY AppsAssumption
<1>2. IsFiniteSet(AppIds)
  BY <1>1, FS_Interval DEF AppIds
<1>3. /\ AutoScalingApps(m, t) \in SUBSET AppIds
      /\ CriticalApps(m, t) \in SUBSET AppIds
  BY DEF AutoScalingApps, CriticalApps
<1>4. IsFiniteSet(AutoScalingApps(m, t)) /\ IsFiniteSet(CriticalApps(m, t))
  BY <1>2, <1>3, FS_Subset
<1> QED BY <1>4, FS_CardinalityType DEF getAutoScalingAppCount, getCriticalExpectationAppCount

LEMMA FunctionIsSeq ==
  ASSUME NEW S, NEW n \in Nat, NEW f \in [1 .. n -> S]
  PROVE  f \in Seq(S)
OBVIOUS

LEMMA OneIsASeq ==
  ASSUME NEW S, NEW x \in S
  PROVE  <<x>> \in Seq(S) /\ Len(<<x>>) = 1
OBVIOUS

LEMMA SeveralType ==
  ASSUME NEW S, NEW x \in S, NEW n \in Nat, NEW min \in Nat
  PROVE  Several(Missing(n, min), x) \in Seq(S)
<1>1. Missing(n, min) \in Nat
  BY DEF Missing
<1> HIDE DEF Missing
<1> QED BY <1>1, FunctionIsSeq DEF Several

LEMMA NewAppType ==
  ASSUME NEW t \in TypeNames, NEW isAuto \in BOOLEAN
  PROVE  NewApp(t, isAuto) \in RunningAppInfo
BY DEF NewApp, RunningAppInfo

LEMMA TypeOfPlace ==
  ASSUME NEW i \in DOMAIN AppTypes
  PROVE  AppTypes[i] \in TypeNames
BY DEF TypeNames

\* What is started to reach the minimum are apps.
LEMMA SpinUpMinimumType ==
  ASSUME NEW m, DOMAIN m \subseteq AppIds
  PROVE  spinUpMinimumApps(m) \in Seq(RunningAppInfo)
<1> DEFINE critical ==
             [i \in DOMAIN AppTypes |->
                IF AppTypes[i] \notin CriticalTypes THEN <<>>
                ELSE Several(Missing(getCriticalExpectationAppCount(m, AppTypes[i]), MinCriticalApps),
                             NewApp(AppTypes[i], FALSE))]
           scaling ==
             [i \in DOMAIN AppTypes |->
                Several(Missing(getAutoScalingAppCount(m, AppTypes[i]), MinRunningApps),
                        NewApp(AppTypes[i], TRUE))]
<1>1. Len(AppTypes) \in Nat /\ DOMAIN AppTypes = 1 .. Len(AppTypes)
  BY AppsAssumption
<1>2. \A i \in DOMAIN AppTypes : critical[i] \in Seq(RunningAppInfo)
  <2> TAKE i \in DOMAIN AppTypes
  <2>1. <<>> \in Seq(RunningAppInfo)
    OBVIOUS
  <2>2. NewApp(AppTypes[i], FALSE) \in RunningAppInfo
    BY NewAppType, TypeOfPlace
  <2>3. Several(Missing(getCriticalExpectationAppCount(m, AppTypes[i]), MinCriticalApps),
                NewApp(AppTypes[i], FALSE)) \in Seq(RunningAppInfo)
    BY <2>2, SeveralType, AppsAreCounted, AppsAssumption
  <2> QED BY <2>1, <2>3
<1>3. \A i \in DOMAIN AppTypes : scaling[i] \in Seq(RunningAppInfo)
  <2> TAKE i \in DOMAIN AppTypes
  <2>1. NewApp(AppTypes[i], TRUE) \in RunningAppInfo
    BY NewAppType, TypeOfPlace
  <2>2. Several(Missing(getAutoScalingAppCount(m, AppTypes[i]), MinRunningApps),
                NewApp(AppTypes[i], TRUE)) \in Seq(RunningAppInfo)
    BY <2>1, SeveralType, AppsAreCounted, AppsAssumption
  <2> QED BY <2>2
<1>4. critical \in Seq(Seq(RunningAppInfo))
  BY <1>1, <1>2, FunctionIsSeq
<1>5. scaling \in Seq(Seq(RunningAppInfo))
  BY <1>1, <1>3, FunctionIsSeq
<1>6. FlattenSeq(critical) \in Seq(RunningAppInfo) /\ FlattenSeq(scaling) \in Seq(RunningAppInfo)
  BY <1>4, <1>5, FlattenSeqType
<1>7. spinUpMinimumApps(m) = FlattenSeq(critical) \o FlattenSeq(scaling)
  BY DEF spinUpMinimumApps
<1> HIDE DEF critical, scaling
<1> QED BY <1>6, <1>7

\* New apps under the next ids.
LEMMA WithType ==
  ASSUME nextId \in Nat \ {0}, NEW m, Apps(m, nextId), NEW new \in Seq(RunningAppInfo),
         nextId + Len(new) <= MaxAppId + 1
  PROVE  /\ Apps(With(m, new), nextId + Len(new))
         /\ DOMAIN m \subseteq DOMAIN With(m, new)
<1> DEFINE ids == nextId .. (nextId + Len(new) - 1)
<1>1. Len(new) \in Nat /\ MaxAppId \in Nat
  BY AppsAssumption
<1>2. DOMAIN With(m, new) = (DOMAIN m) \cup ids
  BY DEF With
<1>3. ids \subseteq AppIds
  BY <1>1 DEF AppIds
<1>4. \A a \in ids : a < nextId + Len(new)
  BY <1>1
<1>5. \A a \in DOMAIN m : a < nextId + Len(new)
  BY <1>1 DEF Apps, AppIds
<1>6. ASSUME NEW a \in (DOMAIN m) \cup ids
      PROVE  With(m, new)[a] \in RunningAppInfo
  <2>1. CASE a \in DOMAIN m
    BY <2>1 DEF With, Apps
  <2>2. CASE a \notin DOMAIN m
    <3>1. a \in ids /\ a - nextId + 1 \in 1 .. Len(new)
      BY <2>2, <1>1
    <3>2. new[a - nextId + 1] \in RunningAppInfo
      BY <3>1, ElementOfSeq
    <3> QED BY <2>2, <3>2 DEF With
  <2> QED BY <2>1, <2>2
<1>7. With(m, new) \in [(DOMAIN m) \cup ids -> RunningAppInfo]
  <2>1. With(m, new) = [a \in (DOMAIN m) \cup ids |-> With(m, new)[a]]
    BY DEF With
  <2> HIDE DEF ids
  <2> QED BY <1>6, <2>1
<1> QED BY <1>2, <1>3, <1>4, <1>5, <1>7 DEF Apps

LEMMA WithoutType ==
  ASSUME TypeOK, NEW S
  PROVE  Apps(Without(S), nextId) /\ DOMAIN Without(S) = Tracked \ S
BY DEF TypeOK, Apps, Without, Tracked

\* One more app.
LEMMA SpinUpType ==
  ASSUME TypeOK, NEW t \in TypeNames, _spinUp(t)
  PROVE  /\ Apps(apps', nextId') /\ Tracked \subseteq Tracked'
         /\ nextId' \in 1 .. (MaxAppId + 1) /\ nextId' = nextId + 1
         /\ nextId \in 0 .. MaxAppId
<1> DEFINE new == <<NewApp(t, TRUE)>>
<1>1. new \in Seq(RunningAppInfo) /\ Len(new) = 1
  <2>1. NewApp(t, TRUE) \in RunningAppInfo
    BY NewAppType
  <2> QED BY <2>1, OneIsASeq
<1>2. /\ nextId \in Nat \ {0} /\ nextId <= MaxAppId /\ nextId' = nextId + 1
      /\ MaxAppId \in Nat
  BY AppsAssumption DEF _spinUp, TypeOK
<1>3. Apps(apps, nextId)
  BY DEF TypeOK, Apps, Tracked
<1>4. apps' = With(apps, new)
  BY DEF _spinUp
<1> HIDE DEF new
<1>6. nextId + Len(new) = nextId + 1 /\ nextId + Len(new) <= MaxAppId + 1
  BY <1>1, <1>2
<1>7. Apps(With(apps, new), nextId + Len(new)) /\ DOMAIN apps \subseteq DOMAIN With(apps, new)
  BY <1>1, <1>2, <1>3, <1>6, WithType
<1>5. Apps(With(apps, new), nextId + 1) /\ DOMAIN apps \subseteq DOMAIN With(apps, new)
  BY <1>6, <1>7
<1> QED BY <1>2, <1>4, <1>5 DEF Tracked
-----------------------------------------------------------------------------
(* Steps *)

\* Apps are only stopped, while the AppContainer runs, when they may be.
Needed(a) ==
  /\ apps[a].auto
  /\ getAutoScalingAppCount(apps', apps[a].type) >= MinRunningApps
NeededStay ==
  \A a \in AppIds :
    (a \in Tracked /\ Healthy(a) /\ a \notin DOMAIN apps' /\ ~closed') => Needed(a)

LEMMA NothingIsStopped ==
  ASSUME Tracked \subseteq Tracked'
  PROVE  NeededStay
BY DEF NeededStay, Tracked

\* The invariant, from the parts that the steps change.
LEMMA Together ==
  ASSUME Apps(apps', nextId'), nextId' \in 1 .. (MaxAppId + 1),
         \A a \in stray' \cup orphans' \cup conns' : a < nextId',
         stray' \subseteq AppIds, orphans' \subseteq AppIds, conns' \subseteq AppIds,
         requests' \in [Requests -> RequestStates], closed' \in BOOLEAN,
         faults' \in 0 .. MaxFaults, RequestsAreOfAType'
  PROVE  IInv'
BY DEF IInv, TypeOK, Apps, Tracked, AppIds

LEMMA FaultType ==
  ASSUME TypeOK, Fault
  PROVE  faults' \in 0 .. MaxFaults
BY AppsAssumption DEF TypeOK, Fault

\* Steps that change what is known of one app.
LEMMA OneAppStep ==
  ASSUME IInv, NEW a \in Tracked,
         \/ ProcessExit(a) \/ SpawnError(a) \/ Restart(a) \/ WorkerConnects(a)
         \/ PingOverdue(a) \/ ping(a) \/ LifetimePasses(a) \/ WorkerIsSick(a)
  PROVE  IInv' /\ NeededStay
<1> DEFINE Changed == /\ apps' \in [Tracked -> RunningAppInfo]
                      /\ UNCHANGED <<nextId, stray, orphans, requests, closed>>
                      /\ conns' \subseteq conns \cup {a}
                      /\ (faults' = faults \/ Fault)
<1>0. apps \in [Tracked -> RunningAppInfo] /\ a \in Tracked
  BY DEF IInv, TypeOK
<1>1. ASSUME ProcessExit(a)
      PROVE  Changed
  BY ZenonT(30), <1>0, <1>1 DEF ProcessExit, RunningAppInfo
<1>2. ASSUME SpawnError(a)
      PROVE  Changed
  BY <1>0, <1>2 DEF SpawnError, RunningAppInfo
<1>3. ASSUME Restart(a)
      PROVE  Changed
  BY <1>0, <1>3 DEF Restart, RunningAppInfo
<1>4. ASSUME WorkerConnects(a)
      PROVE  Changed
  <2> DEFINE app == [apps[a] EXCEPT !.connected = TRUE, !.monitorPing = TRUE, !.health = "ok"]
  <2>1. apps[a] \in RunningAppInfo
    BY <1>0
  <2>2. app \in RunningAppInfo
    BY <2>1 DEF RunningAppInfo
  <2>3. apps' = [apps EXCEPT ![a] = app]
    BY <1>0, <1>4 DEF WorkerConnects
  <2> HIDE DEF app
  <2>4. apps' \in [Tracked -> RunningAppInfo]
    BY <1>0, <2>2, <2>3
  <2> QED BY <1>4, <2>4 DEF WorkerConnects
<1>5. ASSUME PingOverdue(a)
      PROVE  Changed
  BY <1>0, <1>5 DEF PingOverdue, RunningAppInfo
<1>6. ASSUME ping(a)
      PROVE  Changed
  BY <1>0, <1>6 DEF ping, RunningAppInfo
<1>7. ASSUME LifetimePasses(a)
      PROVE  Changed
  BY <1>0, <1>7 DEF LifetimePasses, RunningAppInfo
<1>8. ASSUME WorkerIsSick(a)
      PROVE  Changed
  BY <1>0, <1>8 DEF WorkerIsSick, RunningAppInfo
<1>9. Changed
  BY <1>1, <1>2, <1>3, <1>4, <1>5, <1>6, <1>7, <1>8
<1>10. Tracked' = Tracked
  BY <1>9 DEF Tracked
<1>11. Apps(apps', nextId')
  BY <1>9, <1>10 DEF IInv, TypeOK, Apps, Tracked
<1>12. a < nextId /\ a \in AppIds
  BY DEF IInv, TypeOK
<1>13. faults' \in 0 .. MaxFaults
  BY <1>9, FaultType DEF IInv, TypeOK
<1>14. RequestsAreOfAType'
  BY <1>9 DEF IInv, RequestsAreOfAType
<1>15. IInv'
  BY <1>9, <1>11, <1>12, <1>13, <1>14, Together DEF IInv, TypeOK
<1> QED BY <1>10, <1>15, NothingIsStopped

\* Steps of connections and of processes that belong to nobody.
LEMMA OtherProcessStep ==
  ASSUME IInv, NEW a,
         \/ a \in conns /\ ConnectionClosed(a)
         \/ a \in stray /\ StrayRestart(a)
         \/ a \in orphans /\ OrphanExit(a)
  PROVE  IInv' /\ NeededStay
<1> DEFINE Changed == /\ apps' \in [Tracked -> RunningAppInfo]
                      /\ UNCHANGED <<nextId, requests, closed>>
                      /\ stray' \subseteq stray /\ conns' \subseteq conns
                      /\ orphans' \subseteq orphans \cup {a}
                      /\ (faults' = faults \/ Fault)
<1>0. apps \in [Tracked -> RunningAppInfo]
  BY DEF IInv, TypeOK
<1>1. ASSUME ConnectionClosed(a)
      PROVE  Changed
  <2>1. CASE a \in Tracked
    BY ZenonT(30), <1>0, <1>1, <2>1 DEF ConnectionClosed, RunningAppInfo
  <2>2. CASE a \notin Tracked
    BY <1>0, <1>1, <2>2 DEF ConnectionClosed
  <2> QED BY <2>1, <2>2
<1>2. ASSUME StrayRestart(a)
      PROVE  Changed
  BY <1>0, <1>2 DEF StrayRestart
<1>3. ASSUME OrphanExit(a)
      PROVE  Changed
  BY <1>0, <1>3 DEF OrphanExit
<1>4. Changed
  BY <1>1, <1>2, <1>3
<1>5. Tracked' = Tracked
  BY <1>4 DEF Tracked
<1>6. Apps(apps', nextId')
  BY <1>4, <1>5 DEF IInv, TypeOK, Apps, Tracked
<1>7. a < nextId /\ a \in AppIds
  BY DEF IInv, TypeOK
<1>8. faults' \in 0 .. MaxFaults
  BY <1>4, FaultType DEF IInv, TypeOK
<1>9. RequestsAreOfAType'
  BY <1>4 DEF IInv, RequestsAreOfAType
<1>10. IInv'
  BY <1>4, <1>6, <1>7, <1>8, <1>9, Together DEF IInv, TypeOK
<1> QED BY <1>5, <1>10, NothingIsStopped

\* An app stopped at its own request: what is left of its type is one less.
LEMMA SpinDownStep ==
  ASSUME IInv, NEW a \in Tracked, requestSpinDownForced(a) \/ requestSpinDown(a)
  PROVE  IInv' /\ NeededStay
<1>1. /\ spinDown({a})
      /\ UNCHANGED <<nextId, orphans, conns, requests, closed, faults>>
  BY DEF requestSpinDownForced, requestSpinDown
<1>2. apps' = Without({a}) /\ stray' \subseteq stray \cup {a}
  BY <1>1 DEF spinDown
<1>3. Apps(apps', nextId') /\ DOMAIN apps' = Tracked \ {a}
  BY <1>1, <1>2, WithoutType DEF IInv
<1>4. IInv'
  <2>1. a < nextId /\ a \in AppIds
    BY DEF IInv, TypeOK
  <2>2. RequestsAreOfAType'
    BY <1>1 DEF IInv, RequestsAreOfAType
  <2> QED BY <1>1, <1>2, <1>3, <2>1, <2>2, Together DEF IInv, TypeOK
<1>5. ASSUME NEW b \in AppIds, b \in Tracked, Healthy(b), b \notin DOMAIN apps'
      PROVE  Needed(b)
  <2>1. b = a
    BY <1>3, <1>5
  <2>2. requestSpinDown(a)
    BY <1>5, <2>1 DEF requestSpinDownForced, Healthy
  <2> DEFINE t == apps[a].type
             before == AutoScalingApps(apps, t)
             after == AutoScalingApps(apps', t)
  <2>3. apps[a].auto /\ Cardinality(before) > MinRunningApps
    BY <2>2 DEF requestSpinDown, getAutoScalingAppCount
  <2>4. a \in before
    BY <2>3 DEF AutoScalingApps, Tracked
  <2>5. \A c \in Tracked \ {a} : apps'[c] = apps[c]
    BY <1>2 DEF Without
  <2>6. after = before \ {a}
    BY <1>3, <2>5 DEF AutoScalingApps, Tracked
  <2>7. IsFiniteSet(before) /\ Cardinality(before) \in Nat
    BY AppsAreCounted DEF IInv, TypeOK, Tracked, getAutoScalingAppCount
  <2>8. Cardinality(after) = Cardinality(before) - 1
    BY ZenonT(30), <2>4, <2>6, <2>7, FS_RemoveElement
  <2> HIDE DEF t, before, after
  <2>9. Cardinality(after) >= MinRunningApps
    BY <2>3, <2>7, <2>8, AppsAssumption
  <2> QED BY <2>1, <2>3, <2>9 DEF Needed, getAutoScalingAppCount, t, after
<1> QED BY <1>4, <1>5 DEF NeededStay

\* The interval: what works is not stopped by it.
LEMMA MonitorStep ==
  ASSUME IInv, monitorApps
  PROVE  IInv' /\ NeededStay
<1> DEFINE dead == {a \in Tracked : TooSilent(a) \/ TooOld(a)}
           left == Without(dead)
           new == spinUpMinimumApps(left)
<1>1. /\ nextId + Len(new) <= MaxAppId + 1
      /\ nextId' = nextId + Len(new)
      /\ apps' = With(left, new)
      /\ stray' \subseteq stray \cup Tracked
      /\ UNCHANGED <<orphans, conns, requests, closed, faults>>
  BY DEF monitorApps
<1>2. Apps(left, nextId) /\ DOMAIN left = Tracked \ dead
  BY WithoutType DEF IInv
<1>3. \A a \in Tracked : Healthy(a) => a \notin dead
  BY DEF Healthy, TooSilent, TooOld
<1> HIDE DEF dead, left
<1>4. new \in Seq(RunningAppInfo) /\ Len(new) \in Nat
  BY <1>2, SpinUpMinimumType DEF Apps
<1> HIDE DEF new
<1>5. nextId \in Nat \ {0} /\ nextId \in 1 .. (MaxAppId + 1) /\ MaxAppId \in Nat
  BY AppsAssumption DEF IInv, TypeOK
<1>6. Apps(apps', nextId') /\ DOMAIN left \subseteq DOMAIN apps'
  BY <1>1, <1>2, <1>4, <1>5, WithType
<1>7. nextId' \in 1 .. (MaxAppId + 1) /\ nextId <= nextId'
  BY <1>1, <1>4, <1>5
<1>8. \A a \in stray \cup Tracked \cup orphans \cup conns : a \in AppIds /\ a < nextId'
  BY <1>5, <1>7 DEF IInv, TypeOK, AppIds
<1>9. RequestsAreOfAType'
  BY <1>1 DEF IInv, RequestsAreOfAType
<1>10. IInv'
  BY <1>1, <1>6, <1>7, <1>8, <1>9, Together DEF IInv, TypeOK
<1>11. NeededStay
  BY <1>2, <1>3, <1>6 DEF NeededStay
<1> QED BY <1>10, <1>11
-----------------------------------------------------------------------------
(* Requests for resources *)

\* A request's next state, when it is about a type.
LEMMA SetType ==
  ASSUME IInv, NEW r \in Requests,
         NEW pc \in {"idle", "waiting", "asking", "unavailable", "proposed", "refused", "failed", "done"},
         NEW todo \in 0 .. Len(AppTypes), NEW app \in 0 .. MaxAppId, Set(r, pc, todo, app),
         pc \in {"waiting", "asking", "unavailable", "proposed"} => todo \in DOMAIN AppTypes
  PROVE  requests' \in [Requests -> RequestStates] /\ RequestsAreOfAType'
<1>1. /\ requests \in [Requests -> RequestStates]
      /\ requests' = [requests EXCEPT ![r] = [pc |-> pc, todo |-> todo, app |-> app]]
  BY DEF IInv, TypeOK, Set
<1>2. [pc |-> pc, todo |-> todo, app |-> app] \in RequestStates
  BY DEF RequestStates
<1>3. requests' \in [Requests -> RequestStates]
  BY <1>1, <1>2
<1>4. ASSUME NEW q \in Requests,
             requests'[q].pc \in {"waiting", "asking", "unavailable", "proposed"}
      PROVE  requests'[q].todo \in DOMAIN AppTypes
  <2>1. CASE q = r
    BY <1>1, <1>4, <2>1
  <2>2. CASE q # r
    BY <1>1, <1>4, <2>2 DEF IInv, RequestsAreOfAType
  <2> QED BY <2>1, <2>2
<1> QED BY <1>3, <1>4 DEF RequestsAreOfAType

LEMMA AskType ==
  ASSUME IInv, NEW r \in Requests, NEW i \in DOMAIN AppTypes, NEW a \in Tracked, Ask(r, i, a)
  PROVE  requests' \in [Requests -> RequestStates] /\ RequestsAreOfAType'
<1>1. i \in 0 .. Len(AppTypes) /\ a \in 0 .. MaxAppId
  BY AppsAssumption DEF IInv, TypeOK, AppIds
<1>2. Set(r, IF apps[a].connected THEN "asking" ELSE "unavailable", i, a)
  BY DEF Ask
<1>3. CASE apps[a].connected
  <2>1. Set(r, "asking", i, a)
    BY <1>2, <1>3
  <2> QED BY <1>1, <2>1, SetType
<1>4. CASE ~apps[a].connected
  <2>1. Set(r, "unavailable", i, a)
    BY <1>2, <1>4
  <2> QED BY <1>1, <2>1, SetType
<1> QED BY <1>3, <1>4

\* What a request does to the apps: nothing, or one is started.
Grown ==
  /\ Apps(apps', nextId') /\ Tracked \subseteq Tracked'
  /\ nextId' \in 1 .. (MaxAppId + 1) /\ nextId <= nextId'
  /\ requests' \in [Requests -> RequestStates] /\ RequestsAreOfAType'

LEMMA SameAppsGrown ==
  ASSUME IInv, UNCHANGED <<apps, nextId>>,
         requests' \in [Requests -> RequestStates], RequestsAreOfAType'
  PROVE  Grown
BY DEF Grown, IInv, TypeOK, Apps, Tracked, AppIds

LEMMA GrownKeepsIInv ==
  ASSUME IInv, Grown, UNCHANGED <<stray, orphans, conns, closed, faults>>
  PROVE  IInv' /\ NeededStay
<1>1. nextId \in 1 .. (MaxAppId + 1) /\ nextId <= nextId' /\ nextId' \in 1 .. (MaxAppId + 1)
      /\ MaxAppId \in Nat
  BY AppsAssumption DEF Grown, IInv, TypeOK
<1>2. \A a \in stray \cup orphans \cup conns : a \in AppIds /\ a < nextId'
  BY <1>1 DEF IInv, TypeOK, AppIds
<1>3. IInv'
  BY <1>2, Together DEF Grown, IInv, TypeOK
<1> QED BY <1>3, NothingIsStopped DEF Grown

LEMMA NextTypeStep ==
  ASSUME IInv, NEW r \in Requests, NEW i \in Nat \ {0}, getRunningOrSpawnScalingApp(r, i)
  PROVE  Grown
<1>0. Len(AppTypes) \in Nat /\ DOMAIN AppTypes = 1 .. Len(AppTypes) /\ MaxAppId \in Nat
  BY AppsAssumption
<1>1. CASE i > Len(AppTypes)
  <2>1. Set(r, "refused", 0, 0) /\ UNCHANGED <<apps, nextId>>
    BY <1>1 DEF getRunningOrSpawnScalingApp
  <2>2. requests' \in [Requests -> RequestStates] /\ RequestsAreOfAType'
    BY <1>0, <2>1, SetType
  <2> QED BY <2>1, <2>2, SameAppsGrown
<1>2. CASE ~(i > Len(AppTypes))
  <2>1. i \in DOMAIN AppTypes
    BY <1>0, <1>2
  <2>2. \/ \E a \in AutoScalingApps(apps, AppTypes[i]) : Ask(r, i, a) /\ UNCHANGED <<apps, nextId>>
        \/ _spinUp(AppTypes[i]) /\ Set(r, "waiting", i, nextId)
    BY <1>2 DEF getRunningOrSpawnScalingApp
  <2>3. ASSUME NEW a \in AutoScalingApps(apps, AppTypes[i]), Ask(r, i, a), UNCHANGED <<apps, nextId>>
        PROVE  Grown
    <3>1. a \in Tracked
      BY DEF AutoScalingApps, Tracked
    <3>2. requests' \in [Requests -> RequestStates] /\ RequestsAreOfAType'
      BY <2>1, <2>3, <3>1, AskType
    <3> QED BY <2>3, <3>2, SameAppsGrown
  <2>4. ASSUME _spinUp(AppTypes[i]), Set(r, "waiting", i, nextId)
        PROVE  Grown
    <3>1. /\ Apps(apps', nextId') /\ Tracked \subseteq Tracked'
          /\ nextId' \in 1 .. (MaxAppId + 1) /\ nextId' = nextId + 1
          /\ nextId \in 0 .. MaxAppId
      BY <2>1, <2>4, SpinUpType, TypeOfPlace DEF IInv
    <3>2. requests' \in [Requests -> RequestStates] /\ RequestsAreOfAType'
      BY <1>0, <2>1, <2>4, <3>1, SetType
    <3>3. nextId <= nextId'
      BY <3>1
    <3> QED BY <3>1, <3>2, <3>3 DEF Grown
  <2> QED BY <2>2, <2>3, <2>4
<1> QED BY <1>1, <1>2

LEMMA RequestStep ==
  ASSUME IInv, NEW r \in Requests, RequestGoesOn(r)
  PROVE  IInv' /\ NeededStay
<1>0. Len(AppTypes) \in Nat /\ DOMAIN AppTypes = 1 .. Len(AppTypes) /\ MaxAppId \in Nat
  BY AppsAssumption
<1> DEFINE i == requests[r].todo
           a == requests[r].app
           Fixed == UNCHANGED <<stray, orphans, conns, closed, faults>>
           Over(pc) == Set(r, pc, 0, 0) /\ UNCHANGED <<apps, nextId>>
<1>1. ASSUME Over("refused") \/ Over("failed")
      PROVE  Grown
  <2>1. requests' \in [Requests -> RequestStates] /\ RequestsAreOfAType'
    BY <1>0, <1>1, SetType
  <2> QED BY <1>1, <2>1, SameAppsGrown
<1>2. ASSUME requests[r].pc \in {"waiting", "asking", "unavailable", "proposed"}
      PROVE  i \in DOMAIN AppTypes /\ i \in 0 .. Len(AppTypes)
  BY <1>0, <1>2 DEF IInv, RequestsAreOfAType
<1>3. ASSUME requestAppType(r)
      PROVE  Grown /\ Fixed
  BY <1>1, <1>3, NextTypeStep DEF requestAppType
<1>4. ASSUME AppWaitedFor(r)
      PROVE  Grown /\ Fixed
  <2>1. requests[r].pc = "waiting" /\ UNCHANGED <<apps, nextId>> /\ Fixed
    BY <1>4 DEF AppWaitedFor
  <2>2. CASE a \in Tracked
    <3>1. Ask(r, i, a)
      BY <1>4, <2>2 DEF AppWaitedFor
    <3>2. requests' \in [Requests -> RequestStates] /\ RequestsAreOfAType'
      BY <1>2, <2>1, <2>2, <3>1, AskType
    <3> QED BY <2>1, <3>2, SameAppsGrown
  <2>3. CASE a \notin Tracked
    BY <1>1, <1>4, <2>1, <2>3 DEF AppWaitedFor
  <2> QED BY <2>2, <2>3
<1>5. ASSUME AppAnswers(r)
      PROVE  Grown /\ Fixed
  <2>1. requests[r].pc \in {"asking", "unavailable"} /\ Fixed
    BY <1>5 DEF AppAnswers
  <2>2. i \in DOMAIN AppTypes /\ i + 1 \in Nat \ {0}
    BY <1>0, <1>2, <2>1
  <2>3. \/ Set(r, "proposed", i, 0) /\ UNCHANGED <<apps, nextId>>
        \/ getRunningOrSpawnScalingApp(r, i + 1)
    BY <1>5 DEF AppAnswers
  <2>4. ASSUME Set(r, "proposed", i, 0), UNCHANGED <<apps, nextId>>
        PROVE  Grown
    <3>1. requests' \in [Requests -> RequestStates] /\ RequestsAreOfAType'
      BY <1>0, <1>2, <2>1, <2>4, SetType
    <3> QED BY <2>4, <3>1, SameAppsGrown
  <2> QED BY <2>1, <2>2, <2>3, <2>4, NextTypeStep
<1>6. ASSUME AppDoesNotAnswer(r)
      PROVE  Grown /\ Fixed
  BY <1>1, <1>6 DEF AppDoesNotAnswer
<1>7. ASSUME spinUp(r)
      PROVE  Grown /\ Fixed
  <2>1. requests[r].pc = "proposed" /\ _spinUp(AppTypes[i]) /\ Set(r, "done", 0, 0) /\ Fixed
    BY <1>7 DEF spinUp
  <2>2. /\ Apps(apps', nextId') /\ Tracked \subseteq Tracked'
        /\ nextId' \in 1 .. (MaxAppId + 1) /\ nextId' = nextId + 1
        /\ nextId \in 0 .. MaxAppId
    BY <1>2, <2>1, SpinUpType, TypeOfPlace DEF IInv
  <2>3. requests' \in [Requests -> RequestStates] /\ RequestsAreOfAType'
    BY <1>0, <2>1, SetType
  <2>4. nextId <= nextId'
    BY <2>2
  <2> QED BY <2>1, <2>2, <2>3, <2>4 DEF Grown
<1> HIDE DEF Over
<1>8. Grown /\ Fixed
  BY <1>3, <1>4, <1>5, <1>6, <1>7 DEF RequestGoesOn
<1> QED BY <1>8, GrownKeepsIInv

-----------------------------------------------------------------------------
(* Theorems *)

LEMMA InitIInv == Init => IInv
<1> SUFFICES ASSUME Init PROVE IInv
  OBVIOUS
<1>1. DOMAIN apps = {} /\ apps \in [{} -> RunningAppInfo]
  BY DEF Init
<1>2. [pc |-> "idle", todo |-> 0, app |-> 0] \in RequestStates
  BY AppsAssumption DEF RequestStates
<1>3. requests \in [Requests -> RequestStates] /\ RequestsAreOfAType
  BY <1>2 DEF Init, RequestsAreOfAType
<1>4. apps \in [Tracked -> RunningAppInfo] /\ Tracked = {}
  BY <1>1 DEF Tracked
<1>5. nextId \in 1 .. (MaxAppId + 1) /\ faults \in 0 .. MaxFaults
  BY AppsAssumption DEF Init
<1>6. TypeOK
  BY <1>3, <1>4, <1>5 DEF Init, TypeOK
<1> QED BY <1>3, <1>6 DEF IInv

LEMMA NextStep ==
  ASSUME IInv, [Next]_vars
  PROVE  IInv' /\ NeededStay
<1>1. CASE UNCHANGED vars
  BY <1>1 DEF vars, IInv, TypeOK, RequestsAreOfAType, Tracked, NeededStay
<1>2. CASE monitorApps
  BY <1>2, MonitorStep
<1>3. CASE killAllApps
  <2>1. DOMAIN apps' = {} /\ apps' \in [{} -> RunningAppInfo]
    BY <1>3 DEF killAllApps
  <2>2. Apps(apps', nextId')
    BY <2>1 DEF Apps
  <2>3. faults' \in 0 .. MaxFaults
    BY <1>3, FaultType DEF killAllApps, IInv
  <2>4. RequestsAreOfAType'
    BY <1>3 DEF killAllApps, IInv, RequestsAreOfAType
  <2>5. IInv'
    BY <1>3, <2>2, <2>3, <2>4, Together DEF killAllApps, IInv, TypeOK
  <2> QED BY <1>3, <2>5 DEF killAllApps, NeededStay
<1>4. CASE \E a \in Tracked : TrackedApp(a)
  BY <1>4, OneAppStep, SpinDownStep DEF TrackedApp
<1>5. CASE \E a \in conns : ConnectionClosed(a)
  BY <1>5, OtherProcessStep
<1>6. CASE \E a \in stray : StrayRestart(a)
  BY <1>6, OtherProcessStep
<1>7. CASE \E a \in orphans : OrphanExit(a)
  BY <1>7, OtherProcessStep
<1>8. CASE \E r \in Requests : RequestGoesOn(r)
  BY <1>8, RequestStep
<1> QED BY <1>1, <1>2, <1>3, <1>4, <1>5, <1>6, <1>7, <1>8 DEF Next

LEMMA IInvHolds == Spec => []IInv
BY InitIInv, NextStep, PTL DEF Spec

\* Every variable keeps its type: ids of apps, of their processes and connections are below
\* the counter they are made from, so that an app that is started never takes the id of
\* another, for any types, limits and requests.
THEOREM IdsAreNew == Spec => []TypeOK
<1>1. IInv => TypeOK
  BY DEF IInv
<1> QED BY <1>1, IInvHolds, PTL

\* Workers that ask to be stopped, at whatever moment and in whatever number, do not take the
\* container below the minimum, the monitor stops none that works, and none that is kept for
\* critical Expectations is stopped for being idle: for any types, limits and requests.
THEOREM NeededAppsStay == Spec => HealthyAppIsNeeded
<1>1. ASSUME IInv, [Next]_vars
      PROVE  [NeededStay]_vars
  BY <1>1, NextStep
<1> QED BY <1>1, IInvHolds, PTL DEF Spec, HealthyAppIsNeeded, NeededStay, Needed

-----------------------------------------------------------------------------
(* The DataStore of the AppContainer (workerStorage) implements AtomicUpdates. *)

LEMMA EmptyQueue == <<>> \in Seq(Request) /\ DOMAIN <<>> = {}
  OBVIOUS

LEMMA InitInv == InitStore => StoreInv
<1> SUFFICES ASSUME InitStore PROVE StoreInv
  OBVIOUS
<1>1. claims \in [Key -> Seq(Request)] /\ \A k \in Key : DOMAIN claims[k] = {}
  BY EmptyQueue DEF InitStore
<1>2. StoreTypeOK
  BY <1>1 DEF InitStore, StoreTypeOK, States
<1>3. ClaimsAreWaiting
  BY <1>1 DEF ClaimsAreWaiting
<1>4. HolderHasBeenAnswered /\ HolderIsUpToDate
  BY DEF InitStore, HolderHasBeenAnswered, HolderIsUpToDate
<1> QED  BY <1>2, <1>3, <1>4 DEF StoreInv

LEMMA TriggerType == StoreTypeOK /\ TriggerHandleClaims /\ UNCHANGED terminated => scheduled' \in BOOLEAN
  BY DEF TriggerHandleClaims, StoreTypeOK

LEMMA WaitForAccessKeepsInv ==
  ASSUME StoreInv, NEW r \in Request, WaitForAccess(r)
  PROVE  StoreInv'
<1>1. StoreTypeOK'
  <2>1. /\ KeyOf[r] \in Key /\ claims[KeyOf[r]] \in Seq(Request)
        /\ Append(claims[KeyOf[r]], r) \in Seq(Request)
    BY DataStoreAssumption DEF StoreInv, StoreTypeOK
  <2>2. claims' \in [Key -> Seq(Request)]
    BY <2>1 DEF WaitForAccess, StoreInv, StoreTypeOK
  <2>3. scheduled' \in BOOLEAN
    BY TriggerType DEF WaitForAccess, StoreInv
  <2>4. state' \in [Request -> States]
    BY DEF WaitForAccess, Becomes, StoreInv, StoreTypeOK, States
  <2> QED  BY <2>2, <2>3, <2>4 DEF WaitForAccess, storageVars, lockVars, StoreInv, StoreTypeOK
<1>2. ClaimsAreWaiting'
  BY DataStoreAssumption
  DEF WaitForAccess, TriggerHandleClaims, Becomes, storageVars, lockVars, claimVars,
      clientVars, StoreInv, StoreTypeOK, ClaimsAreWaiting, HolderHasBeenAnswered, HolderIsUpToDate,
      States
<1>3. HolderHasBeenAnswered'
  BY DataStoreAssumption
  DEF WaitForAccess, TriggerHandleClaims, Becomes, storageVars, lockVars, claimVars,
      clientVars, StoreInv, StoreTypeOK, ClaimsAreWaiting, HolderHasBeenAnswered, HolderIsUpToDate,
      States
<1>4. HolderIsUpToDate'
  BY DataStoreAssumption
  DEF WaitForAccess, TriggerHandleClaims, Becomes, storageVars, lockVars, claimVars,
      clientVars, StoreInv, StoreTypeOK, ClaimsAreWaiting, HolderHasBeenAnswered, HolderIsUpToDate,
      States
<1> QED  BY <1>1, <1>2, <1>3, <1>4 DEF StoreInv

LEMMA ClaimExpiresKeepsInv ==
  ASSUME StoreInv, NEW r \in Request, ClaimExpires(r)
  PROVE  StoreInv'
<1>1. StoreTypeOK'
  BY DataStoreAssumption
  DEF ClaimExpires, storageVars, lockVars, claimVars, clientVars, StoreInv, StoreTypeOK,
      ClaimsAreWaiting, HolderHasBeenAnswered, HolderIsUpToDate, States
<1>2. ClaimsAreWaiting'
  BY DataStoreAssumption
  DEF ClaimExpires, storageVars, lockVars, claimVars, clientVars, StoreInv, StoreTypeOK,
      ClaimsAreWaiting, HolderHasBeenAnswered, HolderIsUpToDate, States
<1>3. HolderHasBeenAnswered'
  BY DataStoreAssumption
  DEF ClaimExpires, storageVars, lockVars, claimVars, clientVars, StoreInv, StoreTypeOK,
      ClaimsAreWaiting, HolderHasBeenAnswered, HolderIsUpToDate, States
<1>4. HolderIsUpToDate'
  BY DataStoreAssumption
  DEF ClaimExpires, storageVars, lockVars, claimVars, clientVars, StoreInv, StoreTypeOK,
      ClaimsAreWaiting, HolderHasBeenAnswered, HolderIsUpToDate, States
<1> QED  BY <1>1, <1>2, <1>3, <1>4 DEF StoreInv

LEMMA WriteKeepsInv ==
  ASSUME StoreInv, NEW r \in Request, Write(r)
  PROVE  StoreInv'
<1>1. StoreTypeOK'
  BY DataStoreAssumption
  DEF Write, TriggerHandleClaims, Becomes, Release, CanWrite, LockOf, storageVars, lockVars,
      claimVars, clientVars, StoreInv, StoreTypeOK, ClaimsAreWaiting, HolderHasBeenAnswered,
      HolderIsUpToDate, States
<1>2. ClaimsAreWaiting'
  BY DataStoreAssumption
  DEF Write, TriggerHandleClaims, Becomes, Release, CanWrite, LockOf, storageVars, lockVars,
      claimVars, clientVars, StoreInv, StoreTypeOK, ClaimsAreWaiting, HolderHasBeenAnswered,
      HolderIsUpToDate, States
<1>3. HolderHasBeenAnswered'
  BY DataStoreAssumption
  DEF Write, TriggerHandleClaims, Becomes, Release, CanWrite, LockOf, storageVars, lockVars,
      claimVars, clientVars, StoreInv, StoreTypeOK, ClaimsAreWaiting, HolderHasBeenAnswered,
      HolderIsUpToDate, States
<1>4. HolderIsUpToDate'
  BY DataStoreAssumption
  DEF Write, TriggerHandleClaims, Becomes, Release, CanWrite, LockOf, storageVars, lockVars,
      claimVars, clientVars, StoreInv, StoreTypeOK, ClaimsAreWaiting, HolderHasBeenAnswered,
      HolderIsUpToDate, States
<1> QED  BY <1>1, <1>2, <1>3, <1>4 DEF StoreInv

LEMMA WriteRefusedKeepsInv ==
  ASSUME StoreInv, NEW r \in Request, WriteRefused(r)
  PROVE  StoreInv'
<1>1. StoreTypeOK'
  BY DataStoreAssumption
  DEF WriteRefused, Becomes, storageVars, lockVars, claimVars, clientVars, StoreInv, StoreTypeOK,
      ClaimsAreWaiting, HolderHasBeenAnswered, HolderIsUpToDate, States
<1>2. ClaimsAreWaiting'
  BY DataStoreAssumption
  DEF WriteRefused, Becomes, storageVars, lockVars, claimVars, clientVars, StoreInv, StoreTypeOK,
      ClaimsAreWaiting, HolderHasBeenAnswered, HolderIsUpToDate, States
<1>3. HolderHasBeenAnswered'
  BY DataStoreAssumption
  DEF WriteRefused, Becomes, storageVars, lockVars, claimVars, clientVars, StoreInv, StoreTypeOK,
      ClaimsAreWaiting, HolderHasBeenAnswered, HolderIsUpToDate, States
<1>4. HolderIsUpToDate'
  BY DataStoreAssumption
  DEF WriteRefused, Becomes, storageVars, lockVars, claimVars, clientVars, StoreInv, StoreTypeOK,
      ClaimsAreWaiting, HolderHasBeenAnswered, HolderIsUpToDate, States
<1> QED  BY <1>1, <1>2, <1>3, <1>4 DEF StoreInv

LEMMA CallbackFailsKeepsInv ==
  ASSUME StoreInv, NEW r \in Request, CallbackFails(r)
  PROVE  StoreInv'
<1>1. StoreTypeOK'
  BY DataStoreAssumption
  DEF CallbackFails, Becomes, storageVars, lockVars, claimVars, clientVars, StoreInv, StoreTypeOK,
      ClaimsAreWaiting, HolderHasBeenAnswered, HolderIsUpToDate, States
<1>2. ClaimsAreWaiting'
  BY DataStoreAssumption
  DEF CallbackFails, Becomes, storageVars, lockVars, claimVars, clientVars, StoreInv, StoreTypeOK,
      ClaimsAreWaiting, HolderHasBeenAnswered, HolderIsUpToDate, States
<1>3. HolderHasBeenAnswered'
  BY DataStoreAssumption
  DEF CallbackFails, Becomes, storageVars, lockVars, claimVars, clientVars, StoreInv, StoreTypeOK,
      ClaimsAreWaiting, HolderHasBeenAnswered, HolderIsUpToDate, States
<1>4. HolderIsUpToDate'
  BY DataStoreAssumption
  DEF CallbackFails, Becomes, storageVars, lockVars, claimVars, clientVars, StoreInv, StoreTypeOK,
      ClaimsAreWaiting, HolderHasBeenAnswered, HolderIsUpToDate, States
<1> QED  BY <1>1, <1>2, <1>3, <1>4 DEF StoreInv

LEMMA ReleaseLockKeepsInv ==
  ASSUME StoreInv, NEW r \in Request, ReleaseLock(r)
  PROVE  StoreInv'
<1>1. StoreTypeOK'
  BY DataStoreAssumption
  DEF ReleaseLock, TriggerHandleClaims, Becomes, Release, LockOf, storageVars, lockVars,
      claimVars, clientVars, StoreInv, StoreTypeOK, ClaimsAreWaiting, HolderHasBeenAnswered,
      HolderIsUpToDate, States
<1>2. ClaimsAreWaiting'
  BY DataStoreAssumption
  DEF ReleaseLock, TriggerHandleClaims, Becomes, Release, LockOf, storageVars, lockVars,
      claimVars, clientVars, StoreInv, StoreTypeOK, ClaimsAreWaiting, HolderHasBeenAnswered,
      HolderIsUpToDate, States
<1>3. HolderHasBeenAnswered'
  BY DataStoreAssumption
  DEF ReleaseLock, TriggerHandleClaims, Becomes, Release, LockOf, storageVars, lockVars,
      claimVars, clientVars, StoreInv, StoreTypeOK, ClaimsAreWaiting, HolderHasBeenAnswered,
      HolderIsUpToDate, States
<1>4. HolderIsUpToDate'
  BY DataStoreAssumption
  DEF ReleaseLock, TriggerHandleClaims, Becomes, Release, LockOf, storageVars, lockVars,
      claimVars, clientVars, StoreInv, StoreTypeOK, ClaimsAreWaiting, HolderHasBeenAnswered,
      HolderIsUpToDate, States
<1> QED  BY <1>1, <1>2, <1>3, <1>4 DEF StoreInv

LEMMA AbandonKeepsInv ==
  ASSUME StoreInv, NEW r \in Request, Abandon(r)
  PROVE  StoreInv'
<1>1. StoreTypeOK'
  BY DataStoreAssumption
  DEF Abandon, Becomes, storageVars, lockVars, claimVars, clientVars, StoreInv, StoreTypeOK,
      ClaimsAreWaiting, HolderHasBeenAnswered, HolderIsUpToDate, States
<1>2. ClaimsAreWaiting'
  BY DataStoreAssumption
  DEF Abandon, Becomes, storageVars, lockVars, claimVars, clientVars, StoreInv, StoreTypeOK,
      ClaimsAreWaiting, HolderHasBeenAnswered, HolderIsUpToDate, States
<1>3. HolderHasBeenAnswered'
  BY DataStoreAssumption
  DEF Abandon, Becomes, storageVars, lockVars, claimVars, clientVars, StoreInv, StoreTypeOK,
      ClaimsAreWaiting, HolderHasBeenAnswered, HolderIsUpToDate, States
<1>4. HolderIsUpToDate'
  BY DataStoreAssumption
  DEF Abandon, Becomes, storageVars, lockVars, claimVars, clientVars, StoreInv, StoreTypeOK,
      ClaimsAreWaiting, HolderHasBeenAnswered, HolderIsUpToDate, States
<1> QED  BY <1>1, <1>2, <1>3, <1>4 DEF StoreInv

LEMMA LockExpiresKeepsInv ==
  ASSUME StoreInv, NEW k \in Key, LockExpires(k)
  PROVE  StoreInv'
<1>1. StoreTypeOK'
  BY DataStoreAssumption
  DEF LockExpires, TriggerHandleClaims, storageVars, lockVars, claimVars, clientVars, StoreInv,
      StoreTypeOK, ClaimsAreWaiting, HolderHasBeenAnswered, HolderIsUpToDate, States
<1>2. ClaimsAreWaiting'
  BY DataStoreAssumption
  DEF LockExpires, TriggerHandleClaims, storageVars, lockVars, claimVars, clientVars, StoreInv,
      StoreTypeOK, ClaimsAreWaiting, HolderHasBeenAnswered, HolderIsUpToDate, States
<1>3. HolderHasBeenAnswered'
  BY DataStoreAssumption
  DEF LockExpires, TriggerHandleClaims, storageVars, lockVars, claimVars, clientVars, StoreInv,
      StoreTypeOK, ClaimsAreWaiting, HolderHasBeenAnswered, HolderIsUpToDate, States
<1>4. HolderIsUpToDate'
  BY DataStoreAssumption
  DEF LockExpires, TriggerHandleClaims, storageVars, lockVars, claimVars, clientVars, StoreInv,
      StoreTypeOK, ClaimsAreWaiting, HolderHasBeenAnswered, HolderIsUpToDate, States
<1> QED  BY <1>1, <1>2, <1>3, <1>4 DEF StoreInv

LEMMA CloseConnectionKeepsInv ==
  ASSUME StoreInv, NEW c \in Client, CloseConnection(c)
  PROVE  StoreInv'
<1>1. StoreTypeOK'
  BY DataStoreAssumption
  DEF CloseConnection, ReleaseLockForTag, Release, TriggerHandleClaims, storageVars, lockVars,
      claimVars, clientVars, StoreInv, StoreTypeOK, ClaimsAreWaiting, HolderHasBeenAnswered,
      HolderIsUpToDate, States
<1>2. ClaimsAreWaiting'
  BY DataStoreAssumption
  DEF CloseConnection, ReleaseLockForTag, Release, TriggerHandleClaims, storageVars, lockVars,
      claimVars, clientVars, StoreInv, StoreTypeOK, ClaimsAreWaiting, HolderHasBeenAnswered,
      HolderIsUpToDate, States
<1>3. HolderHasBeenAnswered'
  BY DataStoreAssumption
  DEF CloseConnection, ReleaseLockForTag, Release, TriggerHandleClaims, storageVars, lockVars,
      claimVars, clientVars, StoreInv, StoreTypeOK, ClaimsAreWaiting, HolderHasBeenAnswered,
      HolderIsUpToDate, States
<1>4. HolderIsUpToDate'
  BY DataStoreAssumption
  DEF CloseConnection, ReleaseLockForTag, Release, TriggerHandleClaims, storageVars, lockVars,
      claimVars, clientVars, StoreInv, StoreTypeOK, ClaimsAreWaiting, HolderHasBeenAnswered,
      HolderIsUpToDate, States
<1> QED  BY <1>1, <1>2, <1>3, <1>4 DEF StoreInv

LEMMA ConnectKeepsInv ==
  ASSUME StoreInv, NEW c \in Client, Connect(c)
  PROVE  StoreInv'
<1>1. StoreTypeOK'
  BY DataStoreAssumption
  DEF Connect, storageVars, lockVars, claimVars, clientVars, StoreInv, StoreTypeOK,
      ClaimsAreWaiting, HolderHasBeenAnswered, HolderIsUpToDate, States
<1>2. ClaimsAreWaiting'
  BY DataStoreAssumption
  DEF Connect, storageVars, lockVars, claimVars, clientVars, StoreInv, StoreTypeOK,
      ClaimsAreWaiting, HolderHasBeenAnswered, HolderIsUpToDate, States
<1>3. HolderHasBeenAnswered'
  BY DataStoreAssumption
  DEF Connect, storageVars, lockVars, claimVars, clientVars, StoreInv, StoreTypeOK,
      ClaimsAreWaiting, HolderHasBeenAnswered, HolderIsUpToDate, States
<1>4. HolderIsUpToDate'
  BY DataStoreAssumption
  DEF Connect, storageVars, lockVars, claimVars, clientVars, StoreInv, StoreTypeOK,
      ClaimsAreWaiting, HolderHasBeenAnswered, HolderIsUpToDate, States
<1> QED  BY <1>1, <1>2, <1>3, <1>4 DEF StoreInv

LEMMA TerminateKeepsInv ==
  ASSUME StoreInv, Terminate
  PROVE  StoreInv'
<1>1. StoreTypeOK'
  <2>1. claims' \in [Key -> Seq(Request)]
    BY EmptyQueue DEF Terminate
  <2>2. state' \in [Request -> States]
    BY DEF Terminate, StoreInv, StoreTypeOK, States
  <2> QED  BY <2>1, <2>2 DEF Terminate, storageVars, lockVars, StoreInv, StoreTypeOK
<1>2. ClaimsAreWaiting'
  BY DataStoreAssumption
  DEF Terminate, IsClaimed, storageVars, lockVars, claimVars, clientVars, StoreInv, StoreTypeOK,
      ClaimsAreWaiting, HolderHasBeenAnswered, HolderIsUpToDate, States
<1>3. HolderHasBeenAnswered'
  BY DataStoreAssumption
  DEF Terminate, IsClaimed, storageVars, lockVars, claimVars, clientVars, StoreInv, StoreTypeOK,
      ClaimsAreWaiting, HolderHasBeenAnswered, HolderIsUpToDate, States
<1>4. HolderIsUpToDate'
  BY DataStoreAssumption
  DEF Terminate, IsClaimed, storageVars, lockVars, claimVars, clientVars, StoreInv, StoreTypeOK,
      ClaimsAreWaiting, HolderHasBeenAnswered, HolderIsUpToDate, States
<1> QED  BY <1>1, <1>2, <1>3, <1>4 DEF StoreInv

LEMMA HandleClaimsKeepsInv ==
  ASSUME StoreInv, HandleClaims
  PROVE  StoreInv'
<1>1. StoreTypeOK'
  BY DataStoreAssumption
  DEF HandleClaims, TriggerHandleClaims, HasClaim, IsWaitingForLock, Rejected, Resolved,
      Handled, HasHandledClaim, IsLockedBy, storageVars, lockVars, claimVars, clientVars,
      StoreInv, StoreTypeOK, ClaimsAreWaiting, HolderHasBeenAnswered, HolderIsUpToDate, States
<1>2. ClaimsAreWaiting'
  <2> SUFFICES ASSUME NEW k \in Key, NEW i \in DOMAIN claims'[k]
               PROVE  /\ KeyOf[claims'[k][i]] = k /\ state'[claims'[k][i]] = "waiting"
                      /\ \A j \in DOMAIN claims'[k] : claims'[k][i] = claims'[k][j] => i = j
    BY DEF ClaimsAreWaiting
  <2>1. claims[k] \in Seq(Request)
    BY DEF StoreInv, StoreTypeOK
  <2>2. ASSUME NEW n \in DOMAIN claims[k], claims[k][n] \in Handled
        PROVE  n = 1 /\ HasHandledClaim(k)
    <3>1. PICK h \in Key : HasClaim(h) /\ Head(claims[h]) = claims[k][n]
      BY <2>2 DEF Handled, Rejected, Resolved
    <3>2. claims[h] \in Seq(Request) /\ 1 \in DOMAIN claims[h] /\ Head(claims[h]) = claims[h][1]
      BY <3>1 DEF StoreInv, StoreTypeOK, HasClaim
    <3>3. h = k
      BY <3>1, <3>2 DEF StoreInv, ClaimsAreWaiting
    <3> QED  BY <2>2, <3>1, <3>2, <3>3 DEF StoreInv, ClaimsAreWaiting, HasHandledClaim
  <2>3. \A n \in DOMAIN claims[k] : claims[k][n] \notin Handled =>
          state'[claims[k][n]] = "waiting" /\ KeyOf[claims[k][n]] = k
    BY <2>1 DEF HandleClaims, Handled, StoreInv, ClaimsAreWaiting
  <2>4. CASE HasHandledClaim(k)
    <3>1. claims'[k] = Tail(claims[k]) /\ claims[k] # <<>>
      BY <2>4 DEF HandleClaims, HasHandledClaim, HasClaim
    <3>2. \A j \in DOMAIN claims'[k] : j + 1 \in DOMAIN claims[k] /\ claims'[k][j] = claims[k][j + 1]
                                       /\ j \in Nat \ {0}
      BY <2>1, <3>1
    <3>3. claims[k][i + 1] \notin Handled
      BY <2>2, <3>2
    <3>4. \A j \in DOMAIN claims'[k] : claims[k][i + 1] = claims[k][j + 1] => i + 1 = j + 1
      BY <3>2 DEF StoreInv, ClaimsAreWaiting
    <3> QED  BY <2>3, <3>2, <3>3, <3>4
  <2>5. CASE ~HasHandledClaim(k)
    <3>1. claims'[k] = claims[k]
      BY <2>5 DEF HandleClaims
    <3>2. claims[k][i] \notin Handled
      BY <2>2, <2>5, <3>1
    <3> QED  BY <2>3, <3>1, <3>2 DEF StoreInv, ClaimsAreWaiting
  <2> QED  BY <2>4, <2>5
<1>3. HolderHasBeenAnswered'
  BY DataStoreAssumption
  DEF HandleClaims, TriggerHandleClaims, HasClaim, IsWaitingForLock, Rejected, Resolved,
      Handled, HasHandledClaim, IsLockedBy, storageVars, lockVars, claimVars, clientVars,
      StoreInv, StoreTypeOK, ClaimsAreWaiting, HolderHasBeenAnswered, HolderIsUpToDate, States
<1>4. HolderIsUpToDate'
  BY DataStoreAssumption
  DEF HandleClaims, TriggerHandleClaims, HasClaim, IsWaitingForLock, Rejected, Resolved,
      Handled, HasHandledClaim, IsLockedBy, storageVars, lockVars, claimVars, clientVars,
      StoreInv, StoreTypeOK, ClaimsAreWaiting, HolderHasBeenAnswered, HolderIsUpToDate, States
<1> QED  BY <1>1, <1>2, <1>3, <1>4 DEF StoreInv

LEMMA StutterKeepsInv == StoreInv /\ UNCHANGED storeVars => StoreInv'
  BY DEF storeVars, storageVars, lockVars, claimVars, clientVars, StoreInv, StoreTypeOK, ClaimsAreWaiting,
         HolderHasBeenAnswered, HolderIsUpToDate

(***************************************************************************)
(* The queues, the locks and the requests agree, in every interleaving of  *)
(* claims, writes, expiries and closed connections.                        *)
(***************************************************************************)
THEOREM StoreInvariance == StoreSpec => []StoreInv
<1>1. StoreInv /\ [NextStore]_storeVars => StoreInv'
  BY WaitForAccessKeepsInv, ClaimExpiresKeepsInv, WriteKeepsInv, WriteRefusedKeepsInv,
     CallbackFailsKeepsInv, ReleaseLockKeepsInv, AbandonKeepsInv, LockExpiresKeepsInv,
     CloseConnectionKeepsInv, ConnectKeepsInv, TerminateKeepsInv, HandleClaimsKeepsInv,
     StutterKeepsInv DEF NextStore
<1> QED  BY InitInv, <1>1, PTL DEF StoreSpec

-----------------------------------------------------------------------------
(* The refinement *)

phase == [r \in Request |-> PhaseOf(state[r])]

LEMMA PhaseType == StoreTypeOK => phase \in [Request -> Abstract!Phase]
<1> SUFFICES ASSUME StoreTypeOK, NEW r \in Request PROVE PhaseOf(state[r]) \in Abstract!Phase
  BY DEF phase
<1> QED  BY DEF StoreTypeOK, States, PhaseOf, Abstract!Phase

\* What changes nothing but how far requests have come answers some of them.
LEMMA AnswerSuffices ==
  ASSUME StoreTypeOK, StoreTypeOK', UNCHANGED data,
         \A r \in Request :
           \/ PhaseOf(state'[r]) = PhaseOf(state[r]) /\ seen'[r] = seen[r]
           \/ /\ state[r] = "waiting" /\ state'[r] \in {"locked", "read"}
              /\ seen'[r] = data[KeyOf[r]]
           \/ /\ state[r] \in {"waiting", "locked", "failing"} /\ state'[r] = "failed"
              /\ seen'[r] = seen[r]
  PROVE  Abstract!Answer
<1>1. phase' \in [Request -> Abstract!Phase]
  <2> SUFFICES ASSUME NEW r \in Request PROVE PhaseOf(state'[r]) \in Abstract!Phase
    BY DEF phase
  <2> QED  BY DEF StoreTypeOK, States, PhaseOf, Abstract!Phase
<1>2. seen' \in [Request -> Request \cup {None}]
  BY DEF StoreTypeOK
<1>3. ASSUME NEW r \in Request
      PROVE  \/ phase'[r] = phase[r] /\ seen'[r] = seen[r]
             \/ phase[r] = "pending" /\ phase'[r] \in {"based", "read"} /\ seen'[r] = data[KeyOf[r]]
             \/ phase[r] \in {"pending", "based"} /\ phase'[r] = "refused" /\ seen'[r] = seen[r]
  <2>1. phase[r] = PhaseOf(state[r]) /\ phase'[r] = PhaseOf(state'[r])
    BY DEF phase
  <2>2. CASE PhaseOf(state'[r]) = PhaseOf(state[r]) /\ seen'[r] = seen[r]
    BY <2>1, <2>2
  <2>3. CASE /\ state[r] = "waiting" /\ state'[r] \in {"locked", "read"}
             /\ seen'[r] = data[KeyOf[r]]
    BY <2>1, <2>3 DEF PhaseOf
  <2>4. CASE /\ state[r] \in {"waiting", "locked", "failing"} /\ state'[r] = "failed"
             /\ seen'[r] = seen[r]
    BY <2>1, <2>4 DEF PhaseOf
  <2> QED  BY <2>2, <2>3, <2>4
<1> QED  BY <1>1, <1>2, <1>3 DEF Abstract!Answer, phase

LEMMA StepSimulation ==
  ASSUME StoreInv, StoreInv', [NextStore]_storeVars
  PROVE  [Abstract!Next]_(Abstract!vars)
<1>1. ASSUME NEW r \in Request, Write(r)
      PROVE  Abstract!Commit(r)
  <2>1. lock[KeyOf[r]] = r /\ seen[r] = data[KeyOf[r]]
    BY <1>1, DataStoreAssumption DEF Write, CanWrite, LockOf, StoreInv, HolderIsUpToDate
  <2>2. phase[r] = "based" /\ phase' = [phase EXCEPT ![r] = "committed"]
    <3>1. state[r] = "locked" /\ state' = [state EXCEPT ![r] = "written"]
      BY <1>1 DEF Write, Becomes
    <3>2. \A s \in Request : PhaseOf(state'[s]) = IF s = r THEN "committed" ELSE PhaseOf(state[s])
      <4>1. state'[r] = "written" /\ \A s \in Request \ {r} : state'[s] = state[s]
        BY <3>1 DEF StoreInv, StoreTypeOK
      <4>2. PhaseOf("written") = "committed"
        BY DEF PhaseOf
      <4> QED  BY <4>1, <4>2
    <3>3. PhaseOf(state[r]) = "based"
      BY <3>1 DEF PhaseOf
    <3> QED  BY <3>2, <3>3 DEF phase
  <2> QED  BY <1>1, <2>1, <2>2 DEF Write, Abstract!Commit, phase
<1>2. CASE HandleClaims
  <2>1. \A r \in Handled : state[r] = "waiting"
    <3> SUFFICES ASSUME NEW k \in Key, HasClaim(k) PROVE state[Head(claims[k])] = "waiting"
      BY DEF Handled, Rejected, Resolved
    <3>1. 1 \in DOMAIN claims[k] /\ Head(claims[k]) = claims[k][1]
      BY DEF StoreInv, StoreTypeOK, HasClaim
    <3> QED  BY <3>1 DEF StoreInv, ClaimsAreWaiting
  <2>2. /\ UNCHANGED data
        /\ \A r \in Request :
             /\ r \in Rejected => state'[r] = "failed" /\ seen'[r] = seen[r]
             /\ r \in Resolved => state'[r] \in {"locked", "read"} /\ seen'[r] = data[KeyOf[r]]
             /\ r \notin Handled => state'[r] = state[r] /\ seen'[r] = seen[r]
    BY <1>2 DEF HandleClaims, Handled, Rejected, Resolved
  <2> QED  BY <2>1, <2>2, AnswerSuffices DEF StoreInv, Handled, Abstract!Next
<1>3. CASE Terminate
  <2>1. \A r \in Request : IsClaimed(r) => state[r] = "waiting"
    BY DEF IsClaimed, StoreInv, ClaimsAreWaiting
  <2> QED  BY <1>3, <2>1, AnswerSuffices DEF Terminate, storageVars, StoreInv, Abstract!Next
<1>4. ASSUME NEW r \in Request, UNCHANGED <<data, seen>>,
             \/ state[r] = "new" /\ Becomes(r, "waiting")
             \/ state[r] = "locked" /\ Becomes(r, "failing")
             \/ state[r] \in {"locked", "failing"} /\ Becomes(r, "failed")
      PROVE  Abstract!Answer
  <2>1. \A s \in Request \ {r} : state'[s] = state[s]
    BY <1>4 DEF Becomes, StoreInv, StoreTypeOK
  <2>2. \/ PhaseOf(state'[r]) = PhaseOf(state[r])
        \/ state[r] \in {"locked", "failing"} /\ state'[r] = "failed"
    BY <1>4 DEF Becomes, StoreInv, StoreTypeOK, PhaseOf
  <2> QED  BY <1>4, <2>1, <2>2, AnswerSuffices DEF StoreInv
<1>5. ASSUME NEW r \in Request,
             WaitForAccess(r) \/ WriteRefused(r) \/ CallbackFails(r) \/ ReleaseLock(r) \/ Abandon(r)
      PROVE  Abstract!Next
  BY <1>4, <1>5 DEF WaitForAccess, WriteRefused, CallbackFails, ReleaseLock, Abandon, storageVars,
                    clientVars, Abstract!Next
<1>6. ASSUME UNCHANGED <<data, state, seen>>
      PROVE  UNCHANGED Abstract!vars
  BY <1>6 DEF Abstract!vars
<1>7. ASSUME \/ \E r \in Request : ClaimExpires(r)
             \/ \E k \in Key : LockExpires(k)
             \/ \E c \in Client : CloseConnection(c) \/ Connect(c)
             \/ UNCHANGED storeVars
      PROVE  UNCHANGED Abstract!vars
  BY <1>6, <1>7 DEF ClaimExpires, LockExpires, CloseConnection, Connect, storeVars, storageVars, clientVars
<1> QED  BY <1>1, <1>2, <1>3, <1>5, <1>7 DEF NextStore, Abstract!Next

(***************************************************************************)
(* No update is lost, for any number of keys, clients and requests.        *)
(***************************************************************************)
THEOREM UpdatesAreAtomic == StoreSpec => NoUpdateIsLost
<1>1. InitStore => Abstract!Init
  BY DEF InitStore, Abstract!Init, PhaseOf
<1> QED  BY <1>1, StoreInvariance, StepSimulation, PTL DEF StoreSpec, NoUpdateIsLost, Abstract!Spec
=============================================================================
