---------------------- MODULE ExpectationManager_proofs ----------------------
(***************************************************************************)
(* Proofs about ExpectationTracker, for any number of Expectations and     *)
(* workers: IInv is shown to be inductive, one lemma per group of actions  *)
(* with the same effect, and the theorems follow from it.  At the end the  *)
(* tracker under its scheduler: it is still the tracker, and the           *)
(* invariants of the scheduling.                                           *)
(***************************************************************************)
EXTENDS ExpectationManager, TLAPS

-----------------------------------------------------------------------------
(* The objects.                                                            *)

\* A status update changes nothing but the state of an object, and when to
\* look at it again.
LEMMA WithStateType ==
  ASSUME NEW o \in TrackedExpectation, NEW s \in State, NEW isError \in BOOLEAN
  PROVE  /\ WithState(o, s, isError) \in TrackedExpectation
         /\ WithState(o, s, isError).state = s
         /\ WithState(o, s, isError).exp = o.exp
         /\ WithState(o, s, isError).errorOnRemoveCount = o.errorOnRemoveCount
         /\ WithState(o, s, isError).cancel = o.cancel
         /\ WithState(o, s, isError) # None
<1>1. WithState(o, s, isError) \in TrackedExpectation
  <2>1. CASE isError
    BY <2>1 DEF WithState, TrackedExpectation
  <2>2. CASE ~isError
    BY <2>2 DEF WithState, TrackedExpectation
  <2> QED BY <2>1, <2>2
<1>2. /\ WithState(o, s, isError).state = s
      /\ WithState(o, s, isError).exp = o.exp
      /\ WithState(o, s, isError).errorOnRemoveCount = o.errorOnRemoveCount
      /\ WithState(o, s, isError).cancel = o.cancel
  BY DEF WithState, TrackedExpectation
<1> QED BY <1>1, <1>2, NoneAssumption

\* A new object is NEW, has the content it is made for and no history.
LEMMA DefaultType ==
  ASSUME NEW content \in Content
  PROVE  LET o == DefaultTrackedExpectation(content)
         IN  /\ o \in TrackedExpectation
             /\ o.state = "NEW" /\ o.exp = content /\ o.errorOnRemoveCount = 0
             /\ o # None
<1>1. DefaultTrackedExpectation(content) \in TrackedExpectation
  BY ConstantsAssumption DEF DefaultTrackedExpectation, TrackedExpectation, State
<1>2. DefaultTrackedExpectation(content) # None
  BY <1>1, NoneAssumption
<1> QED BY <1>1, <1>2 DEF DefaultTrackedExpectation

\* The states that are handled in parallel are six, and neither READY nor WORKING.
LEMMA ParallelStateNames ==
  /\ DOMAIN ParallelStates = 1 .. 6
  /\ \A i \in 1 .. 6 : ParallelStates[i] \in State \ {"READY", "WORKING"}
<1>1. DOMAIN ParallelStates = 1 .. 6
  BY DEF ParallelStates
<1>2. ASSUME NEW i \in 1 .. 6
      PROVE  ParallelStates[i] \in State \ {"READY", "WORKING"}
  <2>1. i = 1 \/ i = 2 \/ i = 3 \/ i = 4 \/ i = 5 \/ i = 6
    OBVIOUS
  <2> QED BY <2>1 DEF ParallelStates, State
<1> QED BY <1>1, <1>2

-----------------------------------------------------------------------------
(* The update of one object.                                               *)

\* Only the object of e changes, besides checks that are due.
Touches(e) ==
  /\ tracked' \in [Exp -> TrackedExpectation \cup {None}]
  /\ \A x \in Exp : tracked'[x] = None <=> tracked[x] = None
  /\ \A x \in Exp : tracked[x] # None => tracked'[x].exp = tracked[x].exp
  /\ \A x \in Exp \ {e} : tracked[x] # None =>
       /\ tracked'[x].state = tracked[x].state
       /\ tracked'[x].errorOnRemoveCount = tracked[x].errorOnRemoveCount
       /\ tracked'[x].cancel = tracked[x].cancel

\* The new state of e has been reported, and of no other Expectation.
StateReported(e) ==
  /\ \A x \in Exp \ {e} : reported'[x] = reported[x]
  /\ reported[e] = tracked[e].state => reported'[e] = tracked'[e].state

\* It has been reported that e is no more.
DropReported(e) ==
  /\ \A x \in Exp \ {e} : reported'[x] = reported[x]
  /\ reported'[e] = None

LEMMA ReportStateType ==
  ASSUME TypeOK, NEW e \in Exp, NEW old, NEW new \in State, ReportState(e, old, new)
  PROVE  reported' \in [Exp -> State \cup {None}]
  BY DEF ReportState, TypeOK

\* What a status update does to the tracked objects.
LEMMA UpdateStatusTouches ==
  ASSUME TypeOK, NEW e \in Exp, tracked[e] # None, NEW o \in TrackedExpectation,
         o.exp = tracked[e].exp, NEW s \in State, NEW isError \in BOOLEAN,
         UpdateStatus(e, o, s, isError)
  PROVE  /\ Touches(e)
         /\ tracked'[e].state = s
         /\ tracked'[e].errorOnRemoveCount = o.errorOnRemoveCount
         /\ tracked'[e].cancel = o.cancel
         /\ hadError' \in SUBSET Exp
         /\ reported' \in [Exp -> State \cup {None}]
         /\ StateReported(e)
<1> DEFINE new == WithState(o, s, isError)
<1>1. /\ tracked \in [Exp -> TrackedExpectation \cup {None}]
      /\ tracked' = [tracked EXCEPT ![e] = new]
  BY DEF UpdateStatus, TypeOK
<1>2. /\ new \in TrackedExpectation /\ new # None
      /\ new.state = s /\ new.exp = o.exp /\ new.cancel = o.cancel
      /\ new.errorOnRemoveCount = o.errorOnRemoveCount
  BY WithStateType
<1> HIDE DEF new
<1>3. Touches(e)
  BY <1>1, <1>2 DEF Touches
<1>4. hadError' \in SUBSET Exp
  BY DEF UpdateStatus, TypeOK
<1>5. reported' \in [Exp -> State \cup {None}]
  BY ReportStateType DEF UpdateStatus
<1>6. StateReported(e)
  <2>1. reported \in [Exp -> State \cup {None}] /\ ReportState(e, tracked[e].state, s)
    BY DEF UpdateStatus, TypeOK
  <2> QED BY <1>1, <1>2, <2>1 DEF ReportState, StateReported
<1> QED BY <1>1, <1>2, <1>3, <1>4, <1>5, <1>6

-----------------------------------------------------------------------------
(* The evaluation of one Expectation.                                      *)

\* What is left of e when it has been evaluated.
Evaluated(e) ==
  /\ Touches(e)
  /\ tracked'[e].state # "WORKING"
  /\ hadError' \in SUBSET Exp
  /\ reported' \in [Exp -> State \cup {None}]
  /\ runAgainASAP' \in BOOLEAN
  /\ removeIds' \in {removeIds, removeIds \cup {e}}
  /\ e \in removeIds' => tracked'[e].state \in {"REMOVED", "NEW"}
  /\ tracked'[e].errorOnRemoveCount > FAILED_REMOVE_COUNT => e \in removeIds'
  /\ IF e \in removeIds' THEN DropReported(e) \/ (e \in removeIds /\ UNCHANGED reported)
                         ELSE StateReported(e)

\* An Expectation that may be evaluated has not failed to be removed too often.
LEMMA CanEvaluateCount ==
  ASSUME IInv, NEW e \in Exp, tracked[e] # None, e \notin removeIds
  PROVE  /\ tracked[e] \in TrackedExpectation
         /\ tracked[e].errorOnRemoveCount \in 0 .. FAILED_REMOVE_COUNT
<1>1. tracked[e] \in TrackedExpectation
  BY DEF IInv, TypeOK
<1>2. ~(tracked[e].errorOnRemoveCount > FAILED_REMOVE_COUNT)
  BY DEF IInv, RemovalsAreOver, Tracked
<1>3. tracked[e].errorOnRemoveCount \in 0 .. FAILED_REMOVE_COUNT + 1
  BY <1>1 DEF TrackedExpectation
<1> QED BY <1>1, <1>2, <1>3, ConstantsAssumption

\* A status update of an Expectation that is not to be dropped.
LEMMA UpdateStatusEvaluated ==
  ASSUME IInv, NEW e \in Exp, tracked[e] # None, e \notin removeIds,
         NEW o \in TrackedExpectation, o.exp = tracked[e].exp,
         o.errorOnRemoveCount = tracked[e].errorOnRemoveCount,
         NEW s \in State \ {"WORKING"}, NEW isError \in BOOLEAN,
         UpdateStatus(e, o, s, isError), UNCHANGED <<removeIds, runAgainASAP>>
  PROVE  Evaluated(e)
<1>1. TypeOK
  BY DEF IInv
<1>2. tracked[e].errorOnRemoveCount \in 0 .. FAILED_REMOVE_COUNT
  BY CanEvaluateCount
<1>3. /\ Touches(e) /\ tracked'[e].state = s
      /\ tracked'[e].errorOnRemoveCount = o.errorOnRemoveCount
      /\ hadError' \in SUBSET Exp /\ reported' \in [Exp -> State \cup {None}]
      /\ StateReported(e)
  BY <1>1, UpdateStatusTouches
<1>4. runAgainASAP' \in BOOLEAN
  BY <1>1 DEF TypeOK
<1> QED BY <1>2, <1>3, <1>4, ConstantsAssumption DEF Evaluated

\* The object with other available workers.
LEMMA WithWorkersType ==
  ASSUME NEW o \in TrackedExpectation, NEW a \in SUBSET Worker
  PROVE  LET p == [o EXCEPT !.availableWorkers = a]
         IN  /\ p \in TrackedExpectation
             /\ p.exp = o.exp /\ p.state = o.state
             /\ p.errorOnRemoveCount = o.errorOnRemoveCount
  BY DEF TrackedExpectation

LEMMA AssignmentsType ==
  ASSUME NEW o \in TrackedExpectation, NEW a \in Assignments(o)
  PROVE  a.available \in SUBSET Worker /\ a.worker \in Worker \cup {None}
  BY DEF Assignments, QueryAnswers

\* A status update after a worker has been looked for.
LEMMA AssignedUpdate ==
  ASSUME IInv, NEW e \in Exp, tracked[e] # None, e \notin removeIds,
         NEW a \in Assignments(tracked[e]), NEW s \in State \ {"WORKING"}, NEW isError \in BOOLEAN,
         UpdateStatus(e, [tracked[e] EXCEPT !.availableWorkers = a.available], s, isError),
         UNCHANGED <<removeIds, runAgainASAP>>
  PROVE  Evaluated(e)
<1> DEFINE o == [tracked[e] EXCEPT !.availableWorkers = a.available]
<1>1. tracked[e] \in TrackedExpectation
  BY CanEvaluateCount
<1>2. o \in TrackedExpectation /\ o.exp = tracked[e].exp
      /\ o.errorOnRemoveCount = tracked[e].errorOnRemoveCount
  BY <1>1, AssignmentsType, WithWorkersType
<1>3. UpdateStatus(e, o, s, isError)
  OBVIOUS
<1> HIDE DEF o
<1> QED BY <1>2, <1>3, UpdateStatusEvaluated

LEMMA NoWorkerEvaluated ==
  ASSUME IInv, NEW e \in Exp, tracked[e] # None, e \notin removeIds, tracked[e].state # "WORKING",
         NEW a \in Assignments(tracked[e]),
         NoWorkerAssigned(e, [tracked[e] EXCEPT !.availableWorkers = a.available]),
         UNCHANGED <<removeIds, runAgainASAP>>
  PROVE  Evaluated(e)
<1> DEFINE o == [tracked[e] EXCEPT !.availableWorkers = a.available]
           s == IF o.availableWorkers = {} \/ o.state = "WAITING" THEN "NEW" ELSE o.state
<1>1. tracked[e] \in TrackedExpectation
  BY CanEvaluateCount
<1>2. s \in State \ {"WORKING"}
  BY <1>1, AssignmentsType, WithWorkersType DEF TrackedExpectation, State
<1>3. UpdateStatus(e, o, s, FALSE)
  BY DEF NoWorkerAssigned
<1> HIDE DEF s
<1> QED BY <1>2, <1>3, AssignedUpdate

LEMMA HandlerThrowsEvaluated ==
  ASSUME IInv, NEW e \in Exp, tracked[e] # None, e \notin removeIds, tracked[e].state # "WORKING",
         HandlerThrows(e), UNCHANGED <<removeIds, runAgainASAP>>
  PROVE  Evaluated(e)
<1>1. tracked[e].state \in State \ {"WORKING"}
  BY CanEvaluateCount DEF TrackedExpectation
<1>2. PICK a \in Assignments(tracked[e]) :
        UpdateStatus(e, [tracked[e] EXCEPT !.availableWorkers = a.available], tracked[e].state, TRUE)
  BY DEF HandlerThrows
<1> QED BY <1>1, <1>2, AssignedUpdate

LEMMA EvaluateNewEvaluated ==
  ASSUME IInv, NEW e \in Exp, tracked[e] # None, e \notin removeIds, EvaluateNew(e)
  PROVE  Evaluated(e)
<1>1. tracked[e] \in TrackedExpectation
  BY CanEvaluateCount
<1>2. PICK a \in QueryAnswers(tracked[e].availableWorkers) :
        LET o == [tracked[e] EXCEPT !.availableWorkers = a, !.cancel = None]
        IN  \/ UpdateStatus(e, o, IF a = {} THEN "NEW" ELSE "WAITING", FALSE)
            \/ UpdateStatus(e, o, "NEW", TRUE)
  BY DEF EvaluateNew
<1> DEFINE o == [tracked[e] EXCEPT !.availableWorkers = a, !.cancel = None]
<1>3. a \in SUBSET Worker
  BY DEF QueryAnswers
<1>4. o \in TrackedExpectation /\ o.exp = tracked[e].exp
      /\ o.errorOnRemoveCount = tracked[e].errorOnRemoveCount
  BY <1>1, <1>3 DEF TrackedExpectation
<1>5. PICK s \in {"NEW", "WAITING"}, isError \in BOOLEAN : UpdateStatus(e, o, s, isError)
  BY <1>2
<1>6. UNCHANGED <<removeIds, runAgainASAP>> /\ s \in State \ {"WORKING"}
  BY DEF EvaluateNew, State
<1> HIDE DEF o
<1> QED BY <1>4, <1>5, <1>6, UpdateStatusEvaluated

LEMMA AlreadyFulfilledEvaluated ==
  ASSUME IInv, NEW e \in Exp, tracked[e] # None, e \notin removeIds,
         NEW o \in TrackedExpectation, o.exp = tracked[e].exp,
         o.errorOnRemoveCount = tracked[e].errorOnRemoveCount,
         tracked[e].state = "WAITING", AlreadyFulfilled(e, o)
  PROVE  Evaluated(e)
<1> DEFINE new == WithState(o, "FULFILLED", FALSE)
<1>1. TypeOK /\ "FULFILLED" \in State
  BY DEF IInv, State
<1>2. /\ new \in TrackedExpectation /\ new # None
      /\ new.state = "FULFILLED" /\ new.exp = o.exp
      /\ new.errorOnRemoveCount = o.errorOnRemoveCount
  BY <1>1, WithStateType
<1>3. tracked' = [x \in Exp |-> IF x = e THEN new
                                ELSE IF x \in Listeners(e) THEN [tracked[x] EXCEPT !.recheck = TRUE]
                                ELSE tracked[x]]
  BY DEF AlreadyFulfilled
<1>4. \A x \in Exp : tracked[x] # None =>
        LET p == [tracked[x] EXCEPT !.recheck = TRUE]
        IN  /\ p \in TrackedExpectation /\ p # None
            /\ p.state = tracked[x].state /\ p.exp = tracked[x].exp
            /\ p.errorOnRemoveCount = tracked[x].errorOnRemoveCount /\ p.cancel = tracked[x].cancel
  <2> SUFFICES ASSUME NEW x \in Exp, tracked[x] # None
               PROVE  LET p == [tracked[x] EXCEPT !.recheck = TRUE]
                      IN  /\ p \in TrackedExpectation /\ p # None
                          /\ p.state = tracked[x].state /\ p.exp = tracked[x].exp
                          /\ p.errorOnRemoveCount = tracked[x].errorOnRemoveCount
                          /\ p.cancel = tracked[x].cancel
    OBVIOUS
  <2>1. tracked[x] \in TrackedExpectation
    BY <1>1 DEF TypeOK
  <2>2. [tracked[x] EXCEPT !.recheck = TRUE] \in TrackedExpectation
    BY <2>1 DEF TrackedExpectation
  <2> QED BY <2>1, <2>2, NoneAssumption DEF TrackedExpectation
<1>5. Listeners(e) \subseteq {x \in Exp \ {e} : tracked[x] # None}
  BY DEF Listeners, Tracked
<1> HIDE DEF new
<1>6. \A x \in Exp : /\ x = e => tracked'[x] = new
                     /\ x # e /\ x \in Listeners(e) => tracked'[x] = [tracked[x] EXCEPT !.recheck = TRUE]
                     /\ x # e /\ x \notin Listeners(e) => tracked'[x] = tracked[x]
  BY <1>3
<1>7. ASSUME NEW x \in Exp
      PROVE  /\ tracked'[x] \in TrackedExpectation \cup {None}
             /\ tracked'[x] = None <=> tracked[x] = None
             /\ tracked[x] # None => tracked'[x].exp = tracked[x].exp
             /\ x # e /\ tracked[x] # None =>
                  /\ tracked'[x].state = tracked[x].state
                  /\ tracked'[x].errorOnRemoveCount = tracked[x].errorOnRemoveCount
                  /\ tracked'[x].cancel = tracked[x].cancel
  <2>1. CASE x = e
    BY <1>2, <1>6, <2>1
  <2>2. CASE x # e /\ x \in Listeners(e)
    <3>1. tracked[x] # None
      BY <1>5, <2>2
    <3>2. tracked'[x] = [tracked[x] EXCEPT !.recheck = TRUE]
      BY <1>6, <2>2
    <3> QED BY <1>4, <2>2, <3>1, <3>2
  <2>3. CASE x # e /\ x \notin Listeners(e)
    <3>1. tracked'[x] = tracked[x]
      BY <1>6, <2>3
    <3> QED BY <1>1, <3>1 DEF TypeOK
  <2> QED BY <2>1, <2>2, <2>3
<1>8. Touches(e)
  <2>1. tracked' \in [Exp -> TrackedExpectation \cup {None}]
    BY <1>3, <1>7
  <2> QED BY <1>7, <2>1 DEF Touches
<1>9. tracked'[e].errorOnRemoveCount \in 0 .. FAILED_REMOVE_COUNT
  BY <1>2, <1>6, CanEvaluateCount
<1>10. reported' \in [Exp -> State \cup {None}]
  BY <1>1, ReportStateType DEF AlreadyFulfilled
<1>11. UNCHANGED <<hadError, removeIds>> /\ hadError' \in SUBSET Exp /\ runAgainASAP' \in BOOLEAN
  BY <1>1 DEF AlreadyFulfilled, TypeOK
<1>12. tracked'[e].state = "FULFILLED" /\ e \notin removeIds' /\ removeIds' = removeIds
  BY <1>2, <1>6, <1>11
<1>13. ~(tracked'[e].errorOnRemoveCount > FAILED_REMOVE_COUNT)
  BY <1>9, ConstantsAssumption
<1>14. StateReported(e)
  <2>1. reported \in [Exp -> State \cup {None}] /\ ReportState(e, "WAITING", "FULFILLED")
    BY <1>1 DEF AlreadyFulfilled, TypeOK
  <2> QED BY <1>12, <2>1 DEF ReportState, StateReported
<1> QED BY <1>8, <1>10, <1>11, <1>12, <1>13, <1>14 DEF Evaluated

LEMMA EvaluateWaitingEvaluated ==
  ASSUME IInv, NEW e \in Exp, tracked[e] # None, e \notin removeIds, EvaluateWaiting(e)
  PROVE  Evaluated(e)
<1>1. tracked[e] \in TrackedExpectation
  BY CanEvaluateCount
<1>2. tracked[e].state = "WAITING" /\ tracked[e].state # "WORKING"
  BY DEF EvaluateWaiting
<1>3. CASE HandlerThrows(e) /\ UNCHANGED <<removeIds, runAgainASAP>>
  BY <1>2, <1>3, HandlerThrowsEvaluated
<1>4. ASSUME NEW a \in Assignments(tracked[e]), UNCHANGED <<removeIds, runAgainASAP>>,
             NoWorkerAssigned(e, [tracked[e] EXCEPT !.availableWorkers = a.available])
      PROVE  Evaluated(e)
  BY <1>2, <1>4, NoWorkerEvaluated
<1>5. ASSUME NEW a \in Assignments(tracked[e]), UNCHANGED <<removeIds, runAgainASAP>>,
             NEW s \in {"WAITING", "READY", "NEW"}, NEW isError \in BOOLEAN,
             UpdateStatus(e, [tracked[e] EXCEPT !.availableWorkers = a.available], s, isError)
      PROVE  Evaluated(e)
  <2>1. s \in State \ {"WORKING"}
    BY DEF State
  <2> QED BY <1>5, <2>1, AssignedUpdate
<1>6. ASSUME NEW a \in Assignments(tracked[e]),
             AlreadyFulfilled(e, [tracked[e] EXCEPT !.availableWorkers = a.available])
      PROVE  Evaluated(e)
  <2> DEFINE o == [tracked[e] EXCEPT !.availableWorkers = a.available]
  <2>1. o \in TrackedExpectation /\ o.exp = tracked[e].exp
        /\ o.errorOnRemoveCount = tracked[e].errorOnRemoveCount
    BY <1>1, AssignmentsType, WithWorkersType
  <2>2. AlreadyFulfilled(e, o)
    BY <1>6
  <2> HIDE DEF o
  <2> QED BY <1>2, <2>1, <2>2, AlreadyFulfilledEvaluated
<1> QED BY <1>3, <1>4, <1>5, <1>6 DEF EvaluateWaiting

\* Nothing changes in an evaluation that finds nothing to do.
LEMMA UntouchedEvaluated ==
  ASSUME IInv, NEW e \in Exp, tracked[e] # None, tracked[e].state # "WORKING",
         UNCHANGED <<tracked, reported, sessionVars>>
  PROVE  Evaluated(e)
<1>1. /\ tracked[e].errorOnRemoveCount > FAILED_REMOVE_COUNT => e \in removeIds
      /\ e \in removeIds => tracked[e].state \in {"REMOVED", "NEW"}
  BY DEF IInv, RemovalsAreOver, Tracked, InState
<1>2. StateReported(e)
  BY DEF StateReported
<1> QED BY <1>1, <1>2 DEF IInv, TypeOK, sessionVars, Evaluated, Touches

LEMMA EvaluateFulfilledEvaluated ==
  ASSUME IInv, NEW e \in Exp, tracked[e] # None, e \notin removeIds, EvaluateFulfilled(e)
  PROVE  Evaluated(e)
<1>1. tracked[e] \in TrackedExpectation
  BY CanEvaluateCount
<1>2. tracked[e].state # "WORKING" /\ UNCHANGED <<removeIds, runAgainASAP>>
  BY DEF EvaluateFulfilled
<1>3. CASE HandlerThrows(e)
  BY <1>2, <1>3, HandlerThrowsEvaluated
<1>4. CASE UNCHANGED <<tracked, hadError, reported>>
  BY <1>2, <1>4, UntouchedEvaluated DEF sessionVars
<1>5. ASSUME NEW a \in Assignments(tracked[e]),
             NoWorkerAssigned(e, [tracked[e] EXCEPT !.availableWorkers = a.available])
      PROVE  Evaluated(e)
  BY <1>2, <1>5, NoWorkerEvaluated
<1>6. ASSUME NEW a \in Assignments(tracked[e]), NEW s \in {"FULFILLED", "NEW"},
             UpdateStatus(e, [tracked[e] EXCEPT !.availableWorkers = a.available], s, FALSE)
      PROVE  Evaluated(e)
  <2>1. s \in State \ {"WORKING"}
    BY DEF State
  <2> QED BY <1>2, <1>6, <2>1, AssignedUpdate
<1>7. ASSUME NEW a \in Assignments(tracked[e]), UNCHANGED <<hadError, reported>>,
             tracked' = [tracked EXCEPT ![e] =
               [[tracked[e] EXCEPT !.availableWorkers = a.available] EXCEPT !.recheck = FALSE]]
      PROVE  Evaluated(e)
  <2> DEFINE o == [tracked[e] EXCEPT !.availableWorkers = a.available]
             p == [o EXCEPT !.recheck = FALSE]
  <2>1. /\ o \in TrackedExpectation /\ o.exp = tracked[e].exp /\ o.state = tracked[e].state
        /\ o.errorOnRemoveCount = tracked[e].errorOnRemoveCount
    BY <1>1, AssignmentsType, WithWorkersType
  <2>2. tracked' = [tracked EXCEPT ![e] = p]
    BY <1>7
  <2> HIDE DEF o
  <2>3. /\ p \in TrackedExpectation /\ p.exp = o.exp /\ p.state = o.state
        /\ p.errorOnRemoveCount = o.errorOnRemoveCount
    BY <2>1 DEF TrackedExpectation
  <2>4. p # None
    BY <2>3, NoneAssumption
  <2> HIDE DEF p
  <2>5. tracked \in [Exp -> TrackedExpectation \cup {None}]
    BY DEF IInv, TypeOK
  <2>6. Touches(e) /\ tracked'[e] = p
    BY <2>1, <2>2, <2>3, <2>4, <2>5 DEF Touches
  <2>7. ~(p.errorOnRemoveCount > FAILED_REMOVE_COUNT)
    BY <2>1, <2>3, CanEvaluateCount, ConstantsAssumption
  <2>8. StateReported(e)
    BY <1>7, <2>1, <2>3, <2>6 DEF StateReported
  <2> QED BY <1>2, <1>7, <2>1, <2>3, <2>6, <2>7, <2>8 DEF Evaluated, IInv, TypeOK
<1> QED BY <1>3, <1>4, <1>5, <1>6, <1>7 DEF EvaluateFulfilled

LEMMA RemovalFailsEvaluated ==
  ASSUME IInv, NEW e \in Exp, tracked[e] # None, e \notin removeIds, tracked[e].state = "REMOVED",
         NEW a \in Assignments(tracked[e]), RemovalFails(e, a), UNCHANGED runAgainASAP
  PROVE  Evaluated(e)
<1> DEFINE o == [tracked[e] EXCEPT !.availableWorkers = a.available, !.errorOnRemoveCount = @ + 1]
           s == IF a.worker = None /\ a.available = {} THEN "NEW" ELSE "REMOVED"
           isError == a.worker # None
           new == WithState(o, s, isError)
<1>1. TypeOK /\ tracked[e] \in TrackedExpectation
      /\ tracked[e].errorOnRemoveCount \in 0 .. FAILED_REMOVE_COUNT
  BY CanEvaluateCount DEF IInv
<1>2. tracked[e].errorOnRemoveCount + 1 \in 0 .. FAILED_REMOVE_COUNT + 1
  BY <1>1, ConstantsAssumption
<1>3. a.available \in SUBSET Worker
  BY <1>1, AssignmentsType
<1>4. /\ o \in TrackedExpectation /\ o.exp = tracked[e].exp
      /\ o.errorOnRemoveCount = tracked[e].errorOnRemoveCount + 1
  BY <1>1, <1>2, <1>3 DEF TrackedExpectation
<1>5. s \in {"NEW", "REMOVED"} /\ s \in State /\ isError \in BOOLEAN
  BY DEF State
<1>6. /\ tracked' = [tracked EXCEPT ![e] = new]
      /\ hadError' = IF isError THEN hadError \cup {e} ELSE hadError
      /\ IF TooManyFailures(o.errorOnRemoveCount)
         THEN removeIds' = removeIds \cup {e} /\ ReportDropped(e)
         ELSE UNCHANGED removeIds /\ ReportState(e, "REMOVED", s)
  BY DEF RemovalFails
<1> HIDE DEF o, s, isError
<1>7. /\ new \in TrackedExpectation /\ new # None /\ new.state = s
      /\ new.exp = o.exp /\ new.errorOnRemoveCount = o.errorOnRemoveCount
  BY <1>4, <1>5, WithStateType
<1> HIDE DEF new
<1>8. Touches(e) /\ tracked'[e] = new
  BY <1>1, <1>4, <1>6, <1>7 DEF Touches, TypeOK
<1>9. hadError' \in SUBSET Exp /\ runAgainASAP' \in BOOLEAN
  BY <1>1, <1>6 DEF TypeOK
<1>10. reported' \in [Exp -> State \cup {None}]
  BY <1>1, <1>5, <1>6, ReportStateType DEF TypeOK, ReportDropped
<1>11. /\ removeIds' \in {removeIds, removeIds \cup {e}}
       /\ tracked'[e].errorOnRemoveCount > FAILED_REMOVE_COUNT => e \in removeIds'
  BY <1>6, <1>7, <1>8 DEF TooManyFailures
<1>12. IF e \in removeIds' THEN DropReported(e) ELSE StateReported(e)
  <2>1. reported \in [Exp -> State \cup {None}]
    BY <1>1 DEF TypeOK
  <2>2. CASE TooManyFailures(o.errorOnRemoveCount)
    BY <1>6, <2>1, <2>2 DEF ReportDropped, DropReported
  <2>3. CASE ~TooManyFailures(o.errorOnRemoveCount)
    BY <1>6, <1>7, <1>8, <2>1, <2>3 DEF ReportState, StateReported
  <2> QED BY <2>2, <2>3
<1> QED BY <1>5, <1>7, <1>8, <1>9, <1>10, <1>11, <1>12 DEF Evaluated

LEMMA EvaluateRemovedEvaluated ==
  ASSUME IInv, NEW e \in Exp, tracked[e] # None, e \notin removeIds, EvaluateRemoved(e)
  PROVE  Evaluated(e)
<1>1. TypeOK /\ tracked[e] \in TrackedExpectation
      /\ tracked[e].errorOnRemoveCount \in 0 .. FAILED_REMOVE_COUNT
  BY CanEvaluateCount DEF IInv
<1>2. tracked[e].state = "REMOVED" /\ UNCHANGED runAgainASAP
  BY DEF EvaluateRemoved
<1>3. CASE HandlerThrows(e) /\ UNCHANGED removeIds
  BY <1>2, <1>3, HandlerThrowsEvaluated
<1>4. ASSUME NEW a \in Assignments(tracked[e]), RemovalFails(e, a)
      PROVE  Evaluated(e)
  BY <1>2, <1>4, RemovalFailsEvaluated
<1>5. ASSUME NEW a \in Assignments(tracked[e]),
             tracked' = [tracked EXCEPT ![e].availableWorkers = a.available],
             removeIds' = removeIds \cup {e}, ReportDropped(e), UNCHANGED hadError
      PROVE  Evaluated(e)
  <2> DEFINE o == [tracked[e] EXCEPT !.availableWorkers = a.available]
  <2>1. /\ o \in TrackedExpectation /\ o.exp = tracked[e].exp /\ o.state = "REMOVED"
        /\ o.errorOnRemoveCount = tracked[e].errorOnRemoveCount
    BY <1>1, <1>2, AssignmentsType, WithWorkersType
  <2>2. o # None /\ tracked' = [tracked EXCEPT ![e] = o]
    BY <1>5, <2>1, NoneAssumption
  <2> HIDE DEF o
  <2>3. Touches(e) /\ tracked'[e] = o
    BY <1>1, <2>1, <2>2 DEF Touches, TypeOK
  <2>4. DropReported(e)
    BY <1>1, <1>5 DEF TypeOK, ReportDropped, DropReported
  <2> QED BY <1>1, <1>2, <1>5, <2>1, <2>3, <2>4 DEF Evaluated, TypeOK, ReportDropped
<1> QED BY <1>3, <1>4, <1>5 DEF EvaluateRemoved

LEMMA RemoveThenEvaluated ==
  ASSUME IInv, NEW e \in Exp, tracked[e] # None, e \notin removeIds, tracked[e].state # "WORKING",
         NEW next \in State \ {"WORKING"}, RemoveThen(e, next)
  PROVE  Evaluated(e)
<1>1. tracked[e] \in TrackedExpectation /\ UNCHANGED <<removeIds, runAgainASAP>>
  BY CanEvaluateCount DEF RemoveThen
<1>2. CASE HandlerThrows(e)
  BY <1>1, <1>2, HandlerThrowsEvaluated
<1>3. ASSUME NEW a \in Assignments(tracked[e]),
             NoWorkerAssigned(e, [tracked[e] EXCEPT !.availableWorkers = a.available])
      PROVE  Evaluated(e)
  BY <1>1, <1>3, NoWorkerEvaluated
<1>4. ASSUME NEW a \in Assignments(tracked[e]),
             UpdateStatus(e, [tracked[e] EXCEPT !.availableWorkers = a.available], next, FALSE)
      PROVE  Evaluated(e)
  BY <1>1, <1>4, AssignedUpdate
<1>5. ASSUME NEW a \in Assignments(tracked[e]),
             UpdateStatus(e, [tracked[e] EXCEPT !.availableWorkers = a.available],
                          [tracked[e] EXCEPT !.availableWorkers = a.available].state, TRUE)
      PROVE  Evaluated(e)
  <2>1. /\ [tracked[e] EXCEPT !.availableWorkers = a.available].state = tracked[e].state
        /\ tracked[e].state \in State \ {"WORKING"}
    BY <1>1, AssignmentsType, WithWorkersType DEF TrackedExpectation
  <2> QED BY <1>1, <1>5, <2>1, AssignedUpdate
<1> QED BY <1>2, <1>3, <1>4, <1>5 DEF RemoveThen

LEMMA RestartedOrAbortedEvaluated ==
  ASSUME IInv, NEW e \in Exp, tracked[e] # None, e \notin removeIds,
         EvaluateRestarted(e) \/ EvaluateAborted(e)
  PROVE  Evaluated(e)
<1>1. /\ tracked[e].state # "WORKING"
      /\ RemoveThen(e, "NEW") \/ RemoveThen(e, "ABORTED")
  BY DEF EvaluateRestarted, EvaluateAborted
<1> QED BY <1>1, RemoveThenEvaluated DEF State

-----------------------------------------------------------------------------
(* An evaluation keeps the invariant: it works on one Expectation that is  *)
(* not WORKING and does not become WORKING.                                *)

\* Where the run is after a step of the evaluation.
EvaluatingType ==
  /\ pc \in {"parallel", "serial", "starting"}
  /\ phase \in 0 .. 6 /\ pending \in SUBSET Exp /\ starting \in Start \cup {None}
  /\ PendingIsInPhase

LEMMA EvaluationKeepsIInv ==
  ASSUME IInv, Evaluating, NEW e \in Exp, tracked[e] # None, tracked[e].state # "WORKING",
         Evaluated(e), EvaluatingType',
         UNCHANGED <<receivedVars, worksInProgress, workerAgents, cancels, awaiting>>
  PROVE  IInv'
<1>1. /\ tracked' \in [Exp -> TrackedExpectation \cup {None}]
      /\ \A x \in Exp : tracked'[x] = None <=> tracked[x] = None
      /\ \A x \in Exp : tracked[x] # None => tracked'[x].exp = tracked[x].exp
      /\ \A x \in Exp \ {e} : tracked[x] # None =>
           /\ tracked'[x].state = tracked[x].state
           /\ tracked'[x].errorOnRemoveCount = tracked[x].errorOnRemoveCount
           /\ tracked'[x].cancel = tracked[x].cancel
  BY DEF Evaluated, Touches
<1>2. /\ tracked'[e].state # "WORKING" /\ tracked'[e] # None
      /\ removeIds' \in {removeIds, removeIds \cup {e}}
      /\ e \in removeIds' => tracked'[e].state \in {"REMOVED", "NEW"}
      /\ tracked'[e].errorOnRemoveCount > FAILED_REMOVE_COUNT => e \in removeIds'
  BY <1>1 DEF Evaluated
<1>3. /\ UNCHANGED <<expectations, restart, abort, restartAll, updated, containersUpdated>>
      /\ UNCHANGED <<worksInProgress, workerAgents, cancels, awaiting>>
  BY DEF receivedVars
<1>4. Wips' = Wips /\ \A k \in Wips : worksInProgress[k].exp \in Exp
  BY <1>3 DEF Wips, IInv, TypeOK, WorkInProgress
<1>5. InState("WORKING")' = InState("WORKING")
  BY <1>1, <1>2 DEF InState, Tracked
<1>6. \A x, k : IsWipOf(k, x)' <=> IsWipOf(k, x)
  BY <1>3 DEF IsWipOf
<1>7. \A x \in InState("WORKING") : tracked'[x].cancel = tracked[x].cancel
  BY <1>1 DEF InState, Tracked
<1>8. TypeOK'
  <2>1. removeIds' \in SUBSET Exp
    BY <1>2 DEF IInv, TypeOK
  <2>2. hadError' \in SUBSET Exp /\ reported' \in [Exp -> State \cup {None}]
        /\ runAgainASAP' \in BOOLEAN
    BY DEF Evaluated
  <2> QED BY <1>1, <1>3, <2>1, <2>2 DEF IInv, TypeOK, EvaluatingType
<1>9. WipsAreTracked'
  BY <1>1, <1>3, <1>4 DEF IInv, WipsAreTracked
<1>10. WipsAreWorking'
  BY <1>1, <1>3, <1>4 DEF IInv, WipsAreWorking, WipIsWorking, WipsAreTracked
<1>11. PendingIsInPhase'
  BY DEF EvaluatingType
<1>12. RemovalsAreOver'
  <2>1. Evaluating'
    BY DEF EvaluatingType, Evaluating
  <2>2. \A x \in removeIds' : tracked'[x] # None /\ tracked'[x].state \in {"REMOVED", "NEW"}
    BY <1>1, <1>2 DEF IInv, RemovalsAreOver, InState, Tracked
  <2>3. removeIds' \subseteq Exp
    BY <1>2 DEF IInv, TypeOK
  <2>4. \A x \in Exp : tracked'[x] # None /\ tracked'[x].errorOnRemoveCount > FAILED_REMOVE_COUNT
                       => x \in removeIds'
    BY <1>1, <1>2 DEF IInv, RemovalsAreOver, Tracked
  <2> QED BY <2>1, <2>2, <2>3, <2>4 DEF RemovalsAreOver, InState, Tracked
<1>13. OneWorkInProgress'
  BY <1>5, <1>6 DEF IInv, OneWorkInProgress
<1>14. TrackedIsUpToDate'
  BY <1>1, <1>3 DEF IInv, TrackedIsUpToDate, Tracked
<1>15. NoWorkIsLost'
  BY <1>3, <1>4, <1>5, <1>6 DEF IInv, NoWorkIsLost, WorkingIsMonitored
<1>16. CancelsAreAwaited'
  <2> SUFFICES ASSUME Inputs \cap {"workerRestarts", "cancelFails"} = {}
               PROVE  CancelsAreAwaited'
    BY DEF CancelsAreAwaited
  <2>1. cancels' = {}
    BY <1>3 DEF IInv, CancelsAreAwaited, Evaluating
  <2>2. WorkingCanBeCancelled'
    BY <1>5, <1>6, <1>7 DEF IInv, CancelsAreAwaited, WorkingCanBeCancelled
  <2> QED BY <2>1, <2>2 DEF CancelsAreAwaited
<1>17. AwaitsBeforeEvaluating'
  BY <1>3 DEF IInv, AwaitsBeforeEvaluating, Evaluating
<1> QED BY <1>8, <1>9, <1>10, <1>11, <1>12, <1>13, <1>14, <1>15, <1>16, <1>17 DEF IInv

LEMMA InParallelEvaluated ==
  ASSUME IInv, NEW e \in Exp, EvaluateInParallel(e)
  PROVE  /\ phase \in 1 .. 6 /\ pending \subseteq InState(ParallelStates[phase])
         /\ tracked[e] # None /\ tracked[e].state # "WORKING" /\ Evaluating
         /\ Evaluated(e)
<1>1. pc = "parallel" /\ e \in pending
  BY DEF EvaluateInParallel
<1>2. phase \in 1 .. 6 /\ pending \subseteq InState(ParallelStates[phase])
  BY <1>1, ParallelStateNames DEF IInv, PendingIsInPhase
<1>3. tracked[e] # None /\ tracked[e].state # "WORKING" /\ Evaluating
  BY <1>1, <1>2, ParallelStateNames DEF InState, Tracked, Evaluating
<1>4. Evaluated(e)
  <2>1. CASE ~CanEvaluate(e) /\ UNCHANGED <<tracked, reported, sessionVars>>
    BY <1>3, <2>1, UntouchedEvaluated
  <2>2. CASE CanEvaluate(e)
    <3>1. e \notin removeIds
      BY <2>2 DEF CanEvaluate
    <3>2. CASE EvaluateAborted(e) \/ EvaluateRestarted(e)
      BY <1>3, <3>1, <3>2, RestartedOrAbortedEvaluated
    <3>3. CASE EvaluateRemoved(e)
      BY <1>3, <3>1, <3>3, EvaluateRemovedEvaluated
    <3>4. CASE EvaluateNew(e)
      BY <1>3, <3>1, <3>4, EvaluateNewEvaluated
    <3>5. CASE EvaluateWaiting(e)
      BY <1>3, <3>1, <3>5, EvaluateWaitingEvaluated
    <3>6. CASE EvaluateFulfilled(e)
      BY <1>3, <3>1, <3>6, EvaluateFulfilledEvaluated
    <3> QED BY <2>2, <3>2, <3>3, <3>4, <3>5, <3>6 DEF EvaluateInParallel
  <2> QED BY <2>1, <2>2 DEF EvaluateInParallel
<1> QED BY <1>2, <1>3, <1>4

LEMMA EvaluateInParallelKeepsIInv ==
  ASSUME IInv, NEW e \in Exp, EvaluateInParallel(e)
  PROVE  IInv'
<1>1. /\ pc = "parallel" /\ e \in pending /\ pending' = pending \ {e}
      /\ UNCHANGED <<receivedVars, worksInProgress, workerAgents, cancels, awaiting>>
      /\ UNCHANGED <<pc, phase, starting>>
  BY DEF EvaluateInParallel
<1>2. phase \in 1 .. 6 /\ pending \subseteq InState(ParallelStates[phase])
  BY InParallelEvaluated
<1>3. tracked[e] # None /\ tracked[e].state # "WORKING" /\ Evaluating
  BY InParallelEvaluated
<1>4. Evaluated(e)
  BY InParallelEvaluated
<1>5. pending' \subseteq InState(ParallelStates[phase])'
  BY <1>1, <1>2, <1>4 DEF Evaluated, Touches, InState, Tracked
<1>6. EvaluatingType'
  BY <1>1, <1>2, <1>5, ParallelStateNames DEF EvaluatingType, IInv, TypeOK, PendingIsInPhase
<1> QED BY <1>1, <1>3, <1>4, <1>6, EvaluationKeepsIInv

LEMMA RestAfterType ==
  ASSUME NEW e
  PROVE  RestAfter(e) \subseteq pending \ {e}
  BY DEF RestAfter

\* The rest of the READY Expectations are still READY after the evaluation of one.
LEMMA SerialStepKeepsIInv ==
  ASSUME IInv, pc \in {"serial", "starting"}, NEW e \in InState("READY"), Evaluated(e),
         pc' = "serial", starting' \in {starting, None}, pending' = RestAfter(e),
         UNCHANGED <<receivedVars, worksInProgress, workerAgents, cancels, awaiting, phase>>
  PROVE  IInv'
<1>1. e \in Exp /\ tracked[e] # None /\ tracked[e].state # "WORKING" /\ Evaluating
  BY DEF InState, Tracked, Evaluating
<1>2. pending' \subseteq pending \ {e} /\ pending \subseteq InState("READY")
  BY RestAfterType DEF IInv, PendingIsInPhase
<1>3. pending' \subseteq InState("READY")'
  BY <1>2 DEF Evaluated, Touches, InState, Tracked
<1>4. EvaluatingType'
  BY <1>2, <1>3 DEF EvaluatingType, IInv, TypeOK, PendingIsInPhase
<1> QED BY <1>1, <1>4, EvaluationKeepsIInv

\* A READY Expectation is to be started, stays READY or is NEW again.
LEMMA ReadyEvaluated ==
  ASSUME IInv, NEW e \in Exp, EvaluateReady(e)
  PROVE  /\ e \in InState("READY") /\ tracked[e] # None /\ tracked[e].state = "READY"
         /\ e \notin removeIds /\ Evaluating
         /\ Evaluated(e)
         /\ \/ pending' = RestAfter(e) /\ UNCHANGED <<pc, starting>>
            \/ /\ pc' = "starting" /\ UNCHANGED pending
               /\ starting' \in Start /\ starting'.exp = e /\ tracked'[e].state = "READY"
<1>1. pc = "serial" /\ e \in pending /\ UNCHANGED <<removeIds, runAgainASAP>>
  BY DEF EvaluateReady
<1>2. e \in InState("READY") /\ tracked[e] # None /\ tracked[e].state = "READY"
  BY <1>1 DEF IInv, PendingIsInPhase, InState, Tracked
<1>3. e \notin removeIds /\ Evaluating
  BY <1>1, <1>2 DEF IInv, RemovalsAreOver, InState, Evaluating
<1>4. tracked[e] \in TrackedExpectation /\ tracked[e].errorOnRemoveCount \in 0 .. FAILED_REMOVE_COUNT
  BY <1>2, <1>3, CanEvaluateCount
<1>5. CASE pending' = RestAfter(e) /\ UNCHANGED <<pc, starting>>
  <2>1. CASE HandlerThrows(e)
    BY <1>1, <1>2, <1>3, <1>5, <2>1, HandlerThrowsEvaluated
  <2>2. CASE UNCHANGED <<tracked, reported, hadError>>
    BY <1>1, <1>2, <1>3, <1>5, <2>2, UntouchedEvaluated DEF sessionVars
  <2>3. ASSUME NEW a \in Assignments(tracked[e]),
               NoWorkerAssigned(e, [tracked[e] EXCEPT !.availableWorkers = a.available])
        PROVE  Evaluated(e)
    BY <1>1, <1>2, <1>3, <2>3, NoWorkerEvaluated
  <2>4. ASSUME NEW a \in Assignments(tracked[e]),
               UpdateStatus(e, [tracked[e] EXCEPT !.availableWorkers = a.available], "NEW", FALSE)
        PROVE  Evaluated(e)
    BY <1>1, <1>2, <1>3, <2>4, AssignedUpdate DEF State
  <2> QED BY <1>1, <1>2, <1>3, <1>5, <2>1, <2>2, <2>3, <2>4 DEF EvaluateReady
<1>6. ASSUME NEW a \in Assignments(tracked[e]), a.worker # None,
             pc' = "starting", starting' = [exp |-> e, worker |-> a.worker],
             tracked' = [tracked EXCEPT ![e] = [tracked[e] EXCEPT !.availableWorkers = a.available]],
             UNCHANGED <<pending, hadError, reported>>
      PROVE  /\ Evaluated(e)
             /\ pc' = "starting" /\ UNCHANGED pending
             /\ starting' \in Start /\ starting'.exp = e /\ tracked'[e].state = "READY"
  <2> DEFINE o == [tracked[e] EXCEPT !.availableWorkers = a.available]
  <2>1. /\ o \in TrackedExpectation /\ o.exp = tracked[e].exp /\ o.state = "READY"
        /\ o.errorOnRemoveCount = tracked[e].errorOnRemoveCount
    BY <1>2, <1>4, AssignmentsType, WithWorkersType
  <2>2. o # None /\ tracked' = [tracked EXCEPT ![e] = o]
    BY <1>6, <2>1, NoneAssumption
  <2> HIDE DEF o
  <2>3. Touches(e) /\ tracked'[e] = o
    BY <1>2, <2>1, <2>2 DEF Touches, IInv, TypeOK
  <2>4. ~(o.errorOnRemoveCount > FAILED_REMOVE_COUNT)
    BY <1>4, <2>1, ConstantsAssumption
  <2>5. StateReported(e)
    BY <1>2, <1>6, <2>1, <2>3 DEF StateReported
  <2>6. Evaluated(e)
    BY <1>1, <1>3, <1>6, <2>1, <2>3, <2>4, <2>5 DEF Evaluated, IInv, TypeOK
  <2>7. a.worker \in Worker
    BY <1>4, <1>6, AssignmentsType
  <2> QED BY <1>6, <2>1, <2>3, <2>6, <2>7 DEF Start
<1> QED BY <1>2, <1>3, <1>5, <1>6 DEF EvaluateReady

LEMMA EvaluateReadyKeepsIInv ==
  ASSUME IInv, NEW e \in Exp, EvaluateReady(e)
  PROVE  IInv'
<1>1. /\ pc = "serial"
      /\ UNCHANGED <<receivedVars, worksInProgress, workerAgents, cancels, awaiting, phase>>
  BY DEF EvaluateReady
<1>2. /\ e \in InState("READY") /\ tracked[e] # None /\ tracked[e].state # "WORKING"
      /\ Evaluating /\ Evaluated(e)
  BY ReadyEvaluated
<1>3. CASE pending' = RestAfter(e) /\ UNCHANGED <<pc, starting>>
  BY <1>1, <1>2, <1>3, SerialStepKeepsIInv
<1>4. CASE /\ pc' = "starting" /\ UNCHANGED pending
           /\ starting' \in Start /\ starting'.exp = e /\ tracked'[e].state = "READY"
  <2>1. pending \subseteq InState("READY")
    BY <1>1 DEF IInv, PendingIsInPhase
  <2>2. pending \subseteq InState("READY")' /\ e \in InState("READY")'
    BY <1>2, <1>4, <2>1 DEF Evaluated, Touches, InState, Tracked
  <2>3. starting' # None
    BY <1>4, NoneAssumption
  <2>4. EvaluatingType'
    BY <1>1, <1>4, <2>2, <2>3 DEF EvaluatingType, IInv, TypeOK, PendingIsInPhase
  <2> QED BY <1>1, <1>2, <2>4, EvaluationKeepsIInv
<1> QED BY <1>3, <1>4, ReadyEvaluated

\* An Expectation of which the start fails is NEW again.
LEMMA NotStartedEvaluated ==
  ASSUME IInv, WorkNotStarted
  PROVE  starting.exp \in InState("READY") /\ Evaluated(starting.exp)
<1> DEFINE e == starting.exp
<1>1. /\ pc = "starting" /\ UpdateStatus(e, tracked[e], "NEW", TRUE)
      /\ UNCHANGED <<removeIds, runAgainASAP>>
  BY DEF WorkNotStarted
<1>2. e \in InState("READY")
  BY <1>1 DEF IInv, PendingIsInPhase
<1> HIDE DEF e
<1>3. e \in Exp /\ tracked[e] # None /\ e \notin removeIds
  BY <1>2 DEF IInv, RemovalsAreOver, InState, Tracked
<1>4. tracked[e] \in TrackedExpectation
  BY <1>3, CanEvaluateCount
<1>5. Evaluated(e)
  BY <1>1, <1>3, <1>4, UpdateStatusEvaluated DEF State
<1> QED BY <1>2, <1>5 DEF e

LEMMA WorkNotStartedKeepsIInv ==
  ASSUME IInv, WorkNotStarted
  PROVE  IInv'
<1>1. /\ pc = "starting" /\ pc' = "serial" /\ starting' = None /\ pending' = RestAfter(starting.exp)
      /\ UNCHANGED <<receivedVars, worksInProgress, workerAgents, cancels, awaiting, phase>>
  BY DEF WorkNotStarted
<1>2. starting.exp \in InState("READY") /\ Evaluated(starting.exp)
  BY NotStartedEvaluated
<1> QED BY <1>1, <1>2, SerialStepKeepsIInv

-----------------------------------------------------------------------------
(* Steps that leave the tracked objects and the works in progress alone.   *)

\* What is received is typed.
ReceivedType ==
  /\ expectations \in [Exp -> Content \cup {None}]
  /\ restart \in SUBSET Exp /\ abort \in SUBSET Exp
  /\ restartAll \in BOOLEAN /\ updated \in BOOLEAN /\ containersUpdated \in BOOLEAN

\* Nothing comes in that a run has to pull in.
NothingReceived ==
  /\ UNCHANGED <<expectations, updated>>
  /\ restart' \subseteq restart /\ abort' \subseteq abort /\ (restartAll' => restartAll)

LEMMA ReceivingKeepsIInv ==
  ASSUME IInv, ReceivedType', workerAgents' \in SUBSET Worker,
         updated' \/ NothingReceived,
         \/ UNCHANGED pc
         \/ /\ pc \in {"idle", "cancelling", "containers"} /\ pc' \in {"containers", "checking"}
            /\ pc = "cancelling" => awaiting = {},
         UNCHANGED <<tracked, worksInProgress, cancels, awaiting, phase, pending, starting,
                     sessionVars, reported>>
  PROVE  IInv'
<1>1. /\ UNCHANGED <<tracked, worksInProgress, cancels, awaiting, phase, pending, starting>>
      /\ UNCHANGED <<hadError, removeIds, runAgainASAP, reported>>
  BY DEF sessionVars
<1>2. /\ Evaluating' <=> Evaluating
      /\ pc' \in {"parallel", "serial", "starting"} => pc' = pc
  BY DEF Evaluating
<1>3. InState("WORKING")' = InState("WORKING") /\ \A x, k : IsWipOf(k, x)' <=> IsWipOf(k, x)
  BY <1>1 DEF InState, Tracked, IsWipOf
<1>4. TypeOK'
  BY <1>1 DEF IInv, TypeOK, ReceivedType
<1>5. WipsAreTracked' /\ WipsAreWorking'
  BY <1>1, <1>2 DEF IInv, WipsAreTracked, WipsAreWorking, Wips, WipIsWorking
<1>6. PendingIsInPhase'
  BY <1>1, <1>2 DEF IInv, PendingIsInPhase, InState, Tracked
<1>7. RemovalsAreOver'
  BY <1>1, <1>2 DEF IInv, RemovalsAreOver, InState, Tracked
<1>8. OneWorkInProgress'
  BY <1>3 DEF IInv, OneWorkInProgress
<1>9. TrackedIsUpToDate'
  BY <1>1 DEF IInv, TrackedIsUpToDate, Tracked, NothingReceived
<1>10. NoWorkIsLost'
  BY <1>1, <1>3 DEF IInv, NoWorkIsLost, WorkingIsMonitored, Wips
<1>11. CancelsAreAwaited'
  BY <1>1, <1>3 DEF IInv, CancelsAreAwaited, WorkingCanBeCancelled
<1>12. AwaitsBeforeEvaluating'
  BY <1>1 DEF IInv, AwaitsBeforeEvaluating
<1> QED BY <1>4, <1>5, <1>6, <1>7, <1>8, <1>9, <1>10, <1>11, <1>12 DEF IInv

LEMMA OwnerKeepsIInv ==
  ASSUME IInv, Owner
  PROVE  IInv'
<1>1. /\ UNCHANGED <<tracked, worksInProgress, workerAgents, cancels, pc>>
      /\ UNCHANGED <<awaiting, phase, pending, starting, sessionVars, reported>>
      /\ updated' \/ NothingReceived
  BY DEF Owner, SetExpectations, RestartExpectation, AbortExpectation, RestartAllExpectations,
         UpdatePackageContainers, runnerVars, NothingReceived
<1>2. ReceivedType'
  <2> USE DEF ReceivedType
  <2>0. ReceivedType
    BY DEF IInv, TypeOK
  <2>1. ASSUME NEW e \in Exp, NEW v \in Content \cup {None}, SetExpectations(e, v)
        PROVE  ReceivedType'
    BY <2>0, <2>1 DEF SetExpectations
  <2>2. ASSUME NEW e \in Exp, RestartExpectation(e)
        PROVE  ReceivedType'
    BY <2>0, <2>2 DEF RestartExpectation
  <2>3. ASSUME NEW e \in Exp, AbortExpectation(e)
        PROVE  ReceivedType'
    BY <2>0, <2>3 DEF AbortExpectation
  <2>4. CASE RestartAllExpectations
    BY <2>0, <2>4 DEF RestartAllExpectations
  <2>5. CASE UpdatePackageContainers
    BY <2>0, <2>5 DEF UpdatePackageContainers
  <2> QED BY <2>1, <2>2, <2>3, <2>4, <2>5 DEF Owner
<1>3. workerAgents' \in SUBSET Worker
  BY <1>1 DEF IInv, TypeOK
<1> QED BY <1>1, <1>2, <1>3, ReceivingKeepsIInv

LEMMA WorkerAgentsKeepIInv ==
  ASSUME IInv, NEW w \in Worker, WorkerConnects(w) \/ WorkerGone(w)
  PROVE  IInv'
<1>1. UNCHANGED <<receivedVars, tracked, worksInProgress, cancels, runnerVars, sessionVars, reported>>
  BY DEF WorkerConnects, WorkerGone
<1>2. ReceivedType' /\ workerAgents' \in SUBSET Worker
  BY <1>1 DEF WorkerConnects, WorkerGone, ReceivedType, IInv, TypeOK, receivedVars
<1> QED BY <1>1, <1>2, ReceivingKeepsIInv DEF receivedVars, runnerVars, NothingReceived

LEMMA OntoEvaluationKeepsIInv ==
  ASSUME IInv, StartRun \/ CancelsDone \/ PackageContainersDone
  PROVE  IInv'
<1>1. /\ UNCHANGED <<expectations, updated, tracked, worksInProgress, workerAgents, cancels>>
      /\ UNCHANGED <<awaiting, phase, pending, starting, sessionVars, reported>>
  BY DEF StartRun, CancelsDone, PackageContainersDone
<1>2. /\ pc \in {"idle", "cancelling", "containers"} /\ pc' \in {"containers", "checking"}
      /\ pc = "cancelling" => awaiting = {}
  BY DEF StartRun, CancelsDone, PackageContainersDone, ToPackageContainers
<1>3. ReceivedType' /\ workerAgents' \in SUBSET Worker
  BY <1>1 DEF StartRun, CancelsDone, PackageContainersDone, ToPackageContainers,
              ReceivedType, IInv, TypeOK
<1>4. restart' \in {restart, {}} /\ abort' = abort /\ restartAll' = restartAll
  BY DEF StartRun, CancelsDone, PackageContainersDone
<1>5. NothingReceived
  BY <1>1, <1>4 DEF NothingReceived
<1> QED BY <1>1, <1>2, <1>3, <1>5, ReceivingKeepsIInv

-----------------------------------------------------------------------------
(* Steps that only change details of the tracked objects and of the works. *)

OnlyDetails ==
  /\ tracked' \in [Exp -> TrackedExpectation \cup {None}]
  /\ \A x \in Exp : /\ tracked'[x] = None <=> tracked[x] = None
                    /\ tracked[x] # None => /\ tracked'[x].exp = tracked[x].exp
                                            /\ tracked'[x].state = tracked[x].state
                                            /\ tracked'[x].errorOnRemoveCount
                                                 = tracked[x].errorOnRemoveCount
  /\ worksInProgress' \in [WipKey -> WorkInProgress \cup {None}]
  /\ \A k \in WipKey : /\ worksInProgress'[k] = None <=> worksInProgress[k] = None
                       /\ worksInProgress[k] # None =>
                            /\ worksInProgress'[k].exp = worksInProgress[k].exp
                            /\ worksInProgress'[k].object = worksInProgress[k].object
                            /\ worksInProgress'[k].job = "dead" =>
                                 "workerRestarts" \in Inputs \/ worksInProgress[k].job = "dead"

LEMMA DetailsKeepIInv ==
  ASSUME IInv, OnlyDetails, CancelsAreAwaited', cancels' \subseteq cancels, awaiting' \subseteq awaiting,
         UNCHANGED pc \/ (pc = "cancelling" /\ pc' = "idle" /\ awaiting' = {}),
         UNCHANGED <<receivedVars, workerAgents, phase, pending, starting, sessionVars, reported>>
  PROVE  IInv'
<1>1. /\ UNCHANGED <<expectations, restart, abort, restartAll, updated, containersUpdated>>
      /\ UNCHANGED <<workerAgents, phase, pending, starting, reported>>
      /\ UNCHANGED <<hadError, removeIds, runAgainASAP>>
  BY DEF sessionVars, receivedVars
<1>2. Evaluating' <=> Evaluating
  BY DEF Evaluating
<1>3. \A s : InState(s)' = InState(s)
  BY DEF OnlyDetails, InState, Tracked
<1>4. \A x : \A k \in WipKey : IsWipOf(k, x)' <=> IsWipOf(k, x)
  BY DEF OnlyDetails, IsWipOf
<1>5. Wips' = Wips /\ \A k \in Wips : worksInProgress[k].exp \in Exp
  BY DEF OnlyDetails, Wips, IInv, TypeOK, WorkInProgress
<1>6. TypeOK'
  <2>1. pc' \in {"idle", "cancelling", "containers", "checking", "parallel", "serial", "starting"}
    BY DEF IInv, TypeOK
  <2> QED BY <1>1, <2>1 DEF IInv, TypeOK, OnlyDetails
<1>7. WipsAreTracked'
  BY <1>5 DEF IInv, WipsAreTracked, OnlyDetails, Wips
<1>8. WipsAreWorking'
  BY <1>2, <1>5 DEF IInv, WipsAreWorking, WipsAreTracked, WipIsWorking, OnlyDetails, Wips
<1>9. PendingIsInPhase'
  BY <1>1, <1>3 DEF IInv, PendingIsInPhase
<1>10. AwaitsBeforeEvaluating'
  BY DEF IInv, AwaitsBeforeEvaluating
<1>11. RemovalsAreOver'
  <2>1. removeIds' # {} => Evaluating'
    BY <1>1, <1>2 DEF IInv, RemovalsAreOver
  <2>2. removeIds' \subseteq InState("REMOVED")' \cup InState("NEW")'
    BY <1>1, <1>3 DEF IInv, RemovalsAreOver
  <2>3. \A e \in Tracked' : tracked'[e].errorOnRemoveCount > FAILED_REMOVE_COUNT => e \in removeIds'
    BY <1>1 DEF IInv, RemovalsAreOver, OnlyDetails, Tracked
  <2> QED BY <2>1, <2>2, <2>3 DEF RemovalsAreOver
<1>12. OneWorkInProgress'
  BY <1>3, <1>4 DEF IInv, OneWorkInProgress
<1>13. TrackedIsUpToDate'
  BY <1>1 DEF IInv, TrackedIsUpToDate, Tracked, OnlyDetails
<1>14. NoWorkIsLost'
  <2> SUFFICES ASSUME "workerRestarts" \notin Inputs
               PROVE  NoWorkIsLost'
    BY DEF NoWorkIsLost
  <2>1. WorkingIsMonitored'
    BY <1>3, <1>4 DEF IInv, NoWorkIsLost, WorkingIsMonitored
  <2>2. \A k \in Wips' : worksInProgress'[k].job # "dead"
    BY <1>5 DEF IInv, NoWorkIsLost, OnlyDetails, Wips
  <2> QED BY <2>1, <2>2 DEF NoWorkIsLost
<1> QED BY <1>6, <1>7, <1>8, <1>9, <1>10, <1>11, <1>12, <1>13, <1>14 DEF IInv

\* While the cancels are left alone, the details do not matter to them.
LEMMA DetailsKeepCancels ==
  ASSUME IInv, OnlyDetails, UNCHANGED <<cancels, awaiting, pc>>,
         \A x \in Exp : tracked[x] # None => tracked'[x].cancel = tracked[x].cancel
  PROVE  CancelsAreAwaited'
<1>1. InState("WORKING")' = InState("WORKING")
      /\ \A x \in InState("WORKING") : tracked'[x].cancel = tracked[x].cancel
  BY DEF OnlyDetails, InState, Tracked
<1>2. \A x \in InState("WORKING") : IsWipOf(tracked[x].cancel, x) /\ tracked[x].cancel # None
                                    => IsWipOf(tracked[x].cancel, x)'
  <2> SUFFICES ASSUME NEW x \in InState("WORKING"), tracked[x].cancel # None
               PROVE  IsWipOf(tracked[x].cancel, x) => IsWipOf(tracked[x].cancel, x)'
    OBVIOUS
  <2>1. tracked[x].cancel \in WipKey
    BY DEF IInv, TypeOK, InState, Tracked, TrackedExpectation
  <2>2. tracked'[x].cancel = tracked[x].cancel
    BY <1>1
  <2> QED BY <2>1, <2>2 DEF OnlyDetails, IsWipOf
<1>3. WorkingCanBeCancelled => WorkingCanBeCancelled'
  BY <1>1, <1>2 DEF WorkingCanBeCancelled
<1> QED BY <1>1, <1>3 DEF IInv, CancelsAreAwaited

\* Another field of a work in progress.
LEMMA WipFieldType ==
  ASSUME NEW wip \in WorkInProgress, NEW job \in {"running", "silent", "dead"},
         NEW stalled \in BOOLEAN
  PROVE  /\ [wip EXCEPT !.job = job] \in WorkInProgress
         /\ [wip EXCEPT !.stalled = stalled] \in WorkInProgress
         /\ [wip EXCEPT !.job = job] # None /\ [wip EXCEPT !.stalled = stalled] # None
         /\ [wip EXCEPT !.job = job].exp = wip.exp /\ [wip EXCEPT !.job = job].object = wip.object
         /\ [wip EXCEPT !.job = job].job = job
         /\ [wip EXCEPT !.stalled = stalled].exp = wip.exp
         /\ [wip EXCEPT !.stalled = stalled].object = wip.object
         /\ [wip EXCEPT !.stalled = stalled].job = wip.job
<1>1. /\ [wip EXCEPT !.job = job] \in WorkInProgress
      /\ [wip EXCEPT !.stalled = stalled] \in WorkInProgress
  BY DEF WorkInProgress
<1> QED BY <1>1, NoneAssumption DEF WorkInProgress

\* Steps that change nothing but the job or the timer of works in progress.
LEMMA WipDetails ==
  ASSUME IInv,
         \/ \E w \in Worker : WorkerRestarts(w)
         \/ \E k \in WipKey : WorkStalls(k) \/ OnWipEventProgress(k) \/ WipEventLost(k)
  PROVE  /\ OnlyDetails
         /\ UNCHANGED <<receivedVars, tracked, workerAgents, cancels, runnerVars, sessionVars, reported>>
<1>1. UNCHANGED <<receivedVars, tracked, workerAgents, cancels, runnerVars, sessionVars, reported>>
  BY DEF WorkerRestarts, WorkStalls, OnWipEventProgress, WipEventLost
<1>2. \A k \in WipKey : worksInProgress[k] # None => worksInProgress[k] \in WorkInProgress
  BY DEF IInv, TypeOK
<1> DEFINE Kept == \A k \in WipKey :
      /\ worksInProgress'[k] \in WorkInProgress \cup {None}
      /\ worksInProgress'[k] = None <=> worksInProgress[k] = None
      /\ worksInProgress[k] # None =>
           /\ worksInProgress'[k].exp = worksInProgress[k].exp
           /\ worksInProgress'[k].object = worksInProgress[k].object
           /\ worksInProgress'[k].job = "dead" =>
                "workerRestarts" \in Inputs \/ worksInProgress[k].job = "dead"
<1>3. Kept /\ worksInProgress' = [k \in WipKey |-> worksInProgress'[k]]
  <2>1. ASSUME NEW w \in Worker, WorkerRestarts(w)
        PROVE  <1>3
    <3>1. "workerRestarts" \in Inputs
          /\ worksInProgress' = [k \in WipKey |-> IF k \in Wips /\ k[1] = w
                                                 THEN [worksInProgress[k] EXCEPT !.job = "dead"]
                                                 ELSE worksInProgress[k]]
      BY <2>1 DEF WorkerRestarts
    <3>2. ASSUME NEW k \in WipKey
          PROVE  \/ worksInProgress'[k] = worksInProgress[k]
                 \/ /\ worksInProgress[k] # None
                    /\ worksInProgress'[k] = [worksInProgress[k] EXCEPT !.job = "dead"]
      BY <3>1 DEF Wips
    <3>3. Kept
      BY <1>2, <3>1, <3>2, WipFieldType DEF IInv, TypeOK
    <3> QED BY <3>1, <3>3
  <2>2. ASSUME NEW k \in Wips, NEW wip \in WorkInProgress, wip.exp = worksInProgress[k].exp,
               wip.object = worksInProgress[k].object,
               wip.job = "dead" => worksInProgress[k].job = "dead",
               worksInProgress' = [worksInProgress EXCEPT ![k] = wip]
        PROVE  <1>3
    <3>1. wip # None
      BY NoneAssumption
    <3> QED BY <2>2, <3>1 DEF Wips, IInv, TypeOK
  <2>3. ASSUME NEW k \in WipKey, WorkStalls(k) \/ OnWipEventProgress(k)
        PROVE  <1>3
    <3>1. PICK stalled \in BOOLEAN :
            worksInProgress' = [worksInProgress EXCEPT ![k] = [worksInProgress[k] EXCEPT !.stalled = stalled]]
      <4>1. CASE WorkStalls(k)
        BY <4>1 DEF WorkStalls
      <4>2. CASE OnWipEventProgress(k)
        BY <4>2 DEF OnWipEventProgress
      <4> QED BY <2>3, <4>1, <4>2
    <3>2. k \in Wips
      BY <2>3 DEF WorkStalls, OnWipEventProgress
    <3>3. worksInProgress[k] \in WorkInProgress
      BY <1>2, <3>2 DEF Wips
    <3> DEFINE wip == [worksInProgress[k] EXCEPT !.stalled = stalled]
    <3>4. wip \in WorkInProgress /\ wip.exp = worksInProgress[k].exp
          /\ wip.object = worksInProgress[k].object /\ wip.job = worksInProgress[k].job
      BY <3>3, WipFieldType
    <3>5. worksInProgress' = [worksInProgress EXCEPT ![k] = wip]
      BY <3>1
    <3> HIDE DEF wip
    <3> QED BY <2>2, <3>2, <3>4, <3>5
  <2>4. ASSUME NEW k \in WipKey, WipEventLost(k)
        PROVE  <1>3
    <3> DEFINE wip == [worksInProgress[k] EXCEPT !.job = "silent"]
    <3>1. k \in Wips /\ worksInProgress' = [worksInProgress EXCEPT ![k] = wip]
      BY <2>4 DEF WipEventLost
    <3>2. wip \in WorkInProgress /\ wip.exp = worksInProgress[k].exp
          /\ wip.object = worksInProgress[k].object /\ wip.job = "silent"
      BY <1>2, <3>1, WipFieldType DEF Wips
    <3> HIDE DEF wip
    <3> QED BY <2>2, <3>1, <3>2
  <2> QED BY <2>1, <2>3, <2>4
<1> QED BY <1>1, <1>3 DEF OnlyDetails, IInv, TypeOK

LEMMA WipDetailsKeepIInv ==
  ASSUME IInv,
         \/ \E w \in Worker : WorkerRestarts(w)
         \/ \E k \in WipKey : WorkStalls(k) \/ OnWipEventProgress(k) \/ WipEventLost(k)
  PROVE  IInv'
<1>1. /\ OnlyDetails
      /\ UNCHANGED <<receivedVars, tracked, workerAgents, cancels, runnerVars, sessionVars, reported>>
  BY WipDetails
<1>2. CancelsAreAwaited'
  BY <1>1, DetailsKeepCancels DEF runnerVars
<1> QED BY <1>1, <1>2, DetailsKeepIInv DEF runnerVars

LEMMA ErrorWaitOverDetails ==
  ASSUME IInv, NEW e \in Exp, ErrorWaitOver(e)
  PROVE  /\ OnlyDetails
         /\ \A x \in Exp : tracked[x] # None => tracked'[x].cancel = tracked[x].cancel
<1> DEFINE o == [tracked[e] EXCEPT !.lastError = FALSE]
<1>1. /\ UNCHANGED <<receivedVars, worksInProgress, workerAgents, cancels, runnerVars>>
      /\ UNCHANGED <<sessionVars, reported>>
      /\ tracked[e] # None /\ tracked' = [tracked EXCEPT ![e] = o]
  BY DEF ErrorWaitOver
<1>2. tracked[e] \in TrackedExpectation
  BY <1>1 DEF IInv, TypeOK
<1>3. /\ o \in TrackedExpectation /\ o.exp = tracked[e].exp /\ o.state = tracked[e].state
      /\ o.errorOnRemoveCount = tracked[e].errorOnRemoveCount /\ o.cancel = tracked[e].cancel
  BY <1>2 DEF TrackedExpectation
<1>4. o # None
  BY <1>3, NoneAssumption
<1> HIDE DEF o
<1> QED BY <1>1, <1>3, <1>4 DEF OnlyDetails, IInv, TypeOK

LEMMA ErrorWaitOverKeepsIInv ==
  ASSUME IInv, NEW e \in Exp, ErrorWaitOver(e)
  PROVE  IInv'
<1>1. /\ UNCHANGED <<receivedVars, worksInProgress, workerAgents, cancels, runnerVars>>
      /\ UNCHANGED <<sessionVars, reported>>
  BY DEF ErrorWaitOver
<1>2. OnlyDetails /\ \A x \in Exp : tracked[x] # None => tracked'[x].cancel = tracked[x].cancel
  BY ErrorWaitOverDetails
<1>3. CancelsAreAwaited'
  BY <1>1, <1>2, DetailsKeepCancels DEF runnerVars
<1> QED BY <1>1, <1>2, <1>3, DetailsKeepIInv DEF runnerVars

\* The cancel function deletes itself, and nothing else.
LEMMA CancelReturnsDetails ==
  ASSUME IInv, NEW c \in cancels, CancelReturns(c)
  PROVE  /\ OnlyDetails
         /\ \A x \in Exp : tracked[x] # None /\ (c.replaced \/ x # c.exp) =>
                               tracked'[x].cancel = tracked[x].cancel
<1> DEFINE o   == [tracked[c.exp] EXCEPT !.cancel = None]
           wip == [worksInProgress[c.wip] EXCEPT !.job = "silent"]
<1>1. /\ cancels' = cancels \ {c} /\ awaiting' = awaiting \ {c}
      /\ UNCHANGED <<receivedVars, workerAgents, pc, phase, pending, starting, sessionVars, reported>>
  BY DEF CancelReturns
<1>2. c.exp \in Exp /\ c.wip \in WipKey
  BY DEF IInv, TypeOK, Cancel
<1>3. /\ tracked' \in [Exp -> TrackedExpectation \cup {None}]
      /\ \A x \in Exp : /\ tracked'[x] = None <=> tracked[x] = None
                        /\ tracked[x] # None =>
                             /\ tracked'[x].exp = tracked[x].exp
                             /\ tracked'[x].state = tracked[x].state
                             /\ tracked'[x].errorOnRemoveCount = tracked[x].errorOnRemoveCount
                             /\ c.replaced \/ x # c.exp => tracked'[x].cancel = tracked[x].cancel
  <2>1. CASE tracked' = tracked
    BY <2>1 DEF IInv, TypeOK
  <2>2. CASE tracked[c.exp] # None /\ ~c.replaced /\ tracked' = [tracked EXCEPT ![c.exp] = o]
    <3>1. tracked[c.exp] \in TrackedExpectation
      BY <1>2, <2>2 DEF IInv, TypeOK
    <3>2. /\ o \in TrackedExpectation /\ o.exp = tracked[c.exp].exp /\ o.state = tracked[c.exp].state
          /\ o.errorOnRemoveCount = tracked[c.exp].errorOnRemoveCount
      BY <3>1 DEF TrackedExpectation
    <3>3. o # None
      BY <3>2, NoneAssumption
    <3> HIDE DEF o
    <3> QED BY <1>2, <2>2, <3>2, <3>3 DEF IInv, TypeOK
  <2> QED BY <2>1, <2>2 DEF CancelReturns
<1>4. /\ worksInProgress' \in [WipKey -> WorkInProgress \cup {None}]
      /\ \A k \in WipKey : /\ worksInProgress'[k] = None <=> worksInProgress[k] = None
                           /\ worksInProgress[k] # None =>
                                /\ worksInProgress'[k].exp = worksInProgress[k].exp
                                /\ worksInProgress'[k].object = worksInProgress[k].object
                                /\ worksInProgress'[k].job = "dead" => worksInProgress[k].job = "dead"
  <2>1. CASE worksInProgress' = worksInProgress
    BY <2>1 DEF IInv, TypeOK
  <2>2. CASE worksInProgress[c.wip] # None /\ worksInProgress' = [worksInProgress EXCEPT ![c.wip] = wip]
    <3>1. worksInProgress[c.wip] \in WorkInProgress
      BY <1>2, <2>2 DEF IInv, TypeOK
    <3>2. /\ wip \in WorkInProgress /\ wip # None /\ wip.exp = worksInProgress[c.wip].exp
          /\ wip.object = worksInProgress[c.wip].object /\ wip.job = "silent"
      BY <3>1, WipFieldType
    <3> HIDE DEF wip
    <3> QED BY <1>2, <2>2, <3>2 DEF IInv, TypeOK
  <2> QED BY <2>1, <2>2 DEF CancelReturns
<1> QED BY <1>3, <1>4 DEF OnlyDetails

LEMMA CancelReturnsKeepsIInv ==
  ASSUME IInv, NEW c \in cancels, CancelReturns(c)
  PROVE  IInv'
<1>1. /\ cancels' = cancels \ {c} /\ awaiting' = awaiting \ {c}
      /\ UNCHANGED <<receivedVars, workerAgents, pc, phase, pending, starting, sessionVars, reported>>
  BY DEF CancelReturns
<1>2. /\ OnlyDetails
      /\ \A x \in Exp : tracked[x] # None /\ (c.replaced \/ x # c.exp) =>
                            tracked'[x].cancel = tracked[x].cancel
  BY CancelReturnsDetails
<1>3. CancelsAreAwaited'
  <2> SUFFICES ASSUME Inputs \cap {"workerRestarts", "cancelFails"} = {}
               PROVE  CancelsAreAwaited'
    BY DEF CancelsAreAwaited
  <2>1. /\ WorkingCanBeCancelled /\ pc = "cancelling" /\ cancels = awaiting
        /\ \A d \in cancels : d.replaced \/ d.exp \notin InState("WORKING")
    BY DEF IInv, CancelsAreAwaited
  <2>2. InState("WORKING")' = InState("WORKING")
    BY <1>2 DEF OnlyDetails, InState, Tracked
  <2>3. WorkingCanBeCancelled'
    <3> SUFFICES ASSUME NEW x \in InState("WORKING")
                 PROVE  (tracked[x].cancel # None /\ IsWipOf(tracked[x].cancel, x))'
      BY <2>2 DEF WorkingCanBeCancelled
    <3>1. tracked[x].cancel # None /\ IsWipOf(tracked[x].cancel, x)
      BY <2>1 DEF WorkingCanBeCancelled
    <3>2. tracked'[x].cancel = tracked[x].cancel
      BY <1>2, <2>1 DEF InState, Tracked
    <3>3. tracked[x].cancel \in WipKey
      BY <3>1 DEF IInv, TypeOK, InState, Tracked, TrackedExpectation
    <3> QED BY <1>2, <3>1, <3>2, <3>3 DEF OnlyDetails, IsWipOf
  <2> QED BY <1>1, <2>1, <2>2, <2>3 DEF CancelsAreAwaited
<1> QED BY <1>1, <1>2, <1>3, DetailsKeepIInv

LEMMA CancelFailsKeepsIInv ==
  ASSUME IInv, NEW c \in cancels, CancelFails(c)
  PROVE  IInv'
<1>1. /\ "cancelFails" \in Inputs /\ cancels' = cancels \ {c}
      /\ \/ c \in awaiting /\ pc' = "idle" /\ awaiting' = {}
         \/ UNCHANGED <<pc, awaiting>>
      /\ UNCHANGED <<receivedVars, tracked, worksInProgress, workerAgents, phase, pending, starting>>
      /\ UNCHANGED <<sessionVars, reported>>
  BY DEF CancelFails
<1>2. OnlyDetails
  BY <1>1 DEF OnlyDetails, IInv, TypeOK
<1>3. CancelsAreAwaited'
  BY <1>1 DEF CancelsAreAwaited
<1>4. c \in awaiting => pc = "cancelling"
  BY DEF IInv, AwaitsBeforeEvaluating
<1> QED BY <1>1, <1>2, <1>3, <1>4, DetailsKeepIInv

-----------------------------------------------------------------------------
(* Works that end.                                                         *)

\* The works of drop are dropped, and of the objects only WORKING ones change.
Drops(drop) ==
  /\ worksInProgress' = [k \in WipKey |-> IF k \in drop THEN None ELSE worksInProgress[k]]
  /\ tracked' \in [Exp -> TrackedExpectation \cup {None}]
  /\ \A x \in Exp : /\ tracked'[x] = None <=> tracked[x] = None
                    /\ tracked[x] # None =>
                         /\ tracked'[x].exp = tracked[x].exp
                         /\ tracked'[x].errorOnRemoveCount = tracked[x].errorOnRemoveCount
                         /\ tracked'[x].cancel = tracked[x].cancel
                         /\ \/ tracked'[x].state = tracked[x].state
                            \/ tracked[x].state = "WORKING" /\ tracked'[x].state # "WORKING"
  /\ \A x \in InState("WORKING")' : \A k \in drop : ~IsWipOf(k, x)

\* What is still WORKING then has still got its work.
LEMMA DropsKeepWork ==
  ASSUME IInv, NEW drop \in SUBSET WipKey, Drops(drop), UNCHANGED receivedVars
  PROVE  /\ worksInProgress' \in [WipKey -> WorkInProgress \cup {None}]
         /\ InState("WORKING")' \subseteq InState("WORKING")
         /\ WipsAreTracked' /\ OneWorkInProgress' /\ TrackedIsUpToDate' /\ NoWorkIsLost'
         /\ WorkingCanBeCancelled => WorkingCanBeCancelled'
<1>1. \A k \in WipKey : worksInProgress'[k] = IF k \in drop THEN None ELSE worksInProgress[k]
  BY DEF Drops
<1>2. worksInProgress' \in [WipKey -> WorkInProgress \cup {None}]
  BY DEF Drops, IInv, TypeOK
<1>3. InState("WORKING")' \subseteq InState("WORKING")
  BY DEF Drops, InState, Tracked
<1>4. Wips' \subseteq Wips /\ \A k \in Wips' : worksInProgress'[k] = worksInProgress[k]
  BY <1>1 DEF Wips
<1>5. \A k \in WipKey : \A x : IsWipOf(k, x)' => IsWipOf(k, x)
  BY <1>1 DEF IsWipOf
<1>6. \A x \in InState("WORKING")' : \A k \in WipKey : IsWipOf(k, x) => IsWipOf(k, x)'
  BY <1>1 DEF IsWipOf, Drops
<1>7. WipsAreTracked'
  <2>1. \A k \in Wips : worksInProgress[k].exp \in Exp
    BY DEF Wips, IInv, TypeOK, WorkInProgress
  <2> QED BY <1>4, <2>1 DEF IInv, WipsAreTracked, Drops
<1>8. OneWorkInProgress'
  BY <1>3, <1>5 DEF IInv, OneWorkInProgress
<1>9. TrackedIsUpToDate'
  BY DEF IInv, TrackedIsUpToDate, Drops, Tracked, receivedVars
<1>10. NoWorkIsLost'
  <2> SUFFICES ASSUME "workerRestarts" \notin Inputs
               PROVE  NoWorkIsLost'
    BY DEF NoWorkIsLost
  <2>1. WorkingIsMonitored'
    BY <1>3, <1>6 DEF IInv, NoWorkIsLost, WorkingIsMonitored
  <2> QED BY <1>4, <2>1 DEF IInv, NoWorkIsLost
<1>11. WorkingCanBeCancelled => WorkingCanBeCancelled'
  <2> SUFFICES ASSUME WorkingCanBeCancelled, NEW x \in InState("WORKING")'
               PROVE  (tracked[x].cancel # None /\ IsWipOf(tracked[x].cancel, x))'
    BY DEF WorkingCanBeCancelled
  <2>1. x \in InState("WORKING") /\ tracked[x].cancel # None /\ IsWipOf(tracked[x].cancel, x)
    BY <1>3 DEF WorkingCanBeCancelled
  <2>2. tracked'[x].cancel = tracked[x].cancel /\ tracked[x].cancel \in WipKey
    BY <2>1 DEF Drops, IInv, TypeOK, InState, Tracked, TrackedExpectation
  <2>3. IsWipOf(tracked[x].cancel, x)'
    <3> DEFINE k == tracked[x].cancel
    <3>1. worksInProgress'[k] = worksInProgress[k]
      BY <1>1, <2>1, <2>2 DEF Drops
    <3> QED BY <2>1, <2>2, <3>1 DEF IsWipOf
  <2> QED BY <2>1, <2>2, <2>3
<1> QED BY <1>2, <1>3, <1>7, <1>8, <1>9, <1>10, <1>11

\* The end of a work takes its own Expectation out of WORKING, and no other.
LEMMA EndWorkKeepsIInv ==
  ASSUME IInv, NEW k \in Wips, NEW s \in State \ {"WORKING"}, NEW isError \in BOOLEAN,
         EndWork(k, s, isError)
  PROVE  IInv'
<1> DEFINE e == worksInProgress[k].exp
<1>1. /\ worksInProgress' = [worksInProgress EXCEPT ![k] = None]
      /\ UNCHANGED <<receivedVars, workerAgents, cancels, pc, awaiting, phase, pending, starting>>
      /\ UNCHANGED <<removeIds, runAgainASAP>>
  BY DEF EndWork, runnerVars
<1>2. k \in WipKey /\ worksInProgress[k] # None /\ e \in Exp
  BY DEF Wips, IInv, TypeOK, WorkInProgress
<1>3. \/ /\ worksInProgress[k].object = "tracked" /\ WipIsWorking(k)
         /\ UpdateStatus(e, tracked[e], s, isError)
      \/ /\ ~(worksInProgress[k].object = "tracked" /\ WipIsWorking(k))
         /\ UNCHANGED <<tracked, hadError>> /\ reported' \in {reported, [reported EXCEPT ![e] = s]}
  BY DEF EndWork
<1>4. /\ Drops({k})
      /\ hadError' \in SUBSET Exp /\ reported' \in [Exp -> State \cup {None}]
      /\ \A x \in Exp : tracked[x] # None /\ tracked[x].state # "WORKING"
                        => tracked'[x].state = tracked[x].state
  <2>1. worksInProgress' = [j \in WipKey |-> IF j \in {k} THEN None ELSE worksInProgress[j]]
    BY <1>1 DEF IInv, TypeOK
  <2>2. CASE /\ worksInProgress[k].object = "tracked" /\ WipIsWorking(k)
             /\ UpdateStatus(e, tracked[e], s, isError)
    <3>1. tracked[e] # None /\ tracked[e].state = "WORKING"
      BY <2>2 DEF WipIsWorking, WipsAreTracked, IInv
    <3>2. tracked[e] \in TrackedExpectation
      BY <1>2, <3>1 DEF IInv, TypeOK
    <3>3. /\ Touches(e) /\ tracked'[e].state = s
          /\ tracked'[e].errorOnRemoveCount = tracked[e].errorOnRemoveCount
          /\ tracked'[e].cancel = tracked[e].cancel
          /\ hadError' \in SUBSET Exp /\ reported' \in [Exp -> State \cup {None}]
      BY <1>2, <2>2, <3>1, <3>2, UpdateStatusTouches DEF IInv
    <3>4. \A x \in InState("WORKING")' : ~IsWipOf(k, x)
      BY <3>3 DEF InState, Tracked, IsWipOf
    <3> QED BY <2>1, <3>1, <3>3, <3>4 DEF Touches, Drops
  <2>3. CASE /\ ~(worksInProgress[k].object = "tracked" /\ WipIsWorking(k))
             /\ UNCHANGED <<tracked, hadError>> /\ reported' \in {reported, [reported EXCEPT ![e] = s]}
    <3>1. \A x \in InState("WORKING")' : ~IsWipOf(k, x)
      BY <2>3 DEF InState, Tracked, IsWipOf, WipIsWorking
    <3>2. reported' \in [Exp -> State \cup {None}]
      BY <1>2, <2>3 DEF IInv, TypeOK
    <3> QED BY <2>1, <2>3, <3>1, <3>2 DEF IInv, TypeOK, Drops
  <2> QED BY <1>3, <2>2, <2>3
<1> HIDE DEF e
<1>5. /\ worksInProgress' \in [WipKey -> WorkInProgress \cup {None}]
      /\ InState("WORKING")' \subseteq InState("WORKING")
      /\ WipsAreTracked' /\ OneWorkInProgress' /\ TrackedIsUpToDate' /\ NoWorkIsLost'
      /\ WorkingCanBeCancelled => WorkingCanBeCancelled'
  <2>1. {k} \in SUBSET WipKey
    BY <1>2
  <2> QED BY <1>1, <1>4, <2>1, DropsKeepWork
<1>6. \A state \in State \ {"WORKING"} : InState(state) \subseteq InState(state)'
  BY <1>4 DEF Drops, InState, Tracked
<1>7. TypeOK'
  BY <1>1, <1>4, <1>5 DEF IInv, TypeOK, receivedVars, Drops
<1>8. WipsAreWorking'
  <2> SUFFICES ASSUME Evaluating, NEW j \in Wips', worksInProgress'[j].object = "tracked"
               PROVE  WipIsWorking(j)'
    BY <1>1 DEF WipsAreWorking, Evaluating
  <2> DEFINE f == worksInProgress[j].exp
  <2>1. j # k /\ j \in Wips /\ worksInProgress'[j] = worksInProgress[j]
    BY <1>1, <1>2 DEF Wips, IInv, TypeOK
  <2>2. tracked[f] # None /\ tracked[f].state = "WORKING" /\ f \in Exp
    BY <2>1 DEF IInv, WipsAreWorking, WipIsWorking, WipsAreTracked, Wips, TypeOK, WorkInProgress
  <2>3. f # e \/ UNCHANGED tracked
    <3>1. CASE worksInProgress[k].object = "tracked"
      <4>1. f = e => j = k
        BY <1>2, <2>1, <2>2, <3>1 DEF IInv, OneWorkInProgress, InState, Tracked, IsWipOf, Wips, e
      <4> QED BY <2>1, <4>1
    <3>2. CASE worksInProgress[k].object # "tracked"
      BY <1>3, <3>2
    <3> QED BY <3>1, <3>2
  <2>4. tracked'[f].state = "WORKING"
    BY <1>2, <1>3, <2>2, <2>3 DEF UpdateStatus, IInv, TypeOK
  <2> QED BY <2>1, <2>4 DEF WipIsWorking
<1>9. PendingIsInPhase'
  BY <1>1, <1>6, ParallelStateNames DEF IInv, PendingIsInPhase, State
<1>10. AwaitsBeforeEvaluating'
  BY <1>1 DEF IInv, AwaitsBeforeEvaluating
<1>11. RemovalsAreOver'
  <2>1. removeIds' \subseteq InState("REMOVED")' \cup InState("NEW")'
    BY <1>1, <1>6 DEF IInv, RemovalsAreOver, State
  <2>2. \A x \in Tracked' : tracked'[x].errorOnRemoveCount > FAILED_REMOVE_COUNT => x \in removeIds'
    BY <1>1, <1>4 DEF IInv, RemovalsAreOver, Drops, Tracked
  <2> QED BY <1>1, <2>1, <2>2 DEF IInv, RemovalsAreOver, Evaluating
<1>12. CancelsAreAwaited'
  BY <1>1, <1>5 DEF IInv, CancelsAreAwaited
<1> QED BY <1>5, <1>7, <1>8, <1>9, <1>10, <1>11, <1>12 DEF IInv

LEMMA WorkEventKeepsIInv ==
  ASSUME IInv, NEW k \in WipKey, OnWipEventDone(k) \/ OnWipEventError(k)
  PROVE  IInv'
<1>1. k \in Wips /\ (EndWork(k, "FULFILLED", FALSE) \/ EndWork(k, "NEW", TRUE))
  BY DEF OnWipEventDone, OnWipEventError
<1> QED BY <1>1, EndWorkKeepsIInv DEF State

-----------------------------------------------------------------------------
(* From one part of a run to the next.                                     *)

LEMMA EnterPhaseAfterType ==
  ASSUME NEW i \in 0 .. 6, tracked' \in [Exp -> TrackedExpectation \cup {None}],
         EnterPhaseAfter(i, tracked')
  PROVE  /\ pc' \in {"parallel", "serial"} /\ phase' \in 0 .. 6 /\ pending' \in SUBSET Exp
         /\ PendingIsInPhase'
<1> DEFINE inState(s) == {e \in Exp : tracked'[e] # None /\ tracked'[e].state = s}
           later == {j \in DOMAIN ParallelStates : j > i /\ inState(ParallelStates[j]) # {}}
<1>1. \A s : inState(s) = InState(s)'
  BY DEF InState, Tracked
<1>2. \/ pc' = "serial" /\ phase' = 0 /\ pending' = inState("READY")
      \/ \E j \in later : pc' = "parallel" /\ phase' = j /\ pending' = inState(ParallelStates[j])
  BY DEF EnterPhaseAfter
<1>3. CASE pc' = "serial" /\ phase' = 0 /\ pending' = inState("READY")
  BY <1>1, <1>3 DEF PendingIsInPhase
<1>4. CASE \E j \in later : pc' = "parallel" /\ phase' = j /\ pending' = inState(ParallelStates[j])
  <2>1. PICK j \in DOMAIN ParallelStates :
          pc' = "parallel" /\ phase' = j /\ pending' = inState(ParallelStates[j])
    BY <1>4
  <2>2. j \in 0 .. 6
    BY ParallelStateNames
  <2> QED BY <1>1, <2>1, <2>2 DEF PendingIsInPhase
<1> QED BY <1>2, <1>3, <1>4

LEMMA NextPhaseKeepsIInv ==
  ASSUME IInv, NextPhase
  PROVE  IInv'
<1>1. /\ UNCHANGED <<receivedVars, tracked, worksInProgress, workerAgents, cancels, awaiting>>
      /\ UNCHANGED <<starting, removeIds, runAgainASAP, reported>>
      /\ pc = "parallel" /\ EnterPhaseAfter(phase, tracked) /\ hadError' \in {{}, hadError}
  BY DEF NextPhase
<1>2. /\ pc' \in {"parallel", "serial"} /\ phase' \in 0 .. 6 /\ pending' \in SUBSET Exp
      /\ PendingIsInPhase'
  <2>1. /\ phase \in 0 .. 6 /\ EnterPhaseAfter(phase, tracked')
        /\ tracked' \in [Exp -> TrackedExpectation \cup {None}]
    BY <1>1 DEF IInv, TypeOK
  <2> QED BY <2>1, EnterPhaseAfterType
<1>3. UNCHANGED <<expectations, restart, abort, restartAll, updated, containersUpdated>>
  BY <1>1 DEF receivedVars
<1>4. TypeOK'
  BY <1>1, <1>2, <1>3 DEF IInv, TypeOK
<1>5. InState("WORKING")' = InState("WORKING") /\ \A x, k : IsWipOf(k, x)' <=> IsWipOf(k, x)
  BY <1>1 DEF InState, Tracked, IsWipOf
<1>6. WipsAreTracked' /\ WipsAreWorking'
  BY <1>1 DEF IInv, WipsAreTracked, WipsAreWorking, Evaluating, Wips, WipIsWorking
<1>7. AwaitsBeforeEvaluating'
  BY <1>1 DEF IInv, AwaitsBeforeEvaluating
<1>8. RemovalsAreOver'
  BY <1>1, <1>2 DEF IInv, RemovalsAreOver, Evaluating, InState, Tracked
<1>9. OneWorkInProgress' /\ TrackedIsUpToDate'
  BY <1>1, <1>3, <1>5 DEF IInv, OneWorkInProgress, TrackedIsUpToDate, Tracked
<1>10. NoWorkIsLost'
  BY <1>1, <1>5 DEF IInv, NoWorkIsLost, WorkingIsMonitored, Wips
<1>11. CancelsAreAwaited'
  BY <1>1, <1>5 DEF IInv, CancelsAreAwaited, WorkingCanBeCancelled
<1> QED BY <1>2, <1>4, <1>6, <1>7, <1>8, <1>9, <1>10, <1>11 DEF IInv

\* checkWorksInProgress takes the Expectations of stalled works out of WORKING.
LEMMA CheckWorksInProgressKeepsIInv ==
  ASSUME IInv, CheckWorksInProgress
  PROVE  IInv'
<1> DEFINE drop == StalledWips \cup IdleWips
           restarts(e, object) == \E k \in StalledWips : /\ worksInProgress[k].exp = e
                                                         /\ worksInProgress[k].object = object
<1>1. /\ pc = "checking"
      /\ tracked' = [e \in Exp |-> IF restarts(e, "tracked")
                                   THEN WithState(tracked[e], "NEW", FALSE) ELSE tracked[e]]
      /\ reported' = [e \in Exp |-> IF restarts(e, "tracked") \/ restarts(e, "replacedWorking")
                                    THEN "NEW" ELSE reported[e]]
      /\ worksInProgress' = [k \in WipKey |-> IF k \in drop THEN None ELSE worksInProgress[k]]
      /\ hadError' = {} /\ removeIds' = {} /\ runAgainASAP' = FALSE
      /\ EnterPhaseAfter(0, tracked')
      /\ UNCHANGED <<receivedVars, workerAgents, cancels, awaiting, starting>>
  BY DEF CheckWorksInProgress
<1>2. /\ drop \in SUBSET WipKey
      /\ \A k \in StalledWips : k \in Wips /\ WipIsWorking(k)
      /\ \A k \in IdleWips : k \in Wips /\ ~WipIsWorking(k)
  BY DEF StalledWips, IdleWips, Wips
<1>3. \A k \in Wips \ drop : WipIsWorking(k)
  BY DEF IdleWips
<1> HIDE DEF drop
<1>4. \A x \in Exp : restarts(x, "tracked") <=> \E k \in StalledWips : IsWipOf(k, x)
  BY <1>2 DEF IsWipOf, Wips
<1>5. \A x \in Exp : restarts(x, "tracked") => x \in InState("WORKING")
  BY <1>2 DEF IInv, WipsAreTracked, WipIsWorking, InState, Tracked
<1>6. \A x \in Exp : x \in InState("WORKING") =>
        LET new == WithState(tracked[x], "NEW", FALSE)
        IN  /\ new \in TrackedExpectation /\ new # None /\ new.state = "NEW"
            /\ new.exp = tracked[x].exp /\ new.cancel = tracked[x].cancel
            /\ new.errorOnRemoveCount = tracked[x].errorOnRemoveCount
  <2> SUFFICES ASSUME NEW x \in Exp, x \in InState("WORKING")
               PROVE  LET new == WithState(tracked[x], "NEW", FALSE)
                      IN  /\ new \in TrackedExpectation /\ new # None /\ new.state = "NEW"
                          /\ new.exp = tracked[x].exp /\ new.cancel = tracked[x].cancel
                          /\ new.errorOnRemoveCount = tracked[x].errorOnRemoveCount
    OBVIOUS
  <2>1. tracked[x] \in TrackedExpectation /\ "NEW" \in State
    BY DEF IInv, TypeOK, InState, Tracked, State
  <2> QED BY <2>1, WithStateType
<1> HIDE DEF restarts
<1>7. \A x \in Exp : tracked'[x] = IF restarts(x, "tracked")
                                   THEN WithState(tracked[x], "NEW", FALSE) ELSE tracked[x]
  BY <1>1
<1>8. Drops(drop)
  <2>1. \A x \in Exp : /\ tracked'[x] \in TrackedExpectation \cup {None}
                       /\ tracked'[x] = None <=> tracked[x] = None
                       /\ tracked[x] # None =>
                            /\ tracked'[x].exp = tracked[x].exp
                            /\ tracked'[x].errorOnRemoveCount = tracked[x].errorOnRemoveCount
                            /\ tracked'[x].cancel = tracked[x].cancel
                            /\ \/ tracked'[x].state = tracked[x].state
                               \/ tracked[x].state = "WORKING" /\ tracked'[x].state # "WORKING"
    BY <1>5, <1>6, <1>7 DEF IInv, TypeOK, InState, Tracked
  <2>2. tracked' \in [Exp -> TrackedExpectation \cup {None}]
    BY <1>1, <2>1
  <2>3. ASSUME NEW x \in InState("WORKING")', NEW k \in drop
        PROVE  ~IsWipOf(k, x)
    <3>1. x \in Exp /\ tracked'[x] # None /\ tracked'[x].state = "WORKING"
      BY DEF InState, Tracked
    <3>2. ~restarts(x, "tracked") /\ tracked'[x] = tracked[x]
      BY <1>5, <1>6, <1>7, <3>1
    <3>3. k \notin StalledWips \/ ~IsWipOf(k, x)
      BY <1>4, <3>1, <3>2
    <3>4. k \in IdleWips => ~IsWipOf(k, x)
      BY <1>2, <3>1, <3>2 DEF IsWipOf, WipIsWorking
    <3> QED BY <3>3, <3>4 DEF drop
  <2> QED BY <1>1, <2>1, <2>2, <2>3 DEF Drops
<1>9. /\ worksInProgress' \in [WipKey -> WorkInProgress \cup {None}]
      /\ InState("WORKING")' \subseteq InState("WORKING")
      /\ WipsAreTracked' /\ OneWorkInProgress' /\ TrackedIsUpToDate' /\ NoWorkIsLost'
      /\ WorkingCanBeCancelled => WorkingCanBeCancelled'
  BY <1>1, <1>2, <1>8, DropsKeepWork
<1>10. /\ tracked' \in [Exp -> TrackedExpectation \cup {None}]
       /\ pc' \in {"parallel", "serial"} /\ phase' \in 0 .. 6 /\ pending' \in SUBSET Exp
       /\ PendingIsInPhase'
  <2>1. 0 \in 0 .. 6 /\ tracked' \in [Exp -> TrackedExpectation \cup {None}]
    BY <1>8 DEF Drops
  <2>2. EnterPhaseAfter(0, tracked')
    BY <1>1
  <2> QED BY <2>1, <2>2, EnterPhaseAfterType
<1>11. TypeOK'
  <2>1. reported' \in [Exp -> State \cup {None}]
    BY <1>1 DEF IInv, TypeOK, State
  <2> QED BY <1>1, <1>9, <1>10, <2>1 DEF IInv, TypeOK, receivedVars
<1>12. WipsAreWorking'
  <2> SUFFICES ASSUME NEW j \in Wips', worksInProgress'[j].object = "tracked"
               PROVE  WipIsWorking(j)'
    BY DEF WipsAreWorking
  <2> DEFINE f == worksInProgress[j].exp
  <2>1. j \in Wips /\ j \notin drop /\ worksInProgress'[j] = worksInProgress[j]
    BY <1>1 DEF Wips
  <2>2. WipIsWorking(j) /\ f \in Exp /\ tracked[f] # None /\ tracked[f].state = "WORKING"
    BY <1>3, <2>1 DEF WipIsWorking, IInv, WipsAreTracked, Wips, TypeOK, WorkInProgress
  <2>3. ~restarts(f, "tracked")
    <3>1. ASSUME NEW k \in StalledWips, IsWipOf(k, f)
          PROVE  FALSE
      <4>1. f \in InState("WORKING") /\ IsWipOf(j, f)
        BY <2>1, <2>2 DEF InState, Tracked, IsWipOf, Wips
      <4>2. j \in WipKey /\ k \in WipKey /\ j # k
        BY <2>1 DEF Wips, StalledWips, drop
      <4> QED BY <3>1, <4>1, <4>2 DEF IInv, OneWorkInProgress
    <3> QED BY <1>4, <2>2, <3>1
  <2>4. tracked'[f] = tracked[f]
    BY <1>7, <2>2, <2>3
  <2> QED BY <2>1, <2>2, <2>4 DEF WipIsWorking
<1>13. AwaitsBeforeEvaluating'
  BY <1>1 DEF IInv, AwaitsBeforeEvaluating
<1>14. RemovalsAreOver'
  <2>1. \A x \in Exp : tracked[x] # None => ~(tracked[x].errorOnRemoveCount > FAILED_REMOVE_COUNT)
    BY <1>1 DEF IInv, RemovalsAreOver, Evaluating, Tracked
  <2> QED BY <1>1, <1>8, <2>1 DEF RemovalsAreOver, Drops, Tracked
<1>15. CancelsAreAwaited'
  BY <1>1, <1>9 DEF IInv, CancelsAreAwaited
<1> QED BY <1>9, <1>10, <1>11, <1>12, <1>13, <1>14, <1>15 DEF IInv

-----------------------------------------------------------------------------
(* The start of a work.                                                    *)

LEMMA NewWorkKeepsIInv ==
  ASSUME IInv, pc = "starting", NEW e \in InState("READY"), NEW k \in WipKey, IsFresh(k),
         NEW o \in TrackedExpectation, o.exp = tracked[e].exp, o.cancel = k,
         o.errorOnRemoveCount = tracked[e].errorOnRemoveCount,
         NEW wip \in WorkInProgress, wip.exp = e, wip.object = "tracked", wip.job # "dead",
         worksInProgress' = [worksInProgress EXCEPT ![k] = wip],
         UpdateStatus(e, o, "WORKING", FALSE),
         pc' = "serial", starting' = None, pending' = RestAfter(e),
         UNCHANGED <<receivedVars, workerAgents, cancels, awaiting, phase, removeIds, runAgainASAP>>
  PROVE  IInv'
<1>4. e \in Exp /\ tracked[e] # None /\ tracked[e].state = "READY" /\ Evaluating /\ Evaluating'
  BY DEF InState, Tracked, Evaluating
<1>8. wip # None
  BY NoneAssumption
<1>9. /\ Touches(e) /\ tracked'[e].state = "WORKING" /\ tracked'[e].cancel = k
      /\ tracked'[e].errorOnRemoveCount = tracked[e].errorOnRemoveCount
      /\ hadError' \in SUBSET Exp /\ reported' \in [Exp -> State \cup {None}]
  <2>1. "WORKING" \in State /\ TypeOK
    BY DEF State, IInv
  <2> QED BY <1>4, <2>1, UpdateStatusTouches
<1>10. /\ tracked'[e] # None
       /\ \A x \in Exp \ {e} : /\ tracked'[x] = None <=> tracked[x] = None
                               /\ tracked[x] # None => /\ tracked'[x].state = tracked[x].state
                                                       /\ tracked'[x].cancel = tracked[x].cancel
  BY <1>4, <1>9 DEF Touches
<1>11. InState("WORKING")' = InState("WORKING") \cup {e}
  BY <1>4, <1>9, <1>10 DEF InState, Tracked
<1>12. worksInProgress'[k] = wip /\ \A j \in WipKey \ {k} : worksInProgress'[j] = worksInProgress[j]
  BY <1>8 DEF IInv, TypeOK
<1>13. IsWipOf(k, e)' /\ \A x : IsWipOf(k, x)' => x = e
  BY <1>8, <1>12 DEF IsWipOf
<1>14. \A j \in WipKey \ {k} : \A x : IsWipOf(j, x)' <=> IsWipOf(j, x)
  BY <1>12 DEF IsWipOf
<1>15. \A j \in WipKey : ~IsWipOf(j, e)
  BY <1>4 DEF IInv, WipsAreWorking, WipIsWorking, IsWipOf, Wips
<1>16. "workerRestarts" \notin Inputs => worksInProgress[k] = None
  BY DEF IInv, NoWorkIsLost, IsFresh, Wips
<1>17. TypeOK'
  <2>1. worksInProgress' \in [WipKey -> WorkInProgress \cup {None}]
    BY <1>8 DEF IInv, TypeOK
  <2>2. pending' \in SUBSET Exp
    BY RestAfterType DEF IInv, TypeOK
  <2> QED BY <1>9, <2>1, <2>2 DEF IInv, TypeOK, receivedVars, Touches
<1>18. WipsAreTracked' /\ WipsAreWorking'
  <2> SUFFICES ASSUME NEW j \in Wips', worksInProgress'[j].object = "tracked"
               PROVE  /\ tracked'[worksInProgress'[j].exp] # None
                      /\ WipIsWorking(j)'
    BY DEF WipsAreTracked, WipsAreWorking
  <2>1. CASE j = k
    BY <1>9, <1>10, <1>12, <2>1 DEF WipIsWorking
  <2>2. CASE j # k
    <3> DEFINE f == worksInProgress[j].exp
    <3>1. j \in Wips /\ worksInProgress'[j] = worksInProgress[j]
      BY <1>12, <2>2 DEF Wips
    <3>2. f \in Exp /\ tracked[f] # None /\ tracked[f].state = "WORKING"
      BY <1>4, <3>1 DEF IInv, TypeOK, WorkInProgress, WipsAreTracked, WipsAreWorking, WipIsWorking, Wips
    <3>3. tracked'[f] # None /\ tracked'[f].state = "WORKING"
      BY <1>4, <1>10, <3>2
    <3> QED BY <3>1, <3>3 DEF WipIsWorking
  <2> QED BY <2>1, <2>2
<1>19. PendingIsInPhase'
  <2>1. pending' \subseteq pending \ {e} /\ pending \subseteq InState("READY")
    BY RestAfterType DEF IInv, PendingIsInPhase
  <2>2. pending' \subseteq InState("READY")'
    BY <1>10, <2>1 DEF InState, Tracked
  <2> QED BY <2>2 DEF PendingIsInPhase
<1>20. AwaitsBeforeEvaluating'
  BY DEF IInv, AwaitsBeforeEvaluating
<1>21. RemovalsAreOver'
  <2>1. e \notin removeIds /\ removeIds' = removeIds
    BY <1>4 DEF IInv, RemovalsAreOver, InState
  <2>2. removeIds' \subseteq InState("REMOVED")' \cup InState("NEW")'
    BY <1>10, <2>1 DEF IInv, RemovalsAreOver, InState, Tracked
  <2>3. \A x \in Tracked' : tracked'[x].errorOnRemoveCount > FAILED_REMOVE_COUNT => x \in removeIds'
    BY <1>4, <1>9, <2>1 DEF IInv, RemovalsAreOver, Tracked, Touches
  <2> QED BY <1>4, <2>2, <2>3 DEF RemovalsAreOver
<1>22. OneWorkInProgress'
  BY <1>11, <1>13, <1>14, <1>15 DEF IInv, OneWorkInProgress
<1>23. TrackedIsUpToDate'
  BY <1>4, <1>9 DEF IInv, TrackedIsUpToDate, Tracked, Touches, receivedVars
<1>24. NoWorkIsLost'
  <2> SUFFICES ASSUME "workerRestarts" \notin Inputs
               PROVE  NoWorkIsLost'
    BY DEF NoWorkIsLost
  <2>1. worksInProgress[k] = None
    BY <1>16
  <2>2. WorkingIsMonitored'
    <3> SUFFICES ASSUME NEW x \in InState("WORKING")'
                 PROVE  \E j \in WipKey : IsWipOf(j, x)'
      BY DEF WorkingIsMonitored
    <3>1. CASE x = e
      BY <1>13, <3>1
    <3>2. CASE x \in InState("WORKING")
      <4>1. PICK j \in WipKey : IsWipOf(j, x)
        BY <3>2 DEF IInv, NoWorkIsLost, WorkingIsMonitored
      <4>2. j # k
        BY <2>1, <4>1 DEF IsWipOf
      <4> QED BY <1>14, <4>1, <4>2
    <3> QED BY <1>11, <3>1, <3>2
  <2>3. \A j \in Wips' : worksInProgress'[j].job # "dead"
    BY <1>12 DEF IInv, NoWorkIsLost, Wips
  <2> QED BY <2>2, <2>3 DEF NoWorkIsLost
<1>25. CancelsAreAwaited'
  <2> SUFFICES ASSUME Inputs \cap {"workerRestarts", "cancelFails"} = {}
               PROVE  CancelsAreAwaited'
    BY DEF CancelsAreAwaited
  <2>1. cancels' = {} /\ WorkingCanBeCancelled
    BY DEF IInv, CancelsAreAwaited
  <2>2. worksInProgress[k] = None
    BY <1>16
  <2>3. WorkingCanBeCancelled'
    <3> SUFFICES ASSUME NEW x \in InState("WORKING")'
                 PROVE  (tracked[x].cancel # None /\ IsWipOf(tracked[x].cancel, x))'
      BY DEF WorkingCanBeCancelled
    <3>1. CASE x = e
      <4>1. k # None
        BY NoneAssumption
      <4> QED BY <1>9, <1>13, <3>1, <4>1
    <3>2. CASE x # e
      <4>1. x \in InState("WORKING") /\ tracked'[x].cancel = tracked[x].cancel
        BY <1>10, <1>11, <3>2 DEF InState, Tracked
      <4>2. tracked[x].cancel # None /\ IsWipOf(tracked[x].cancel, x)
        BY <2>1, <4>1 DEF WorkingCanBeCancelled
      <4>3. tracked[x].cancel \in WipKey
        BY <4>1, <4>2 DEF IInv, TypeOK, InState, Tracked, TrackedExpectation
      <4>4. tracked[x].cancel # k
        BY <2>2, <4>2 DEF IsWipOf
      <4>5. IsWipOf(tracked[x].cancel, x)'
        BY <1>12, <4>1, <4>2, <4>3, <4>4 DEF IsWipOf
      <4> QED BY <4>1, <4>2, <4>5
    <3> QED BY <3>1, <3>2
  <2> QED BY <2>1, <2>3 DEF CancelsAreAwaited
<1> QED BY <1>17, <1>18, <1>19, <1>20, <1>21, <1>22, <1>23, <1>24, <1>25 DEF IInv

LEMMA WorkStartedKeepsIInv ==
  ASSUME IInv, NEW l \in WipId, WorkStarted(l)
  PROVE  IInv'
<1> DEFINE e == starting.exp
           k == <<starting.worker, l>>
           o == CanBeCancelled(tracked[e], k)
<1>1. /\ pc = "starting" /\ pc' = "serial" /\ starting' = None /\ pending' = RestAfter(e)
      /\ IsFresh(k) /\ UpdateStatus(e, o, "WORKING", FALSE)
      /\ UNCHANGED <<receivedVars, workerAgents, cancels, awaiting, phase, removeIds, runAgainASAP>>
  BY DEF WorkStarted
<1>2. PICK job \in {"running", "silent"} :
        worksInProgress' = [worksInProgress EXCEPT ![k] =
          [exp |-> e, object |-> "tracked", job |-> job, stalled |-> FALSE]]
  BY DEF WorkStarted
<1>3. e \in InState("READY") /\ k \in WipKey
  <2>1. starting # None /\ starting.exp \in InState("READY")
    BY <1>1 DEF IInv, PendingIsInPhase
  <2>2. starting \in Start
    BY <2>1 DEF IInv, TypeOK
  <2>3. starting.worker \in Worker
    BY <2>2 DEF Start
  <2> QED BY <2>1, <2>3 DEF WipKey
<1>4. e \in Exp /\ tracked[e] \in TrackedExpectation
  BY <1>3 DEF InState, Tracked, IInv, TypeOK
<1>5. /\ o \in TrackedExpectation /\ o.exp = tracked[e].exp /\ o.cancel = k
      /\ o.errorOnRemoveCount = tracked[e].errorOnRemoveCount
  BY <1>3, <1>4 DEF CanBeCancelled, TrackedExpectation
<1> DEFINE wip == [exp |-> e, object |-> "tracked", job |-> job, stalled |-> FALSE]
<1>6. /\ wip \in WorkInProgress /\ wip.exp = e /\ wip.object = "tracked" /\ wip.job # "dead"
      /\ worksInProgress' = [worksInProgress EXCEPT ![k] = wip]
  BY <1>2, <1>4 DEF WorkInProgress
<1> HIDE DEF e, k, o, wip
<1> QED BY <1>1, <1>3, <1>5, <1>6, NewWorkKeepsIInv

-----------------------------------------------------------------------------
(* The end of a run.                                                       *)

LEMMA FinishRunKeepsIInv ==
  ASSUME IInv, FinishRun
  PROVE  IInv'
<1>1. /\ pc = "serial" /\ pc' = "idle" /\ pending' = {}
      /\ tracked' = [e \in Exp |-> IF e \in removeIds THEN None ELSE tracked[e]]
      /\ cancels' = CancelsOf(removeIds)
      /\ hadError' = {} /\ removeIds' = {} /\ runAgainASAP' = FALSE
      /\ UNCHANGED <<receivedVars, worksInProgress, workerAgents, awaiting, phase, starting, reported>>
  BY DEF FinishRun
<1>2. \A x \in Exp : tracked'[x] = IF x \in removeIds THEN None ELSE tracked[x]
  BY <1>1
<1>3. \A x \in InState("WORKING") : x \notin removeIds
  BY DEF IInv, RemovalsAreOver, InState
<1>4. InState("WORKING")' = InState("WORKING") /\ \A x \in InState("WORKING") : tracked'[x] = tracked[x]
  BY <1>2, <1>3 DEF InState, Tracked
<1>5. \A x, k : IsWipOf(k, x)' <=> IsWipOf(k, x)
  BY <1>1 DEF IsWipOf
<1>6. TypeOK'
  <2>1. tracked' \in [Exp -> TrackedExpectation \cup {None}]
    BY <1>1, <1>2 DEF IInv, TypeOK
  <2>2. \A c \in Cancel : [c EXCEPT !.replaced = TRUE] \in Cancel
    BY DEF Cancel
  <2>3. cancels' \in SUBSET Cancel
    BY <1>1, <2>2 DEF IInv, TypeOK, CancelsOf
  <2> QED BY <1>1, <2>1, <2>3 DEF IInv, TypeOK, receivedVars
<1>7. WipsAreTracked'
  <2> SUFFICES ASSUME NEW k \in Wips, worksInProgress[k].object = "tracked"
               PROVE  tracked'[worksInProgress[k].exp] # None
    BY <1>1 DEF WipsAreTracked, Wips
  <2>1. worksInProgress[k].exp \in InState("WORKING")
    BY <1>1 DEF IInv, WipsAreTracked, WipsAreWorking, WipIsWorking, Evaluating, InState, Tracked,
                Wips, TypeOK, WorkInProgress
  <2> QED BY <1>4, <2>1 DEF InState, Tracked
<1>8. WipsAreWorking' /\ PendingIsInPhase'
  BY <1>1 DEF WipsAreWorking, PendingIsInPhase, Evaluating
<1>9. AwaitsBeforeEvaluating'
  BY <1>1 DEF IInv, AwaitsBeforeEvaluating
<1>10. RemovalsAreOver'
  BY <1>1, <1>2 DEF IInv, RemovalsAreOver, Tracked
<1>11. OneWorkInProgress'
  BY <1>4, <1>5 DEF IInv, OneWorkInProgress
<1>12. TrackedIsUpToDate'
  BY <1>1, <1>2 DEF IInv, TrackedIsUpToDate, Tracked, receivedVars
<1>13. NoWorkIsLost'
  BY <1>1, <1>4, <1>5 DEF IInv, NoWorkIsLost, WorkingIsMonitored, Wips
<1>14. CancelsAreAwaited'
  <2> SUFFICES ASSUME Inputs \cap {"workerRestarts", "cancelFails"} = {}
               PROVE  CancelsAreAwaited'
    BY DEF CancelsAreAwaited
  <2>1. cancels = {} /\ WorkingCanBeCancelled
    BY <1>1 DEF IInv, CancelsAreAwaited
  <2>2. cancels' = {}
    BY <1>1, <2>1 DEF CancelsOf
  <2>3. WorkingCanBeCancelled'
    BY <1>4, <1>5, <2>1 DEF WorkingCanBeCancelled
  <2> QED BY <2>2, <2>3 DEF CancelsAreAwaited
<1> QED BY <1>6, <1>7, <1>8, <1>9, <1>10, <1>11, <1>12, <1>13, <1>14 DEF IInv

-----------------------------------------------------------------------------
(* Pulling in what has been received.                                      *)

\* Only what is wanted unchanged stays WORKING.
LEMMA ReceivedObject ==
  ASSUME TypeOK, NEW e \in Exp, tracked[e] # None \/ expectations[e] # None
  PROVE  /\ Received(e) \in TrackedExpectation /\ Received(e) # None
         /\ expectations[e] # None => Received(e).exp = expectations[e]
         /\ Received(e).state = "WORKING" =>
              /\ tracked[e] # None /\ tracked[e].state = "WORKING"
              /\ Received(e).cancel = tracked[e].cancel
              /\ ~IsChanged(e) /\ ~IsRemoved(e) /\ ~IsRestarted(e) /\ e \notin abort
         /\ \/ Received(e).errorOnRemoveCount = 0
            \/ /\ tracked[e] # None
               /\ Received(e).errorOnRemoveCount = tracked[e].errorOnRemoveCount
<1> DEFINE o == IF IsNew(e) \/ IsChanged(e) THEN DefaultTrackedExpectation(expectations[e])
                ELSE IF IsRemoved(e) THEN [tracked[e] EXCEPT !.state = "REMOVED", !.recheck = TRUE]
                ELSE MinorUpdate(e)
<1>1. /\ o \in TrackedExpectation
      /\ expectations[e] # None => o.exp = expectations[e]
      /\ o.state = "WORKING" => /\ tracked[e] # None /\ tracked[e].state = "WORKING"
                                /\ o.cancel = tracked[e].cancel
                                /\ ~IsChanged(e) /\ ~IsRemoved(e)
      /\ \/ o.errorOnRemoveCount = 0
         \/ tracked[e] # None /\ o.errorOnRemoveCount = tracked[e].errorOnRemoveCount
  <2>1. CASE IsNew(e) \/ IsChanged(e)
    <3>1. expectations[e] \in Content
      BY <2>1 DEF IsNew, IsChanged, TypeOK
    <3>2. o = DefaultTrackedExpectation(expectations[e])
      BY <2>1
    <3> HIDE DEF o
    <3> QED BY <3>1, <3>2, DefaultType
  <2>2. CASE IsRemoved(e)
    <3>1. tracked[e] \in TrackedExpectation /\ "REMOVED" \in State
      BY <2>2 DEF IsRemoved, TypeOK, State
    <3>2. o = [tracked[e] EXCEPT !.state = "REMOVED", !.recheck = TRUE]
      BY <2>2 DEF IsRemoved, IsNew, IsChanged
    <3> HIDE DEF o
    <3> QED BY <2>2, <3>1, <3>2 DEF IsRemoved, TrackedExpectation
  <2>3. CASE ~IsNew(e) /\ ~IsChanged(e) /\ ~IsRemoved(e)
    <3>1. tracked[e] # None /\ expectations[e] # None
      BY <2>3 DEF IsNew, IsRemoved
    <3>2. tracked[e] \in TrackedExpectation /\ expectations[e] \in Content
      BY <3>1 DEF TypeOK
    <3>3. o = [tracked[e] EXCEPT !.exp = expectations[e]]
      BY <2>3 DEF MinorUpdate
    <3> HIDE DEF o
    <3> QED BY <2>3, <3>1, <3>2, <3>3 DEF TrackedExpectation
  <2> QED BY <2>1, <2>2, <2>3
<1>2. Received(e) = IF e \in abort THEN WithState(o, "ABORTED", FALSE)
                    ELSE IF IsRestarted(e) THEN [o EXCEPT !.state = "RESTARTED", !.recheck = TRUE]
                    ELSE o
  BY DEF Received
<1> HIDE DEF o
<1>3. CASE e \in abort
  <2>1. Received(e) = WithState(o, "ABORTED", FALSE)
    BY <1>2, <1>3
  <2>2. /\ Received(e) \in TrackedExpectation /\ Received(e).state = "ABORTED"
        /\ Received(e).exp = o.exp /\ Received(e).errorOnRemoveCount = o.errorOnRemoveCount
    <3>1. "ABORTED" \in State
      BY DEF State
    <3>2. LET p == WithState(o, "ABORTED", FALSE)
          IN  /\ p \in TrackedExpectation /\ p.state = "ABORTED"
              /\ p.exp = o.exp /\ p.errorOnRemoveCount = o.errorOnRemoveCount
      BY <1>1, <3>1, WithStateType
    <3> QED BY <2>1, <3>2
  <2>3. Received(e) # None
    BY <2>2, NoneAssumption
  <2>4. Received(e).state # "WORKING"
    BY <2>2
  <2> QED BY <1>1, <2>2, <2>3, <2>4
<1>4. CASE e \notin abort /\ IsRestarted(e)
  <2>1. Received(e) = [o EXCEPT !.state = "RESTARTED", !.recheck = TRUE]
    BY <1>2, <1>4
  <2>2. /\ Received(e) \in TrackedExpectation /\ Received(e).state = "RESTARTED"
        /\ Received(e).exp = o.exp /\ Received(e).errorOnRemoveCount = o.errorOnRemoveCount
    BY <1>1, <2>1 DEF TrackedExpectation, State
  <2> QED BY <1>1, <2>2, NoneAssumption
<1>5. CASE e \notin abort /\ ~IsRestarted(e)
  <2>1. Received(e) = o
    BY <1>2, <1>5
  <2> QED BY <1>1, <1>5, <2>1, NoneAssumption
<1> QED BY <1>3, <1>4, <1>5

\* The works of the objects that are replaced go on, but not as theirs.
LEMMA StartRunWithUpdatesKeepsIInv ==
  ASSUME IInv, StartRunWithUpdates
  PROVE  IInv'
<1> DEFINE known    == {e \in Exp : tracked[e] # None \/ expectations[e] # None}
           replaced == {e \in Exp : IsChanged(e)}
<1>1. /\ pc = "idle" /\ pc' = "cancelling"
      /\ tracked' = [e \in Exp |-> IF e \in known THEN Received(e) ELSE None]
      /\ reported' = [e \in Exp |->
           IF e \in known /\ (tracked[e] = None \/ e \in replaced \/ Received(e).state # tracked[e].state)
           THEN Received(e).state ELSE reported[e]]
      /\ worksInProgress' = [k \in WipKey |->
           IF k \in Wips /\ worksInProgress[k].exp \in replaced /\ worksInProgress[k].object = "tracked"
           THEN [worksInProgress[k] EXCEPT !.object =
                   IF WipIsWorking(k) THEN "replacedWorking" ELSE "replacedIdle"]
           ELSE worksInProgress[k]]
      /\ cancels' = CancelsOf(replaced) \cup CancelsCalled /\ awaiting' = CancelsCalled
      /\ restart' = {} /\ abort' = {} /\ restartAll' = FALSE /\ updated' = FALSE
      /\ UNCHANGED <<expectations, containersUpdated, workerAgents, phase, pending, starting>>
      /\ UNCHANGED <<hadError, removeIds, runAgainASAP>>
  BY DEF StartRunWithUpdates, sessionVars
<1>2. \A x \in Exp : tracked'[x] = IF x \in known THEN Received(x) ELSE None
  BY <1>1
<1>3. TypeOK
  BY DEF IInv
<1>4. \A x \in known :
        /\ Received(x) \in TrackedExpectation /\ Received(x) # None
        /\ expectations[x] # None => Received(x).exp = expectations[x]
        /\ Received(x).state = "WORKING" =>
             /\ tracked[x] # None /\ tracked[x].state = "WORKING"
             /\ Received(x).cancel = tracked[x].cancel
             /\ ~IsChanged(x) /\ ~IsRemoved(x) /\ ~IsRestarted(x) /\ x \notin abort
        /\ \/ Received(x).errorOnRemoveCount = 0
           \/ tracked[x] # None /\ Received(x).errorOnRemoveCount = tracked[x].errorOnRemoveCount
  BY <1>3, ReceivedObject
<1>5. \A x \in InState("WORKING")' :
        /\ x \in InState("WORKING") /\ tracked'[x].cancel = tracked[x].cancel
        /\ ~IsChanged(x) /\ ~IsRemoved(x) /\ ~IsRestarted(x) /\ x \notin abort
  BY <1>2, <1>4 DEF InState, Tracked
<1>6. \A k \in WipKey :
        \/ worksInProgress'[k] = worksInProgress[k]
        \/ /\ worksInProgress[k] # None /\ worksInProgress'[k] \in WorkInProgress
           /\ worksInProgress'[k].exp = worksInProgress[k].exp
           /\ worksInProgress'[k].job = worksInProgress[k].job
           /\ worksInProgress'[k].object # "tracked" /\ IsChanged(worksInProgress[k].exp)
  <2> SUFFICES ASSUME NEW k \in Wips, worksInProgress[k].exp \in replaced,
                      NEW object \in {"replacedWorking", "replacedIdle"},
                      worksInProgress'[k] = [worksInProgress[k] EXCEPT !.object = object]
               PROVE  /\ worksInProgress[k] # None /\ worksInProgress'[k] \in WorkInProgress
                      /\ worksInProgress'[k].exp = worksInProgress[k].exp
                      /\ worksInProgress'[k].job = worksInProgress[k].job
                      /\ worksInProgress'[k].object # "tracked" /\ IsChanged(worksInProgress[k].exp)
    BY <1>1
  <2>1. worksInProgress[k] # None /\ worksInProgress[k] \in WorkInProgress
    BY <1>3 DEF Wips, TypeOK
  <2> QED BY <2>1 DEF WorkInProgress
<1>7. \A k \in WipKey : \A x : IsWipOf(k, x)' => IsWipOf(k, x)
  BY <1>6, NoneAssumption DEF IsWipOf
<1>8. \A x \in InState("WORKING")' : \A k \in WipKey : IsWipOf(k, x) => IsWipOf(k, x)'
  BY <1>5, <1>6 DEF IsWipOf
<1>9. \A e \in Exp : tracked[e] # None => tracked[e].cancel \in WipKey \cup {None}
  BY <1>3 DEF TypeOK, TrackedExpectation
<1>10. CancelsCalled \in SUBSET Cancel
  <2> SUFFICES ASSUME NEW e \in InState("WORKING"), tracked[e].cancel # None
               PROVE  [exp |-> e, wip |-> tracked[e].cancel, replaced |-> IsChanged(e)] \in Cancel
    BY DEF CancelsCalled
  <2>1. e \in Exp /\ tracked[e].cancel \in WipKey
    BY <1>9 DEF InState, Tracked
  <2>2. IsChanged(e) \in BOOLEAN
    BY DEF IsChanged
  <2> QED BY <2>1, <2>2 DEF Cancel
<1>11. TypeOK'
  <2>1. tracked' \in [Exp -> TrackedExpectation \cup {None}]
    BY <1>1, <1>2, <1>4
  <2>2. worksInProgress' \in [WipKey -> WorkInProgress \cup {None}]
    BY <1>1, <1>3, <1>6 DEF TypeOK
  <2>3. \A c \in Cancel : [c EXCEPT !.replaced = TRUE] \in Cancel
    BY DEF Cancel
  <2>4. cancels' \in SUBSET Cancel /\ awaiting' \in SUBSET Cancel
    BY <1>1, <1>3, <1>10, <2>3 DEF TypeOK, CancelsOf
  <2>5. \A x \in known : Received(x).state \in State
    BY <1>4 DEF TrackedExpectation
  <2>6. reported' \in [Exp -> State \cup {None}]
    BY <1>1, <1>3, <2>5 DEF TypeOK
  <2> QED BY <1>1, <1>3, <2>1, <2>2, <2>4, <2>6 DEF TypeOK
<1>12. WipsAreTracked'
  <2> SUFFICES ASSUME NEW k \in Wips', worksInProgress'[k].object = "tracked"
               PROVE  tracked'[worksInProgress'[k].exp] # None
    BY DEF WipsAreTracked
  <2>1. k \in Wips /\ worksInProgress'[k] = worksInProgress[k]
    BY <1>6 DEF Wips
  <2>2. worksInProgress[k].exp \in known
    BY <2>1 DEF IInv, WipsAreTracked, Wips, TypeOK, WorkInProgress
  <2> QED BY <1>2, <1>4, <2>1, <2>2
<1>13. WipsAreWorking' /\ PendingIsInPhase' /\ AwaitsBeforeEvaluating'
  BY <1>1 DEF WipsAreWorking, PendingIsInPhase, AwaitsBeforeEvaluating, Evaluating
<1>14. RemovalsAreOver'
  <2>1. removeIds = {} /\ \A x \in Exp : tracked[x] # None
                            => ~(tracked[x].errorOnRemoveCount > FAILED_REMOVE_COUNT)
    BY <1>1 DEF IInv, RemovalsAreOver, Evaluating, Tracked
  <2>2. ~(0 > FAILED_REMOVE_COUNT)
    BY ConstantsAssumption
  <2>3. \A x \in Tracked' : ~(tracked'[x].errorOnRemoveCount > FAILED_REMOVE_COUNT)
    BY <1>2, <1>4, <2>1, <2>2 DEF Tracked
  <2> QED BY <1>1, <2>1, <2>3 DEF RemovalsAreOver
<1>15. OneWorkInProgress'
  BY <1>5, <1>7 DEF IInv, OneWorkInProgress
<1>16. TrackedIsUpToDate'
  BY <1>1, <1>2, <1>4 DEF TrackedIsUpToDate, Tracked
<1>17. NoWorkIsLost'
  <2> SUFFICES ASSUME "workerRestarts" \notin Inputs
               PROVE  NoWorkIsLost'
    BY DEF NoWorkIsLost
  <2>1. WorkingIsMonitored'
    BY <1>5, <1>8 DEF IInv, NoWorkIsLost, WorkingIsMonitored
  <2>2. \A k \in Wips' : worksInProgress'[k].job # "dead"
    BY <1>6 DEF IInv, NoWorkIsLost, Wips
  <2> QED BY <2>1, <2>2 DEF NoWorkIsLost
<1>18. CancelsAreAwaited'
  <2> SUFFICES ASSUME Inputs \cap {"workerRestarts", "cancelFails"} = {}
               PROVE  CancelsAreAwaited'
    BY DEF CancelsAreAwaited
  <2>1. cancels = {} /\ WorkingCanBeCancelled
    BY <1>1 DEF IInv, CancelsAreAwaited
  <2>2. cancels' = awaiting' /\ cancels' = CancelsCalled
    BY <1>1, <2>1 DEF CancelsOf
  <2>3. \A c \in CancelsCalled : IsChanged(c.exp) \/ IsRemoved(c.exp) \/ IsRestarted(c.exp) \/ c.exp \in abort
    BY DEF CancelsCalled
  <2>4. \A c \in CancelsCalled : c.exp \notin InState("WORKING")'
    BY <1>5, <2>3
  <2>5. WorkingCanBeCancelled'
    <3> SUFFICES ASSUME NEW x \in InState("WORKING")'
                 PROVE  (tracked[x].cancel # None /\ IsWipOf(tracked[x].cancel, x))'
      BY DEF WorkingCanBeCancelled
    <3>1. /\ x \in InState("WORKING") /\ tracked'[x].cancel = tracked[x].cancel /\ ~IsChanged(x)
          /\ tracked[x].cancel # None /\ IsWipOf(tracked[x].cancel, x)
      BY <1>5, <2>1 DEF WorkingCanBeCancelled
    <3>2. tracked[x].cancel \in WipKey
      BY <1>9, <3>1 DEF InState, Tracked
    <3>3. worksInProgress'[tracked[x].cancel] = worksInProgress[tracked[x].cancel]
      BY <1>6, <3>1, <3>2 DEF IsWipOf
    <3> QED BY <3>1, <3>3 DEF IsWipOf
  <2> QED BY <1>1, <2>2, <2>4, <2>5 DEF CancelsAreAwaited
<1> QED BY <1>11, <1>12, <1>13, <1>14, <1>15, <1>16, <1>17, <1>18 DEF IInv

-----------------------------------------------------------------------------
(* The theorems.                                                           *)

LEMMA InitIInv == Init => IInv
<1> SUFFICES ASSUME Init
             PROVE  IInv
  OBVIOUS
<1>1. TypeOK
  <2>1. /\ expectations \in [Exp -> Content \cup {None}]
        /\ tracked \in [Exp -> TrackedExpectation \cup {None}]
        /\ worksInProgress \in [WipKey -> WorkInProgress \cup {None}]
        /\ reported \in [Exp -> State \cup {None}]
    BY DEF Init
  <2>2. phase \in 0 .. 6
    BY DEF Init
  <2> QED BY <2>1, <2>2 DEF Init, TypeOK
<1>2. Tracked = {} /\ Wips = {} /\ \A s : InState(s) = {}
  BY DEF Init, Tracked, Wips, InState
<1>3. WipsAreTracked /\ WipsAreWorking /\ PendingIsInPhase /\ AwaitsBeforeEvaluating
  BY <1>2 DEF Init, WipsAreTracked, WipsAreWorking, PendingIsInPhase, AwaitsBeforeEvaluating
<1>4. RemovalsAreOver /\ OneWorkInProgress /\ TrackedIsUpToDate
  BY <1>2 DEF Init, RemovalsAreOver, OneWorkInProgress, TrackedIsUpToDate
<1>5. NoWorkIsLost /\ CancelsAreAwaited
  BY <1>2 DEF Init, NoWorkIsLost, CancelsAreAwaited, WorkingIsMonitored, WorkingCanBeCancelled
<1> QED BY <1>1, <1>3, <1>4, <1>5 DEF IInv

LEMMA StutteringKeepsIInv ==
  ASSUME IInv, UNCHANGED vars
  PROVE  IInv'
<1>1. /\ UNCHANGED <<receivedVars, tracked, worksInProgress, workerAgents, cancels, runnerVars>>
      /\ UNCHANGED <<sessionVars, reported>>
  BY DEF vars
<1>2. ReceivedType' /\ workerAgents' \in SUBSET Worker
  BY <1>1 DEF ReceivedType, IInv, TypeOK, receivedVars
<1> QED BY <1>1, <1>2, ReceivingKeepsIInv DEF receivedVars, runnerVars, NothingReceived

LEMMA NextKeepsIInv == IInv /\ [Next]_vars => IInv'
<1> SUFFICES ASSUME IInv, [Next]_vars
             PROVE  IInv'
  OBVIOUS
<1>1. CASE UNCHANGED vars
  BY <1>1, StutteringKeepsIInv
<1>2. CASE Owner
  BY <1>2, OwnerKeepsIInv
<1>3. CASE Workers
  <2>1. ASSUME NEW w \in Worker, WorkerConnects(w) \/ WorkerGone(w)
        PROVE  IInv'
    BY <2>1, WorkerAgentsKeepIInv
  <2>2. ASSUME NEW w \in Worker, WorkerRestarts(w)
        PROVE  IInv'
    BY <2>2, WipDetailsKeepIInv
  <2>3. ASSUME NEW k \in WipKey, OnWipEventProgress(k) \/ WipEventLost(k)
        PROVE  IInv'
    BY <2>3, WipDetailsKeepIInv
  <2>4. ASSUME NEW k \in WipKey, OnWipEventDone(k) \/ OnWipEventError(k)
        PROVE  IInv'
    BY <2>4, WorkEventKeepsIInv
  <2>5. ASSUME NEW c \in cancels, CancelReturns(c)
        PROVE  IInv'
    BY <2>5, CancelReturnsKeepsIInv
  <2>6. ASSUME NEW c \in cancels, CancelFails(c)
        PROVE  IInv'
    BY <2>6, CancelFailsKeepsIInv
  <2> QED BY <1>3, <2>1, <2>2, <2>3, <2>4, <2>5, <2>6 DEF Workers
<1>4. CASE Time
  <2>1. ASSUME NEW e \in Exp, ErrorWaitOver(e)
        PROVE  IInv'
    BY <2>1, ErrorWaitOverKeepsIInv
  <2>2. ASSUME NEW k \in WipKey, WorkStalls(k)
        PROVE  IInv'
    BY <2>2, WipDetailsKeepIInv
  <2> QED BY <1>4, <2>1, <2>2 DEF Time
<1>5. CASE Runner
  <2>1. CASE StartRun \/ CancelsDone \/ PackageContainersDone
    BY <2>1, OntoEvaluationKeepsIInv
  <2>2. CASE StartRunWithUpdates
    BY <2>2, StartRunWithUpdatesKeepsIInv
  <2>3. CASE CheckWorksInProgress
    BY <2>3, CheckWorksInProgressKeepsIInv
  <2>4. ASSUME NEW e \in Exp, EvaluateInParallel(e)
        PROVE  IInv'
    BY <2>4, EvaluateInParallelKeepsIInv
  <2>5. CASE NextPhase
    BY <2>5, NextPhaseKeepsIInv
  <2>6. ASSUME NEW e \in Exp, EvaluateReady(e)
        PROVE  IInv'
    BY <2>6, EvaluateReadyKeepsIInv
  <2>7. ASSUME NEW l \in WipId, WorkStarted(l)
        PROVE  IInv'
    BY <2>7, WorkStartedKeepsIInv
  <2>8. CASE WorkNotStarted
    BY <2>8, WorkNotStartedKeepsIInv
  <2>9. CASE FinishRun
    BY <2>9, FinishRunKeepsIInv
  <2> QED BY <1>5, <2>1, <2>2, <2>3, <2>4, <2>5, <2>6, <2>7, <2>8, <2>9 DEF Runner
<1> QED BY <1>1, <1>2, <1>3, <1>4, <1>5 DEF Next

\* The named parts of IInv hold in every state that the tracker reaches, for
\* any number of Expectations and workers and whatever inputs there are.
THEOREM Invariance == Spec => []IInv
BY InitIInv, NextKeepsIInv, PTL DEF Spec

\* The state of the tracker is what the types of the code say.
THEOREM TypeCorrectness == Spec => []TypeOK
<1>1. IInv => TypeOK
  BY DEF IInv
<1> QED BY <1>1, Invariance, PTL

\* However works, cancels, stalls and restarts interleave, a WORKING Expectation
\* has at most one work in progress.
THEOREM OneWork == Spec => []OneWorkInProgress
<1>1. IInv => OneWorkInProgress
  BY DEF IInv
<1> QED BY <1>1, Invariance, PTL

\* What has been received and pulled in is what is tracked.
THEOREM NothingReceivedIsLost == Spec => []TrackedIsUpToDate
<1>1. IInv => TrackedIsUpToDate
  BY DEF IInv
<1> QED BY <1>1, Invariance, PTL

\* As long as no worker process restarts under the id it had, each WORKING
\* Expectation has a work in progress, so that it can leave that state.
THEOREM NoWorkWithoutMonitor ==
  ASSUME "workerRestarts" \notin Inputs
  PROVE  Spec => []WorkingIsMonitored
<1>1. IInv => WorkingIsMonitored
  BY DEF IInv, NoWorkIsLost
<1> QED BY <1>1, Invariance, PTL

\* And when no cancel fails either, its cancel function is the one of that work.
THEOREM CancelsTheRightWork ==
  ASSUME Inputs \cap {"workerRestarts", "cancelFails"} = {}
  PROVE  Spec => []WorkingCanBeCancelled
<1>1. IInv => WorkingCanBeCancelled
  BY DEF IInv, CancelsAreAwaited
<1> QED BY <1>1, Invariance, PTL

-----------------------------------------------------------------------------
(* What is reported.                                                       *)

\* None of the updates that have been received is a major one.
NoMajorUpdate == \A e \in Exp : ~IsChanged(e)

\* Then no work reports for an object that has been replaced, and what is going
\* to be dropped is not reported again.
ReportsInv ==
  /\ ReportedIsCurrent
  /\ \A e \in removeIds : reported[e] = None
  /\ \A k \in Wips : worksInProgress[k].object = "tracked"

LEMMA SameStatesKeepReports ==
  ASSUME ReportsInv, UNCHANGED <<reported, removeIds>>,
         \A x \in Exp : /\ tracked'[x] = None <=> tracked[x] = None
                        /\ tracked[x] # None => tracked'[x].state = tracked[x].state,
         \A k \in WipKey : worksInProgress'[k] # None =>
           /\ worksInProgress[k] # None
           /\ worksInProgress'[k].object = worksInProgress[k].object
  PROVE  ReportsInv'
<1>1. ReportedIsCurrent'
  BY DEF ReportsInv, ReportedIsCurrent
<1>2. \A k \in Wips' : worksInProgress'[k].object = "tracked"
  BY DEF ReportsInv, Wips
<1> QED BY <1>1, <1>2 DEF ReportsInv

\* The evaluation of an Expectation reports its state, or that it is dropped.
LEMMA EvaluatedKeepsReports ==
  ASSUME IInv, ReportsInv, NEW e \in Exp, tracked[e] # None, Evaluated(e), UNCHANGED worksInProgress
  PROVE  ReportsInv'
<1>1. /\ \A x \in Exp : tracked'[x] = None <=> tracked[x] = None
      /\ \A x \in Exp \ {e} : tracked[x] # None => tracked'[x].state = tracked[x].state
      /\ removeIds' \in {removeIds, removeIds \cup {e}}
      /\ IF e \in removeIds' THEN DropReported(e) \/ (e \in removeIds /\ UNCHANGED reported)
                             ELSE StateReported(e)
  BY DEF Evaluated, Touches
<1>2. /\ \A x \in Exp \ {e} : reported'[x] = reported[x]
      /\ e \in removeIds' => reported'[e] = None
      /\ e \notin removeIds' /\ reported[e] = tracked[e].state => reported'[e] = tracked'[e].state
  BY <1>1 DEF ReportsInv, DropReported, StateReported
<1>3. ReportedIsCurrent'
  <2> SUFFICES ASSUME NEW x \in Exp \ removeIds'
               PROVE  IF tracked'[x] = None THEN reported'[x] = None
                                            ELSE reported'[x] = tracked'[x].state
    BY DEF ReportedIsCurrent
  <2>1. x \in Exp \ removeIds
    BY <1>1
  <2> QED BY <1>1, <1>2, <2>1 DEF ReportsInv, ReportedIsCurrent
<1>4. \A x \in removeIds' : reported'[x] = None
  <2> SUFFICES ASSUME NEW x \in removeIds'
               PROVE  reported'[x] = None
    OBVIOUS
  <2>1. x = e \/ (x \in removeIds /\ x \in Exp \ {e})
    BY <1>1 DEF IInv, TypeOK
  <2> QED BY <1>2, <2>1 DEF ReportsInv
<1>5. \A k \in Wips' : worksInProgress'[k].object = "tracked"
  BY DEF ReportsInv, Wips
<1> QED BY <1>3, <1>4, <1>5 DEF ReportsInv

\* Progress, restarts and cancels of works report nothing.
LEMMA DetailsKeepReports ==
  ASSUME ReportsInv, OnlyDetails, UNCHANGED <<reported, removeIds>>
  PROVE  ReportsInv'
BY SameStatesKeepReports DEF OnlyDetails

\* The end of a work is reported for the object it was started for.
LEMMA EndWorkKeepsReports ==
  ASSUME IInv, ReportsInv, NEW k \in Wips, NEW s \in State \ {"WORKING"}, NEW isError \in BOOLEAN,
         EndWork(k, s, isError)
  PROVE  ReportsInv'
<1> DEFINE e == worksInProgress[k].exp
<1>1. /\ k \in WipKey /\ worksInProgress[k].object = "tracked"
      /\ e \in Exp /\ tracked[e] \in TrackedExpectation /\ tracked[e] # None
  BY DEF Wips, ReportsInv, IInv, TypeOK, WipsAreTracked, WorkInProgress
<1>2. UNCHANGED removeIds /\ worksInProgress' = [worksInProgress EXCEPT ![k] = None]
  BY DEF EndWork
<1>3. \A j \in WipKey : worksInProgress'[j] # None => worksInProgress'[j] = worksInProgress[j]
  BY <1>1, <1>2 DEF IInv, TypeOK
<1>4. CASE WipIsWorking(k)
  <2>1. UpdateStatus(e, tracked[e], s, isError)
    BY <1>1, <1>4 DEF EndWork
  <2>2. tracked[e].state = "WORKING" /\ e \notin removeIds
    BY <1>1, <1>4 DEF WipIsWorking, IInv, RemovalsAreOver, InState
  <2> HIDE DEF e
  <2>3. Touches(e) /\ tracked'[e].state = s /\ StateReported(e)
    BY <1>1, <2>1, UpdateStatusTouches DEF IInv
  <2>4. ReportedIsCurrent'
    BY <1>1, <1>2, <2>2, <2>3 DEF ReportsInv, ReportedIsCurrent, Touches, StateReported
  <2>5. \A x \in removeIds' : reported'[x] = None
    BY <1>2, <2>2, <2>3 DEF ReportsInv, StateReported, IInv, TypeOK
  <2>6. \A j \in Wips' : worksInProgress'[j].object = "tracked"
    BY <1>3 DEF ReportsInv, Wips
  <2> QED BY <2>4, <2>5, <2>6 DEF ReportsInv
<1>5. CASE ~WipIsWorking(k)
  <2>1. UNCHANGED <<tracked, reported>>
    BY <1>1, <1>5 DEF EndWork
  <2> QED BY <1>2, <1>3, <2>1, SameStatesKeepReports
<1> QED BY <1>4, <1>5

\* What becomes of the objects when the received updates are pulled in is reported.
LEMMA StartRunWithUpdatesKeepsReports ==
  ASSUME IInv, ReportsInv, NoMajorUpdate, StartRunWithUpdates
  PROVE  ReportsInv'
<1>1. removeIds = {} /\ UNCHANGED removeIds
  BY DEF StartRunWithUpdates, sessionVars, IInv, RemovalsAreOver, Evaluating
<1>2. \A k \in WipKey : worksInProgress'[k] = worksInProgress[k]
  BY DEF StartRunWithUpdates, NoMajorUpdate, IInv, TypeOK
<1>3. \A x \in Exp :
        IF tracked[x] # None \/ expectations[x] # None
        THEN /\ tracked'[x] = Received(x)
             /\ reported'[x] = IF tracked[x] = None \/ Received(x).state # tracked[x].state
                               THEN Received(x).state ELSE reported[x]
        ELSE tracked'[x] = None /\ reported'[x] = reported[x]
  BY DEF StartRunWithUpdates, NoMajorUpdate
<1>4. \A x \in Exp : tracked[x] # None \/ expectations[x] # None => Received(x) # None
  BY ReceivedObject DEF IInv
<1>5. ReportedIsCurrent'
  BY <1>1, <1>3, <1>4 DEF ReportsInv, ReportedIsCurrent
<1>6. \A k \in Wips' : worksInProgress'[k].object = "tracked"
  BY <1>2 DEF ReportsInv, Wips
<1> QED BY <1>1, <1>5, <1>6 DEF ReportsInv

\* The works that have stalled are reported, whatever becomes of them on the worker.
LEMMA CheckWorksInProgressKeepsReports ==
  ASSUME IInv, ReportsInv, CheckWorksInProgress
  PROVE  ReportsInv'
<1> DEFINE restarts(x, object) == \E k \in StalledWips : /\ worksInProgress[k].exp = x
                                                         /\ worksInProgress[k].object = object
<1>1. /\ removeIds = {} /\ removeIds' = {}
      /\ worksInProgress' = [k \in WipKey |-> IF k \in StalledWips \cup IdleWips THEN None
                                              ELSE worksInProgress[k]]
      /\ tracked' = [x \in Exp |-> IF restarts(x, "tracked")
                                   THEN WithState(tracked[x], "NEW", FALSE) ELSE tracked[x]]
      /\ reported' = [x \in Exp |-> IF restarts(x, "tracked") \/ restarts(x, "replacedWorking")
                                    THEN "NEW" ELSE reported[x]]
  BY DEF CheckWorksInProgress, IInv, RemovalsAreOver, Evaluating
<1>2. \A x : ~restarts(x, "replacedWorking")
  BY DEF ReportsInv, StalledWips
<1>3. \A x \in Exp : restarts(x, "tracked") => tracked[x] # None /\ tracked[x] \in TrackedExpectation
  BY DEF IInv, TypeOK, WipsAreTracked, StalledWips
<1>4. \A x \in Exp : restarts(x, "tracked") =>
        LET new == WithState(tracked[x], "NEW", FALSE)
        IN  new # None /\ new.state = "NEW"
  <2>1. "NEW" \in State
    BY DEF State
  <2> QED BY <1>3, <2>1, WithStateType
<1> HIDE DEF restarts
<1>5. \A x \in Exp : /\ restarts(x, "tracked") => tracked'[x] # None /\ tracked'[x].state = "NEW"
                                                  /\ reported'[x] = "NEW"
                     /\ ~restarts(x, "tracked") => tracked'[x] = tracked[x] /\ reported'[x] = reported[x]
  BY <1>1, <1>2, <1>4
<1>6. ReportedIsCurrent'
  BY <1>1, <1>5 DEF ReportsInv, ReportedIsCurrent
<1>7. \A k \in Wips' : worksInProgress'[k].object = "tracked"
  BY <1>1 DEF ReportsInv, Wips
<1> QED BY <1>1, <1>6, <1>7 DEF ReportsInv

\* A work that is started is one of the tracked object.
LEMMA WorkStartedKeepsReports ==
  ASSUME IInv, ReportsInv, NEW l \in WipId, WorkStarted(l)
  PROVE  ReportsInv'
<1> DEFINE e == starting.exp
           k == <<starting.worker, l>>
           o == CanBeCancelled(tracked[e], k)
<1>1. pc = "starting" /\ UpdateStatus(e, o, "WORKING", FALSE) /\ UNCHANGED removeIds
  BY DEF WorkStarted
<1>2. PICK wip : wip.object = "tracked" /\ worksInProgress' = [worksInProgress EXCEPT ![k] = wip]
  <2>1. PICK job \in {"running", "silent"} :
          worksInProgress' = [worksInProgress EXCEPT ![k] =
            [exp |-> e, object |-> "tracked", job |-> job, stalled |-> FALSE]]
    BY DEF WorkStarted
  <2>2. [exp |-> e, object |-> "tracked", job |-> job, stalled |-> FALSE].object = "tracked"
    OBVIOUS
  <2> QED BY <2>1, <2>2
<1>3. starting # None /\ e \in InState("READY")
  BY <1>1 DEF IInv, PendingIsInPhase
<1>4. k \in WipKey
  BY <1>3 DEF IInv, TypeOK, Start, WipKey
<1>5. e \in Exp /\ tracked[e] # None /\ tracked[e] \in TrackedExpectation /\ e \notin removeIds
  BY <1>3 DEF InState, Tracked, IInv, TypeOK, RemovalsAreOver
<1>6. o \in TrackedExpectation /\ o.exp = tracked[e].exp
  BY <1>4, <1>5 DEF CanBeCancelled, TrackedExpectation
<1> HIDE DEF e, k, o
<1>7. Touches(e) /\ StateReported(e)
  BY <1>1, <1>5, <1>6, UpdateStatusTouches DEF IInv, State
<1>8. ReportedIsCurrent'
  BY <1>1, <1>5, <1>7 DEF ReportsInv, ReportedIsCurrent, Touches, StateReported
<1>9. \A x \in removeIds' : reported'[x] = None
  BY <1>1, <1>5, <1>7 DEF ReportsInv, StateReported, IInv, TypeOK
<1>10. \A j \in Wips' : worksInProgress'[j].object = "tracked"
  BY <1>2, <1>4 DEF ReportsInv, Wips, IInv, TypeOK
<1> QED BY <1>8, <1>9, <1>10 DEF ReportsInv

LEMMA FinishRunKeepsReports ==
  ASSUME ReportsInv, FinishRun
  PROVE  ReportsInv'
<1>1. /\ tracked' = [x \in Exp |-> IF x \in removeIds THEN None ELSE tracked[x]]
      /\ removeIds' = {} /\ UNCHANGED <<worksInProgress, reported>>
  BY DEF FinishRun
<1>2. ReportedIsCurrent'
  BY <1>1 DEF ReportsInv, ReportedIsCurrent
<1> QED BY <1>1, <1>2 DEF ReportsInv, Wips

LEMMA NextKeepsReports ==
  ASSUME IInv, ReportsInv, NoMajorUpdate, [Next]_vars
  PROVE  ReportsInv'
<1>1. CASE UNCHANGED <<tracked, reported, removeIds, worksInProgress>>
  BY <1>1, SameStatesKeepReports
<1>2. CASE Owner \/ UNCHANGED vars
  BY <1>1, <1>2 DEF Owner, SetExpectations, RestartExpectation, AbortExpectation,
                    RestartAllExpectations, UpdatePackageContainers, vars, sessionVars
<1>3. CASE Workers
  <2>1. ASSUME NEW w \in Worker, WorkerConnects(w) \/ WorkerGone(w)
        PROVE  ReportsInv'
    BY <1>1, <2>1 DEF WorkerConnects, WorkerGone, sessionVars
  <2>2. CASE \/ \E w \in Worker : WorkerRestarts(w)
             \/ \E k \in WipKey : WorkStalls(k) \/ OnWipEventProgress(k) \/ WipEventLost(k)
    BY <2>2, WipDetails, DetailsKeepReports DEF sessionVars
  <2>3. ASSUME NEW k \in WipKey, OnWipEventDone(k) \/ OnWipEventError(k)
        PROVE  ReportsInv'
    BY <2>3, EndWorkKeepsReports DEF OnWipEventDone, OnWipEventError, State
  <2>4. ASSUME NEW c \in cancels, CancelReturns(c)
        PROVE  ReportsInv'
    BY <2>4, CancelReturnsDetails, DetailsKeepReports DEF CancelReturns, sessionVars
  <2>5. ASSUME NEW c \in cancels, CancelFails(c)
        PROVE  ReportsInv'
    BY <1>1, <2>5 DEF CancelFails, sessionVars
  <2> QED BY <1>3, <2>1, <2>2, <2>3, <2>4, <2>5 DEF Workers
<1>4. CASE Time
  <2>1. ASSUME NEW e \in Exp, ErrorWaitOver(e)
        PROVE  ReportsInv'
    BY <2>1, ErrorWaitOverDetails, DetailsKeepReports DEF ErrorWaitOver, sessionVars
  <2>2. ASSUME NEW k \in WipKey, WorkStalls(k)
        PROVE  ReportsInv'
    BY <2>2, WipDetails, DetailsKeepReports DEF sessionVars
  <2> QED BY <1>4, <2>1, <2>2 DEF Time
<1>5. CASE Runner
  <2>1. CASE StartRun \/ CancelsDone \/ PackageContainersDone \/ NextPhase
    BY <1>1, <2>1 DEF StartRun, CancelsDone, PackageContainersDone, NextPhase, sessionVars
  <2>2. CASE StartRunWithUpdates
    BY <2>2, StartRunWithUpdatesKeepsReports
  <2>3. CASE CheckWorksInProgress
    BY <2>3, CheckWorksInProgressKeepsReports
  <2>4. ASSUME NEW e \in Exp, EvaluateInParallel(e)
        PROVE  ReportsInv'
    BY <2>4, InParallelEvaluated, EvaluatedKeepsReports DEF EvaluateInParallel
  <2>5. ASSUME NEW e \in Exp, EvaluateReady(e)
        PROVE  ReportsInv'
    BY <2>5, ReadyEvaluated, EvaluatedKeepsReports DEF EvaluateReady
  <2>6. ASSUME NEW l \in WipId, WorkStarted(l)
        PROVE  ReportsInv'
    BY <2>6, WorkStartedKeepsReports
  <2>7. CASE WorkNotStarted
    BY <2>7, NotStartedEvaluated, EvaluatedKeepsReports DEF WorkNotStarted, InState, Tracked
  <2>8. CASE FinishRun
    BY <2>8, FinishRunKeepsReports
  <2> QED BY <1>5, <2>1, <2>2, <2>3, <2>4, <2>5, <2>6, <2>7, <2>8 DEF Runner
<1> QED BY <1>2, <1>3, <1>4, <1>5 DEF Next

\* As long as no major update is received, the owner has been told the state
\* that each Expectation is in, whichever of the events, the timeouts, the
\* evaluations and the pulling in of updates has changed it last.
THEOREM ReportsAreCurrent == Spec /\ []NoMajorUpdate => []ReportedIsCurrent
<1>1. Init => ReportsInv
  BY DEF Init, ReportsInv, ReportedIsCurrent, Wips
<1>2. IInv /\ ReportsInv /\ NoMajorUpdate /\ [Next]_vars => ReportsInv'
  BY NextKeepsReports
<1>3. ReportsInv => ReportedIsCurrent
  BY DEF ReportsInv
<1> QED BY <1>1, <1>2, <1>3, Invariance, PTL DEF Spec

-----------------------------------------------------------------------------
(* Aborts.                                                                 *)

\* The evaluation of an aborted Expectation leaves it aborted, or finds no worker.
LEMMA AbortedEvaluated ==
  ASSUME IInv, NEW e \in Exp, tracked[e] # None, tracked[e].state = "ABORTED",
         e \notin removeIds, EvaluateInParallel(e)
  PROVE  \/ tracked'[e].state = "ABORTED"
         \/ tracked'[e].state = "NEW" /\ tracked'[e].availableWorkers = {}
<1>1. tracked[e] \in TrackedExpectation /\ tracked \in [Exp -> TrackedExpectation \cup {None}]
  BY DEF IInv, TypeOK
<1>2. ASSUME NEW a \in Assignments(tracked[e]), NEW s \in {"NEW", "ABORTED"}, NEW isError \in BOOLEAN,
             UpdateStatus(e, [tracked[e] EXCEPT !.availableWorkers = a.available], s, isError)
      PROVE  tracked'[e].state = s /\ tracked'[e].availableWorkers = a.available
  <2> DEFINE o == [tracked[e] EXCEPT !.availableWorkers = a.available]
  <2>1. o \in TrackedExpectation /\ o.availableWorkers = a.available
    BY <1>1, AssignmentsType DEF TrackedExpectation
  <2>2. tracked' = [tracked EXCEPT ![e] = WithState(o, s, isError)]
    BY <1>2 DEF UpdateStatus
  <2> HIDE DEF o
  <2>3. /\ WithState(o, s, isError).state = s
        /\ WithState(o, s, isError).availableWorkers = a.available
    BY <2>1 DEF WithState, TrackedExpectation
  <2> QED BY <1>1, <2>2, <2>3
<1>3. CASE HandlerThrows(e)
  BY <1>2, <1>3 DEF HandlerThrows
<1>4. ASSUME NEW a \in Assignments(tracked[e]),
             NoWorkerAssigned(e, [tracked[e] EXCEPT !.availableWorkers = a.available])
      PROVE  \/ tracked'[e].state = "ABORTED"
             \/ tracked'[e].state = "NEW" /\ tracked'[e].availableWorkers = {}
  <2> DEFINE o == [tracked[e] EXCEPT !.availableWorkers = a.available]
             s == IF a.available = {} THEN "NEW" ELSE "ABORTED"
  <2>1. o.availableWorkers = a.available /\ o.state = "ABORTED"
    BY <1>1, AssignmentsType DEF TrackedExpectation
  <2>2. UpdateStatus(e, o, s, FALSE)
    <3>1. UpdateStatus(e, o, IF o.availableWorkers = {} \/ o.state = "WAITING" THEN "NEW" ELSE o.state, FALSE)
      BY <1>4 DEF NoWorkerAssigned
    <3>2. s = IF o.availableWorkers = {} \/ o.state = "WAITING" THEN "NEW" ELSE o.state
      BY <2>1
    <3> QED BY <3>1, <3>2
  <2>3. tracked'[e].state = s /\ tracked'[e].availableWorkers = a.available
    <3>1. s \in {"NEW", "ABORTED"}
      OBVIOUS
    <3> HIDE DEF s
    <3> QED BY <1>2, <2>2, <3>1
  <2> QED BY <2>3
<1>5. ASSUME NEW a \in Assignments(tracked[e]),
             UpdateStatus(e, [tracked[e] EXCEPT !.availableWorkers = a.available],
                          [tracked[e] EXCEPT !.availableWorkers = a.available].state, TRUE)
      PROVE  tracked'[e].state = "ABORTED"
  <2>1. [tracked[e] EXCEPT !.availableWorkers = a.available].state = "ABORTED"
    BY <1>1, AssignmentsType, WithWorkersType
  <2> QED BY <1>2, <1>5, <2>1
<1>6. CASE RemoveThen(e, "ABORTED")
  BY <1>2, <1>3, <1>4, <1>5, <1>6 DEF RemoveThen
<1>7. CASE UNCHANGED tracked
  BY <1>7
<1>8. RemoveThen(e, "ABORTED") \/ UNCHANGED tracked
  BY DEF EvaluateInParallel, EvaluateAborted, EvaluateRestarted, EvaluateRemoved, EvaluateNew,
         EvaluateWaiting, EvaluateFulfilled
<1> QED BY <1>6, <1>7, <1>8

\* Pulled in without a restart, a removal or a major change, it stays aborted.
LEMMA AbortedWhenReceived ==
  ASSUME IInv, NEW e \in Exp, tracked[e] # None, tracked[e].state = "ABORTED", StartRunWithUpdates
  PROVE  tracked'[e].state = "ABORTED" \/ IsRestarted(e) \/ IsRemoved(e) \/ IsChanged(e)
<1> SUFFICES ASSUME ~IsRestarted(e), ~IsRemoved(e), ~IsChanged(e)
             PROVE  tracked'[e].state = "ABORTED"
  OBVIOUS
<1>1. tracked[e] \in TrackedExpectation /\ expectations[e] \in Content
  BY DEF IInv, TypeOK, IsRemoved
<1>2. tracked'[e] = IF e \in abort THEN WithState(MinorUpdate(e), "ABORTED", FALSE) ELSE MinorUpdate(e)
  BY DEF StartRunWithUpdates, Received, IsNew
<1>3. MinorUpdate(e) \in TrackedExpectation /\ MinorUpdate(e).state = "ABORTED"
  BY <1>1 DEF MinorUpdate, TrackedExpectation
<1>4. WithState(MinorUpdate(e), "ABORTED", FALSE).state = "ABORTED"
  BY <1>3, WithStateType DEF State
<1> QED BY <1>2, <1>3, <1>4

\* What work there was for an aborted Expectation, and what is evaluated of it,
\* does not bring it back: only the owner does, or the loss of all its workers.
THEOREM AbortedIsLeftForAReason == Spec => AbortedLeavesForAReason
<1> DEFINE Reason(e) ==
             \/ IsAskedFor(e)
             \/ tracked'[e].state = "NEW" /\ tracked'[e].availableWorkers = {}
           A == \A e \in Exp : LeavesForAReason(e)
<1>1. ASSUME IInv, Next, NEW e \in Exp, LeavesAborted(e)
      PROVE  Reason(e)
  <2>1. /\ tracked[e] # None /\ tracked[e].state = "ABORTED"
        /\ tracked'[e] # None /\ tracked'[e].state # "ABORTED"
    BY <1>1 DEF LeavesAborted
  <2>2. CASE UNCHANGED tracked \/ OnlyDetails
    BY <2>1, <2>2 DEF OnlyDetails
  <2>3. CASE Owner
    BY <2>2, <2>3 DEF Owner, SetExpectations, RestartExpectation, AbortExpectation,
                      RestartAllExpectations, UpdatePackageContainers
  <2>4. CASE Workers
    <3>1. CASE \E w \in Worker : WorkerConnects(w) \/ WorkerGone(w)
      BY <2>2, <3>1 DEF WorkerConnects, WorkerGone
    <3>2. CASE \/ \E w \in Worker : WorkerRestarts(w)
               \/ \E k \in WipKey : WorkStalls(k) \/ OnWipEventProgress(k) \/ WipEventLost(k)
      BY <1>1, <2>2, <3>2, WipDetails
    <3>3. ASSUME NEW k \in WipKey, OnWipEventDone(k) \/ OnWipEventError(k)
          PROVE  FALSE
      <4>1. k \in Wips /\ (EndWork(k, "FULFILLED", FALSE) \/ EndWork(k, "NEW", TRUE))
        BY <3>3 DEF OnWipEventDone, OnWipEventError
      <4>2. CASE worksInProgress[k].object = "tracked" /\ WipIsWorking(k)
        <5> DEFINE x == worksInProgress[k].exp
        <5>1. tracked[x].state = "WORKING"
          BY <4>2 DEF WipIsWorking
        <5>2. \E o : tracked' = [tracked EXCEPT ![x] = o]
          BY <4>1, <4>2 DEF EndWork, UpdateStatus
        <5> HIDE DEF x
        <5>3. tracked'[e] = tracked[e]
          BY <1>1, <2>1, <5>1, <5>2 DEF IInv, TypeOK
        <5> QED BY <2>1, <5>3
      <4>3. CASE ~(worksInProgress[k].object = "tracked" /\ WipIsWorking(k))
        BY <2>1, <4>1, <4>3 DEF EndWork
      <4> QED BY <4>2, <4>3
    <3>4. CASE \E c \in cancels : CancelReturns(c)
      BY <1>1, <2>2, <3>4, CancelReturnsDetails
    <3>5. CASE \E c \in cancels : CancelFails(c)
      BY <2>2, <3>5 DEF CancelFails
    <3> QED BY <2>4, <3>1, <3>2, <3>3, <3>4, <3>5 DEF Workers
  <2>5. CASE Time
    BY <1>1, <2>2, <2>5, ErrorWaitOverDetails, WipDetails DEF Time
  <2>6. CASE Runner
    <3>1. CASE StartRun \/ CancelsDone \/ PackageContainersDone \/ NextPhase
      BY <2>2, <3>1 DEF StartRun, CancelsDone, PackageContainersDone, NextPhase
    <3>2. CASE StartRunWithUpdates
      <4>1. IsRestarted(e) \/ IsRemoved(e) \/ IsChanged(e)
        BY <1>1, <2>1, <3>2, AbortedWhenReceived
      <4> QED BY <3>2, <4>1 DEF StartRunWithUpdates, IsAskedFor
    <3>3. CASE CheckWorksInProgress
      <4>1. \/ tracked'[e] = tracked[e]
            \/ \E k \in StalledWips : worksInProgress[k].exp = e /\ worksInProgress[k].object = "tracked"
        BY <3>3 DEF CheckWorksInProgress
      <4>2. \A k \in StalledWips : worksInProgress[k].object = "tracked"
              => tracked[worksInProgress[k].exp].state = "WORKING"
        BY DEF StalledWips, WipIsWorking
      <4> QED BY <2>1, <4>1, <4>2
    <3>4. ASSUME NEW x \in Exp, EvaluateInParallel(x)
          PROVE  Reason(e)
      <4>1. CASE x = e
        <5>1. e \notin removeIds
          BY <1>1, <2>1 DEF IInv, RemovalsAreOver, InState
        <5> QED BY <1>1, <2>1, <3>4, <4>1, <5>1, AbortedEvaluated
      <4>2. CASE x # e
        BY <1>1, <2>1, <3>4, <4>2, InParallelEvaluated DEF Evaluated, Touches
      <4> QED BY <4>1, <4>2
    <3>5. ASSUME NEW x \in InState("READY"), Evaluated(x)
          PROVE  FALSE
      <4>1. x \in Exp /\ x # e
        BY <2>1, <3>5 DEF InState, Tracked
      <4> QED BY <2>1, <3>5, <4>1 DEF Evaluated, Touches
    <3>6. CASE \E x \in Exp : EvaluateReady(x)
      BY <1>1, <3>5, <3>6, ReadyEvaluated
    <3>7. CASE WorkNotStarted
      BY <1>1, <3>5, <3>7, NotStartedEvaluated
    <3>8. CASE \E l \in WipId : WorkStarted(l)
      <4>1. pc = "starting" /\ \E o : tracked' = [tracked EXCEPT ![starting.exp] = o]
        BY <3>8 DEF WorkStarted, UpdateStatus
      <4>2. starting.exp # e
        BY <1>1, <2>1, <4>1 DEF IInv, PendingIsInPhase, InState
      <4>3. tracked'[e] = tracked[e]
        BY <1>1, <4>1, <4>2 DEF IInv, TypeOK
      <4> QED BY <2>1, <4>3
    <3>9. CASE FinishRun
      BY <2>1, <3>9 DEF FinishRun
    <3> QED BY <2>6, <3>1, <3>2, <3>3, <3>4, <3>6, <3>7, <3>8, <3>9 DEF Runner
  <2> QED BY <1>1, <2>3, <2>4, <2>5, <2>6 DEF Next
<1>2. IInv /\ [Next]_vars => [A]_vars
  BY <1>1 DEF LeavesForAReason
<1> HIDE DEF A
<1>3. Spec => [][A]_vars
  BY <1>2, Invariance, PTL DEF Spec
<1> QED BY <1>3 DEF AbortedLeavesForAReason, A

-----------------------------------------------------------------------------
(* The tracker under its scheduler.                                        *)

(***************************************************************************)
(* Under the scheduler the tracker does nothing its own specification does *)
(* not allow: the schedule only restricts when runs begin.                 *)
(***************************************************************************)
THEOREM TrackerIsImplemented == ManagerSpec => Spec
<1>1. ManagerInit => Init
  BY DEF ManagerInit
<1>2. [ManagerNext]_managerVars => [Next]_vars
  <2>1. ASSUME UNCHANGED managerVars
        PROVE  UNCHANGED vars
    BY <2>1 DEF managerVars
  <2>2. CASE OwnerCalls
    BY <2>2 DEF OwnerCalls, Next
  <2>3. CASE WorkerConnection
    BY <2>3 DEF WorkerConnection, Next, Workers
  <2>4. ASSUME NEW k \in WipKey, DoneEvent(k)
        PROVE  Next
    BY <2>4 DEF DoneEvent, Next, Workers
  <2>5. CASE OtherEvents
    BY <2>5 DEF OtherEvents, Next, Workers
  <2>6. ASSUME NEW c \in cancels, CancelRejected(c)
        PROVE  Next
    BY <2>6 DEF CancelRejected, Next, Workers
  <2>7. CASE RunBegins
    BY <2>7 DEF RunBegins, Next, Runner
  <2>8. CASE RunGoesOn
    BY <2>8 DEF RunGoesOn, Next
  <2>9. CASE RunFinishes
    BY <2>9 DEF RunFinishes, Next, Runner
  <2>10. CASE RunReturns
    BY <2>10 DEF RunReturns
  <2>11. CASE Terminate
    BY <2>11 DEF Terminate
  <2> QED BY <2>1, <2>2, <2>3, <2>4, <2>5, <2>6, <2>7, <2>8, <2>9, <2>10, <2>11 DEF ManagerNext
<1> QED BY <1>1, <1>2, PTL DEF ManagerSpec, Spec

-----------------------------------------------------------------------------
(* What the steps of the tracker leave to the scheduler.                   *)

\* Only a call by the owner makes an update wait.
LEMMA OnlyTheOwnerUpdates ==
  ASSUME Workers \/ Time \/ Runner, updated'
  PROVE  updated
<1>1. CASE Workers
  BY <1>1 DEF Workers, WorkerConnects, WorkerGone, WorkerRestarts, OnWipEventProgress, OnWipEventDone,
              OnWipEventError, WipEventLost, CancelReturns, CancelFails, EndWork, receivedVars
<1>2. CASE Time
  BY <1>2 DEF Time, ErrorWaitOver, WorkStalls, receivedVars
<1>3. CASE Runner
  BY <1>3 DEF Runner, StartRun, StartRunWithUpdates, CancelsDone, PackageContainersDone,
              CheckWorksInProgress, EvaluateInParallel, NextPhase, EvaluateReady, WorkStarted,
              WorkNotStarted, FinishRun, receivedVars
<1> QED BY <1>1, <1>2, <1>3

\* A call by the owner leaves the run where it is.
LEMMA TheOwnerDoesNotRun ==
  ASSUME Owner
  PROVE  pc' = pc
BY DEF Owner, SetExpectations, RestartExpectation, AbortExpectation, RestartAllExpectations,
       UpdatePackageContainers, runnerVars

-----------------------------------------------------------------------------
(* The invariant of the scheduling, one lemma per kind of step.            *)

\* A trigger, by whoever, while the run stays where it is.
LEMMA TriggerKeepsManagerInv ==
  ASSUME ManagerInv, Scheduler!TriggerEvaluation(TRUE), UNCHANGED result, pc' = pc
  PROVE  ManagerInv'
<1> USE DEF ManagerInv, ManagerTypeOK, Scheduler!SchedulerTypeOK, Scheduler!SchedulerInv,
            RunsDoNotOverlap, ReceivedIsRunAsap
<1>1. CASE terminated
  BY <1>1 DEF Scheduler!TriggerEvaluation, Scheduler!schedulerVars
<1>2. CASE ~terminated
  <2>1. /\ runNextAsap' = TRUE /\ UNCHANGED <<terminated, isRunning>>
        /\ scheduleTimeout' = IF isRunning THEN scheduleTimeout ELSE "asap"
    BY <1>2 DEF Scheduler!TriggerEvaluation
  <2> QED BY <1>2, <2>1
<1> QED BY <1>1, <1>2

\* Nothing is scheduled, nothing more waits.
LEMMA QuietKeepsManagerInv ==
  ASSUME ManagerInv, UNCHANGED <<schedulerVars, result>>, updated' => updated,
         pc' # "idle" => pc # "idle"
  PROVE  ManagerInv'
BY DEF ManagerInv, ManagerTypeOK, Scheduler!SchedulerTypeOK, Scheduler!SchedulerInv,
       RunsDoNotOverlap, ReceivedIsRunAsap, schedulerVars

\* The run in progress returns, with its work done.
LEMMA ReturnKeepsManagerInv ==
  ASSUME ManagerInv, NEW asap \in BOOLEAN, Scheduler!RunReturns(asap), result' \in BOOLEAN,
         updated' => updated, pc' = "idle"
  PROVE  ManagerInv'
<1> USE DEF ManagerInv, ManagerTypeOK, Scheduler!SchedulerTypeOK, Scheduler!SchedulerInv,
            RunsDoNotOverlap, ReceivedIsRunAsap
<1>1. CASE terminated
  BY <1>1 DEF Scheduler!RunReturns
<1>2. CASE ~terminated
  BY <1>2 DEF Scheduler!RunReturns
<1> QED BY <1>1, <1>2

LEMMA RunBeginsKeepsManagerInv ==
  ASSUME ManagerInv, RunBegins
  PROVE  ManagerInv'
<1>1. ~updated'
  BY DEF RunBegins, StartRun, StartRunWithUpdates
<1>2. /\ isRunning' = TRUE /\ runNextAsap' = FALSE /\ scheduleTimeout' = "none"
      /\ UNCHANGED <<terminated, result>>
  BY DEF RunBegins, Scheduler!TimeoutFires
<1> QED BY <1>1, <1>2 DEF ManagerInv, ManagerTypeOK, Scheduler!SchedulerTypeOK,
                          Scheduler!SchedulerInv, RunsDoNotOverlap, ReceivedIsRunAsap

(***************************************************************************)
(* The scheduling is right whatever the owner and the workers do, and      *)
(* however runs end: runs do not overlap, and what is received is run as   *)
(* soon as possible.                                                       *)
(***************************************************************************)
THEOREM ManagerInvariance == ManagerSpec => []ManagerInv
<1>1. ManagerInit => ManagerInv
  BY DEF ManagerInit, Init, Scheduler!Init, ManagerInv, ManagerTypeOK, Scheduler!SchedulerTypeOK,
         Scheduler!SchedulerInv, RunsDoNotOverlap, ReceivedIsRunAsap
<1>2. IInv /\ ManagerInv /\ [ManagerNext]_managerVars => ManagerInv'
  <2> SUFFICES ASSUME IInv, ManagerInv, [ManagerNext]_managerVars
               PROVE  ManagerInv'
    OBVIOUS
  <2>1. CASE UNCHANGED managerVars
    BY <2>1, QuietKeepsManagerInv DEF managerVars, vars, receivedVars, runnerVars
  <2>2. CASE OwnerCalls
    <3>1. pc' = pc
      BY <2>2, TheOwnerDoesNotRun DEF OwnerCalls, vars, runnerVars
    <3> QED BY <2>2, <3>1, TriggerKeepsManagerInv DEF OwnerCalls
  <2>3. CASE WorkerConnection
    <3>1. pc' = pc
      BY <2>3 DEF WorkerConnection, WorkerConnects, WorkerRestarts, runnerVars
    <3> QED BY <2>3, <3>1, TriggerKeepsManagerInv DEF WorkerConnection
  <2>4. ASSUME NEW k \in WipKey, DoneEvent(k)
        PROVE  ManagerInv'
    <3>1. pc' = pc /\ (updated' => updated)
      BY <2>4 DEF DoneEvent, OnWipEventDone, EndWork, runnerVars, receivedVars
    <3>2. CASE WipIsWorking(k)
      BY <2>4, <3>1, <3>2, TriggerKeepsManagerInv DEF DoneEvent
    <3>3. CASE ~WipIsWorking(k)
      BY <2>4, <3>1, <3>3, QuietKeepsManagerInv DEF DoneEvent
    <3> QED BY <3>2, <3>3
  <2>5. CASE OtherEvents
    <3>1. pc' = pc /\ (updated' => updated)
      <4>1. CASE \E w \in Worker : WorkerGone(w)
        BY <4>1 DEF WorkerGone, runnerVars, receivedVars
      <4>2. CASE \E k \in WipKey : OnWipEventProgress(k) \/ WipEventLost(k)
        BY <4>2 DEF OnWipEventProgress, WipEventLost, runnerVars, receivedVars
      <4>3. CASE \E k \in WipKey : OnWipEventError(k)
        BY <4>3 DEF OnWipEventError, EndWork, runnerVars, receivedVars
      <4>4. CASE \E c \in cancels : CancelReturns(c)
        BY <4>4 DEF CancelReturns, receivedVars
      <4>5. CASE Time
        BY <4>5 DEF Time, ErrorWaitOver, WorkStalls, runnerVars, receivedVars
      <4> QED BY <2>5, <4>1, <4>2, <4>3, <4>4, <4>5 DEF OtherEvents
    <3> QED BY <2>5, <3>1, QuietKeepsManagerInv DEF OtherEvents
  <2>6. ASSUME NEW c \in cancels, CancelRejected(c)
        PROVE  ManagerInv'
    <3>1. updated' => updated
      BY <2>6 DEF CancelRejected, CancelFails, receivedVars
    <3>2. CASE c \in awaiting
      <4>1. pc' = "idle" /\ Scheduler!RunReturns(FALSE) /\ UNCHANGED result
        BY <2>6, <3>2 DEF CancelRejected, CancelFails
      <4>2. result \in BOOLEAN
        BY DEF ManagerInv, ManagerTypeOK
      <4> QED BY <3>1, <4>1, <4>2, ReturnKeepsManagerInv
    <3>3. CASE c \notin awaiting
      <4>1. pc' = pc /\ UNCHANGED <<schedulerVars, result>>
        BY <2>6, <3>3 DEF CancelRejected, CancelFails
      <4> QED BY <3>1, <4>1, QuietKeepsManagerInv
    <3> QED BY <3>2, <3>3
  <2>7. CASE RunBegins
    BY <2>7, RunBeginsKeepsManagerInv
  <2>8. CASE RunGoesOn
    <3>1. updated' => updated
      BY <2>8, OnlyTheOwnerUpdates DEF RunGoesOn
    <3> QED BY <2>8, <3>1, QuietKeepsManagerInv DEF RunGoesOn
  <2>9. CASE RunFinishes
    <3>1. pc' = "idle" /\ updated' = updated /\ UNCHANGED schedulerVars
      BY <2>9 DEF RunFinishes, FinishRun, receivedVars
    <3>2. result' \in BOOLEAN
      BY <2>9 DEF RunFinishes, IInv, TypeOK
    <3> QED BY <3>1, <3>2 DEF ManagerInv, ManagerTypeOK, Scheduler!SchedulerTypeOK,
                 Scheduler!SchedulerInv, RunsDoNotOverlap, ReceivedIsRunAsap, schedulerVars
  <2>10. CASE RunReturns
    <3>1. /\ pc' = "idle" /\ (updated' => updated) /\ result' \in BOOLEAN
          /\ Scheduler!RunReturns(result) /\ result \in BOOLEAN
      BY <2>10 DEF RunReturns, vars, runnerVars, receivedVars, ManagerInv, ManagerTypeOK
    <3> QED BY <3>1, ReturnKeepsManagerInv
  <2>11. CASE Terminate
    BY <2>11 DEF Terminate, Scheduler!Terminate, vars, runnerVars, receivedVars, ManagerInv, ManagerTypeOK,
                 Scheduler!SchedulerTypeOK, Scheduler!SchedulerInv, RunsDoNotOverlap, ReceivedIsRunAsap
  <2> QED BY <2>1, <2>2, <2>3, <2>4, <2>5, <2>6, <2>7, <2>8, <2>9, <2>10, <2>11 DEF ManagerNext
<1>3. ManagerSpec => []IInv
  BY TrackerIsImplemented, Invariance, PTL
<1> QED BY <1>1, <1>2, <1>3, PTL DEF ManagerSpec

\* Runs of the EvaluationRunner do not overlap.
THEOREM OneRunAtATime == ManagerSpec => []RunsDoNotOverlap
<1>1. ManagerInv => RunsDoNotOverlap
  BY DEF ManagerInv
<1> QED BY <1>1, ManagerInvariance, PTL

\* A received update never waits for the interval, nor is its trigger lost in a run.
THEOREM UpdatesRunAsap == ManagerSpec => []ReceivedIsRunAsap
<1>1. ManagerInv => ReceivedIsRunAsap
  BY DEF ManagerInv
<1> QED BY <1>1, ManagerInvariance, PTL

\* Together: the scheduler never has two runs of the EvaluationRunner at a time, and never
\* forgets one that is due.
THEOREM EvaluationsStayScheduled == ManagerSpec => []EvaluationsAreScheduled
<1>1. RunsDoNotOverlap /\ ReceivedIsRunAsap => EvaluationsAreScheduled
  BY DEF EvaluationsAreScheduled
<1> QED BY <1>1, OneRunAtATime, UpdatesRunAsap, PTL
=============================================================================
