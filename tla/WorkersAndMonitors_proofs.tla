---------------------- MODULE WorkersAndMonitors_proofs ---------------------
(***************************************************************************)
(* Theorems about WorkersAndMonitors.tla, for any jobs, Workers and bounds *)
(* on time and failures: what an ExpectationManager takes for monitored is *)
(* monitored and can be stopped; a Worker only asks to be stopped for a    *)
(* reason; and nothing is told about a job after its end.                  *)
(***************************************************************************)
EXTENDS WorkersAndMonitors, SequenceTheorems, TLAPS

-----------------------------------------------------------------------------
(* Jobs (WorkerAgent) *)

(* What becomes of the record of a job. *)
LEMMA JobFacts ==
  ASSUME NEW r \in CurrentJob
  PROVE  /\ removeJob(r) \in CurrentJob /\ ~removeJob(r).current /\ removeJob(r).cancelled
         /\ \A c \in BOOLEAN : [r EXCEPT !.cancelling = c] \in CurrentJob
         /\ \A c \in BOOLEAN : /\ [r EXCEPT !.cancelling = c].current = r.current
                               /\ [r EXCEPT !.cancelling = c].cancelled = r.cancelled
                               /\ [r EXCEPT !.cancelling = c].timer = r.timer
                               /\ [r EXCEPT !.cancelling = c].since = r.since
         /\ [r EXCEPT !.timer = FALSE] \in CurrentJob
         /\ [r EXCEPT !.timer = FALSE].current = r.current
         /\ [r EXCEPT !.timer = FALSE].cancelled = r.cancelled
         /\ \A s \in 0 .. (Timeout + 1) :
              /\ [r EXCEPT !.since = s] \in CurrentJob /\ [r EXCEPT !.since = s].since = s
              /\ [r EXCEPT !.since = s].current = r.current
              /\ [r EXCEPT !.since = s].cancelled = r.cancelled
              /\ [r EXCEPT !.since = s].timer = r.timer
BY DEF CurrentJob, removeJob

LEMMA StartCancelFacts ==
  ASSUME NEW r \in CurrentJob
  PROVE  /\ startCancel(r) \in CurrentJob
         /\ startCancel(r).current => r.current
         /\ r.current # r.cancelled => startCancel(r).current # startCancel(r).cancelled
         /\ r.cancelled => startCancel(r).cancelled
         /\ startCancel(r).current => startCancel(r).timer = r.timer /\ startCancel(r).since = r.since
BY ZenonT(30), JobFacts DEF startCancel

\* What the invariant says of the variables by themselves, and of each job.
AgentTypes ==
  /\ job \in [Jobs -> CurrentJob]
  /\ work \in [Jobs -> {"none", "starting", "refused", "running", "over"}]
  /\ told \in [Jobs -> {"nothing", "progress", "done", "error"}]
  /\ sinceWork \in 0 .. (SpinDownTime + 1)
  /\ activeMonitors \subseteq Containers
  /\ known \in BOOLEAN /\ terminated \in BOOLEAN

FailuresInv ==
  /\ failed \in BOOLEAN /\ failedPeriods \in Nat /\ periods \in Seq(BOOLEAN)
  /\ Len(periods) <= FailurePeriodLimit /\ failedPeriods <= Len(periods)
  /\ asked \in {"no", "kindly", "forced"}
  /\ PeriodsAreCounted

JobInv(j) ==
  /\ work[j] = "none" => job[j] = NoJob
  /\ work[j] # "none" => job[j].current # job[j].cancelled
  /\ told[j] \in {"done", "error"} => job[j].cancelled
  /\ job[j].current => job[j].timer /\ job[j].since <= Timeout /\ sinceWork <= job[j].since

LEMMA AgentInvParts ==
  /\ AgentInv <=> AgentTypes /\ FailuresInv /\ \A j \in Jobs : JobInv(j)
  /\ AgentInv' <=> AgentTypes' /\ FailuresInv' /\ \A j \in Jobs : JobInv(j)'
BY DEF AgentInv, TypeOKOfAgent, JobsAreWatched, AgentTypes, FailuresInv, JobInv

(* A step in the life of one job, which may be work of the Worker, and may fail.     *)
LEMMA OneJobStep ==
  ASSUME AgentInv, NEW j \in Jobs, NEW r \in CurrentJob,
         NEW w \in {"starting", "refused", "running", "over"},
         NEW e \in {"nothing", "progress", "done", "error"},
         job' = [job EXCEPT ![j] = r], work' = [work EXCEPT ![j] = w],
         told' = [told EXCEPT ![j] = e], sinceWork' \in {0, sinceWork},
         failed' \in {TRUE, failed},
         UNCHANGED <<failedPeriods, periods, activeMonitors, known, asked, terminated>>,
         r.current # r.cancelled, e \in {"done", "error"} => r.cancelled,
         r.current => r.timer /\ r.since <= Timeout /\ sinceWork' <= r.since
  PROVE  AgentInv'
<1>1. AgentTypes /\ FailuresInv /\ \A i \in Jobs : JobInv(i)
  BY AgentInvParts
<1>2. AgentTypes'
  BY <1>1, TimesAssumption DEF AgentTypes
<1>3. FailuresInv'
  BY <1>1 DEF FailuresInv, PeriodsAreCounted
<1>4. ASSUME NEW i \in Jobs
      PROVE  JobInv(i)'
  <2>1. CASE i = j
    <3>1. job'[i] = r /\ work'[i] = w /\ told'[i] = e /\ w # "none"
      BY <2>1, <1>1 DEF AgentTypes
    <3> QED BY <3>1 DEF JobInv
  <2>2. CASE i # j
    <3>1. job'[i] = job[i] /\ work'[i] = work[i] /\ told'[i] = told[i] /\ job[i] \in CurrentJob
      BY <2>2, <1>1 DEF AgentTypes
    <3>2. sinceWork <= job[i].since => sinceWork' <= job[i].since
      BY <3>1, <1>1 DEF AgentTypes, CurrentJob
    <3> QED BY <3>1, <3>2, <1>1 DEF JobInv
  <2> QED BY <2>1, <2>2
<1> QED BY <1>2, <1>3, <1>4, AgentInvParts


\* What an action on a job may do with it.
JobBecomes(j, r, w, e) ==
  /\ job' = [job EXCEPT ![j] = r] /\ work' = [work EXCEPT ![j] = w]
  /\ told' = [told EXCEPT ![j] = e] /\ sinceWork' \in {0, sinceWork}
  /\ failed' \in {TRUE, failed}
  /\ UNCHANGED <<failedPeriods, periods, activeMonitors, known, asked, terminated>>
  /\ r.current # r.cancelled /\ (e \in {"done", "error"} => r.cancelled)
  /\ r.current => r.timer /\ r.since <= Timeout /\ sinceWork' <= r.since
  /\ told[j] \in {"done", "error"} \/ job[j].cancelled => e = told[j]

JobStep(j) ==
  \E r \in CurrentJob, w \in {"starting", "refused", "running", "over"},
     e \in {"nothing", "progress", "done", "error"} : JobBecomes(j, r, w, e)

(* What is said of a job to the manager. *)
LEMMA TellFacts ==
  ASSUME AgentTypes, NEW j \in Jobs, NEW event \in {"progress", "done", "error"}, Tell(j, event)
  PROVE  \E e \in {told[j], event} : told' = [told EXCEPT ![j] = e]
<1>1. told = [told EXCEPT ![j] = told[j]]
  BY DEF AgentTypes
<1>2. told' = [told EXCEPT ![j] = event] \/ told' = told
  BY DEF Tell
<1> QED BY <1>1, <1>2

LEMMA JobSteps ==
  ASSUME AgentInv, NEW j \in Jobs, Job(j)
  PROVE  \/ JobStep(j)
         \/ /\ UNCHANGED <<jobVars, failedPeriods, periods, activeMonitors, known, asked, terminated>>
            /\ sinceWork' \in {0, sinceWork} /\ failed' \in {TRUE, failed}
<1>1. AgentTypes /\ JobInv(j) /\ FailuresInv
  BY AgentInvParts
<1>2. /\ job[j] \in CurrentJob /\ work[j] \in {"none", "starting", "refused", "running", "over"}
      /\ told[j] \in {"nothing", "progress", "done", "error"}
      /\ job = [job EXCEPT ![j] = job[j]] /\ work = [work EXCEPT ![j] = work[j]]
      /\ told = [told EXCEPT ![j] = told[j]]
      /\ Timeout \in Nat /\ sinceWork \in Nat
  BY <1>1, TimesAssumption DEF AgentTypes
<1>3. /\ NoJob \in CurrentJob /\ NoJob.current = FALSE /\ NoJob.cancelled = FALSE
      /\ NoJob.since = 0
  BY <1>2 DEF NoJob, CurrentJob
<1>4. CASE createNewJobForExpectation(j)
  <2> DEFINE r == [NoJob EXCEPT !.current = TRUE, !.timer = TRUE]
  <2>1. /\ r \in CurrentJob /\ r.current = TRUE /\ r.cancelled = FALSE /\ r.timer /\ r.since = 0
    BY <1>3 DEF CurrentJob
  <2> HIDE DEF r
  <2>2. CASE known
    <3>1. /\ work[j] = "none" /\ sinceWork' = 0 /\ job' = [job EXCEPT ![j] = r]
          /\ work' = [work EXCEPT ![j] = "starting"]
          /\ told' = [told EXCEPT ![j] = told[j]]
          /\ UNCHANGED <<failed, failedPeriods, periods, activeMonitors, known, asked, terminated>>
      BY <1>2, <1>4, <2>2 DEF createNewJobForExpectation, IDidSomeWork, failureVars, r
    <3>2. told[j] \notin {"done", "error"}
      BY <3>1, <1>1, <1>3 DEF JobInv
    <3>3. JobBecomes(j, r, "starting", told[j])
      <4>1. r.current # r.cancelled /\ r.timer /\ r.since <= Timeout /\ sinceWork' <= r.since
        BY <3>1, <2>1, <1>2
      <4> QED BY <4>1, <3>1, <3>2 DEF JobBecomes
    <3> QED BY <3>3, <2>1, <1>2 DEF JobStep
  <2>3. CASE ~known
    BY <1>4, <2>3 DEF createNewJobForExpectation, IDidSomeWork, IFailed, jobVars
  <2> QED BY <2>2, <2>3
<1>5. CASE makeWorkerWorkOnJobForExpecation(j)
  <2> DEFINE r == [job[j] EXCEPT !.wip = TRUE]
  <2>1. /\ r \in CurrentJob /\ r.current = job[j].current /\ r.cancelled = job[j].cancelled
        /\ r.timer = job[j].timer /\ r.since = job[j].since
    BY <1>2 DEF CurrentJob
  <2> HIDE DEF r
  <2>2. /\ work[j] = "starting" /\ job' = [job EXCEPT ![j] = r]
        /\ work' = [work EXCEPT ![j] = "running"] /\ told' = [told EXCEPT ![j] = told[j]]
        /\ UNCHANGED <<sinceWork, failed, failedPeriods, periods, activeMonitors, known, asked,
                       terminated>>
    BY <1>2, <1>5 DEF makeWorkerWorkOnJobForExpecation, failureVars, r
  <2> QED BY <2>1, <2>2, <1>1, <1>2 DEF JobStep, JobBecomes, JobInv
<1>6. CASE InitialError(j)
  <2> DEFINE r == removeJob(job[j])
  <2>1. r \in CurrentJob /\ ~r.current /\ r.cancelled
    BY <1>2, JobFacts
  <2> HIDE DEF r
  <2>2. /\ work[j] = "starting" /\ job' = [job EXCEPT ![j] = r]
        /\ work' = [work EXCEPT ![j] = "refused"] /\ told' = [told EXCEPT ![j] = told[j]]
        /\ failed' = TRUE
        /\ UNCHANGED <<sinceWork, failedPeriods, periods, activeMonitors, known, asked, terminated>>
    BY <1>2, <1>6 DEF InitialError, IFailed, r
  <2> QED BY <2>1, <2>2, <1>1, <1>2 DEF JobStep, JobBecomes, JobInv
<1>7. CASE onProgress(j)
  <2>1. /\ work[j] \in {"running", "over"} /\ sinceWork' = 0
        /\ work' = [work EXCEPT ![j] = work[j]]
        /\ UNCHANGED <<failed, failedPeriods, periods, activeMonitors, known, asked, terminated>>
    BY <1>2, <1>7 DEF onProgress, IDidSomeWork, failureVars
  <2>2. CASE job[j].cancelled
    <3>1. UNCHANGED <<job, told, work>>
      BY <1>7, <2>2 DEF onProgress
    <3> QED BY <3>1, <2>1 DEF jobVars
  <2>3. CASE ~job[j].cancelled
    <3> DEFINE r == [job[j] EXCEPT !.since = 0]
    <3>1. /\ r \in CurrentJob /\ r.current = job[j].current /\ r.cancelled = job[j].cancelled
          /\ r.timer = job[j].timer /\ r.since = 0
      BY <1>2 DEF CurrentJob
    <3> HIDE DEF r
    <3>2. job' = [job EXCEPT ![j] = r] /\ Tell(j, "progress")
      BY <1>7, <2>3 DEF onProgress, r
    <3>3. PICK e \in {told[j], "progress"} : told' = [told EXCEPT ![j] = e]
      BY <3>2, <1>1, TellFacts
    <3>4. told[j] \notin {"done", "error"}
      BY <2>3, <1>1 DEF JobInv
    <3>5. e \in {"nothing", "progress", "done", "error"}
      BY <3>3, <1>2
    <3>6. /\ job[j].current # job[j].cancelled
          /\ job[j].current => job[j].timer
          /\ sinceWork' <= 0 /\ 0 <= Timeout
      BY <2>1, <1>1, <1>2 DEF JobInv
    <3>7. JobBecomes(j, r, work[j], e)
      BY <3>1, <3>2, <3>3, <3>4, <3>5, <3>6, <2>1, <2>3 DEF JobBecomes
    <3> QED BY <3>7, <3>1, <3>5, <2>1 DEF JobStep
  <2> QED BY <2>2, <2>3
<1>8. CASE onDone(j) \/ onWorkError(j)
  <2>1. /\ work[j] \in {"running", "over"} /\ sinceWork' = 0
        /\ work' = [work EXCEPT ![j] = "over"]
        /\ UNCHANGED <<failedPeriods, periods, activeMonitors, known, asked, terminated>>
        /\ failed' \in {TRUE, failed}
    BY <1>2, <1>8 DEF onDone, onWorkError, IDidSomeWork, IFailed, failureVars
  <2>2. CASE job[j].cancelled
    <3>1. job' = [job EXCEPT ![j] = job[j]] /\ told' = [told EXCEPT ![j] = told[j]]
      BY <1>2, <1>8, <2>2 DEF onDone, onWorkError
    <3> QED BY <3>1, <2>1, <2>2, <1>1, <1>2 DEF JobStep, JobBecomes, JobInv
  <2>3. CASE ~job[j].cancelled
    <3> DEFINE r == [removeJob(job[j]) EXCEPT !.since = 0]
    <3>1. r \in CurrentJob /\ ~r.current /\ r.cancelled
      <4>1. /\ removeJob(job[j]) \in CurrentJob /\ ~removeJob(job[j]).current
            /\ removeJob(job[j]).cancelled
        BY <1>2, JobFacts
      <4> QED BY <4>1, <1>2 DEF CurrentJob
    <3> HIDE DEF r
    <3>2. job' = [job EXCEPT ![j] = r] /\ (Tell(j, "done") \/ Tell(j, "error"))
      BY <1>8, <2>3 DEF onDone, onWorkError, r
    <3>3. PICK e \in {told[j], "done", "error"} : told' = [told EXCEPT ![j] = e]
      BY <3>2, <1>1, TellFacts
    <3>4. told[j] \notin {"done", "error"}
      BY <2>3, <1>1 DEF JobInv
    <3>5. e \in {"nothing", "progress", "done", "error"}
      BY <3>3, <1>2
    <3>6. /\ job[j].current # job[j].cancelled
          /\ job[j].current => job[j].timer
          /\ sinceWork' <= 0 /\ 0 <= Timeout
      BY <2>1, <1>1, <1>2 DEF JobInv
    <3>7. JobBecomes(j, r, "over", e)
      BY <3>1, <3>2, <3>3, <3>4, <3>5, <3>6, <2>1, <2>3 DEF JobBecomes
    <3> QED BY <3>7, <3>1, <3>5 DEF JobStep
  <2> QED BY <2>2, <2>3
<1>9. CASE cancelWorkInProgress(j)
  <2> DEFINE r == startCancel(job[j])
  <2>1. /\ work[j] # "none" /\ job' = [job EXCEPT ![j] = r]
        /\ work' = [work EXCEPT ![j] = work[j]] /\ told' = [told EXCEPT ![j] = told[j]]
        /\ UNCHANGED <<sinceWork, failed, failedPeriods, periods, activeMonitors, known, asked,
                       terminated>>
    BY <1>1, <1>2, <1>3, <1>9 DEF cancelWorkInProgress, failureVars, JobInv
  <2>2. /\ r \in CurrentJob /\ (job[j].current # job[j].cancelled => r.current # r.cancelled)
        /\ (r.current => job[j].current /\ r.timer = job[j].timer /\ r.since = job[j].since)
        /\ (job[j].cancelled => r.cancelled)
    BY <1>2, StartCancelFacts
  <2> HIDE DEF r
  <2> QED BY <2>1, <2>2, <1>1, <1>2 DEF JobStep, JobBecomes, JobInv
<1>10. CASE CancelSucceeds(j)
  <2> DEFINE r == removeJob([job[j] EXCEPT !.cancelling = FALSE, !.wip = FALSE])
  <2>1. r \in CurrentJob /\ ~r.current /\ r.cancelled
    <3>1. [job[j] EXCEPT !.cancelling = FALSE, !.wip = FALSE] \in CurrentJob
      BY <1>2 DEF CurrentJob
    <3> QED BY <3>1, JobFacts
  <2> HIDE DEF r
  <2>2. /\ job' = [job EXCEPT ![j] = r]
        /\ work' = [work EXCEPT ![j] = "over"] /\ told' = [told EXCEPT ![j] = told[j]]
        /\ UNCHANGED <<sinceWork, failed, failedPeriods, periods, activeMonitors, known, asked,
                       terminated>>
    BY <1>2, <1>10 DEF CancelSucceeds, failureVars, r
  <2> QED BY <2>1, <2>2, <1>1, <1>2 DEF JobStep, JobBecomes, JobInv
<1>11. CASE CancelFails(j)
  <2> DEFINE r == [job[j] EXCEPT !.cancelling = FALSE]
  <2>1. /\ r \in CurrentJob /\ r.current = job[j].current /\ r.cancelled = job[j].cancelled
        /\ r.timer = job[j].timer /\ r.since = job[j].since
    BY <1>2, JobFacts
  <2> HIDE DEF r
  <2>2. /\ job[j].cancelling /\ job' = [job EXCEPT ![j] = r]
        /\ work' = [work EXCEPT ![j] = work[j]] /\ told' = [told EXCEPT ![j] = told[j]]
        /\ UNCHANGED <<sinceWork, failedPeriods, periods, activeMonitors, known, asked, terminated>>
        /\ failed' \in {TRUE, failed}
    BY <1>2, <1>11 DEF CancelFails, IFailed, failureVars, r
  <2>3. work[j] # "none"
    BY <2>2, <1>1 DEF JobInv, NoJob
  <2> QED BY <2>1, <2>2, <2>3, <1>1, <1>2 DEF JobStep, JobBecomes, JobInv
<1> QED BY <1>4, <1>5, <1>6, <1>7, <1>8, <1>9, <1>10, <1>11 DEF Job

LEMMA JobStepKeepsInv ==
  ASSUME AgentInv, NEW j \in Jobs, JobStep(j)
  PROVE  AgentInv'
<1>1. PICK r \in CurrentJob, w \in {"starting", "refused", "running", "over"},
           e \in {"nothing", "progress", "done", "error"} : JobBecomes(j, r, w, e)
  BY DEF JobStep
<1> QED BY <1>1, OneJobStep DEF JobBecomes

(* The watch on a job leaves it among the current ones only while it is in time.     *)
LEMMA TimeoutFacts ==
  ASSUME NEW r \in CurrentJob
  PROVE  /\ timeoutInterval(r) \in CurrentJob
         /\ r.current # r.cancelled => timeoutInterval(r).current # timeoutInterval(r).cancelled
         /\ r.cancelled => timeoutInterval(r).cancelled
         /\ r.current # r.cancelled /\ r.timer /\ timeoutInterval(r).current =>
              r.current /\ timeoutInterval(r).timer /\ r.since <= Timeout
         /\ timeoutInterval(r).current => r.current /\ timeoutInterval(r).since = r.since
<1> DEFINE t == [r EXCEPT !.timer = FALSE]
<1>1. /\ r.current \in BOOLEAN /\ r.cancelled \in BOOLEAN /\ r.timer \in BOOLEAN
      /\ r.since \in 0 .. (Timeout + 1)
  BY DEF CurrentJob
<1>2. /\ t \in CurrentJob /\ t.current = r.current /\ t.cancelled = r.cancelled
      /\ t.since = r.since
  BY DEF CurrentJob
<1> HIDE DEF t
<1>3. /\ removeJob(t) \in CurrentJob /\ ~removeJob(t).current /\ removeJob(t).cancelled
  BY <1>2, JobFacts
<1>4. /\ startCancel(removeJob(t)) \in CurrentJob /\ ~startCancel(removeJob(t)).current
      /\ startCancel(removeJob(t)).cancelled
  BY <1>3, StartCancelFacts
<1>5. CASE ~r.timer
  <2>1. timeoutInterval(r) = r
    BY <1>5 DEF timeoutInterval
  <2> QED BY <2>1, <1>5
<1>6. CASE r.timer /\ r.cancelled
  <2>1. timeoutInterval(r) = t
    BY <1>6 DEF timeoutInterval, t
  <2> QED BY <2>1, <1>1, <1>2, <1>6
<1>7. CASE r.timer /\ ~r.cancelled /\ r.since > Timeout
  <2>1. timeoutInterval(r) = startCancel(removeJob(t))
    BY <1>7 DEF timeoutInterval, t
  <2> QED BY <2>1, <1>4, <1>7
<1>8. CASE r.timer /\ ~r.cancelled /\ ~(r.since > Timeout)
  <2>1. timeoutInterval(r) = r
    BY <1>8 DEF timeoutInterval
  <2>2. r.since <= Timeout
    BY <1>1, <1>8, TimesAssumption
  <2> QED BY <2>1, <2>2, <1>8
<1> QED BY <1>1, <1>5, <1>6, <1>7, <1>8

\* What a step that is not about one job may do with the jobs.
JobsStay ==
  \A j \in Jobs : /\ work'[j] = work[j] /\ told'[j] = told[j]
                  /\ work[j] = "none" => job'[j] = job[j]
                  /\ job[j].cancelled => job'[j].cancelled
                  /\ job[j].current # job[j].cancelled => job'[j].current # job'[j].cancelled
                  /\ job[j].current # job[j].cancelled /\ job'[j].current =>
                       /\ job[j].current /\ (job[j].timer => job'[j].timer)
                       /\ job[j].timer /\ job[j].since <= Timeout /\ sinceWork <= job[j].since =>
                            job'[j].since <= Timeout /\ sinceWork' <= job'[j].since

LEMMA JobsStayInv ==
  ASSUME AgentInv, JobsStay
  PROVE  \A j \in Jobs : JobInv(j)'
<1> SUFFICES ASSUME NEW j \in Jobs
             PROVE  JobInv(j)'
  OBVIOUS
<1>1. JobInv(j)
  BY AgentInvParts
<1>2. work[j] = "none" => ~job[j].current
  BY <1>1 DEF JobInv, NoJob
<1>3. job'[j].current => job[j].current /\ job[j].current # job[j].cancelled
  <2>1. CASE work[j] = "none"
    BY <2>1, <1>2 DEF JobsStay
  <2>2. CASE work[j] # "none"
    BY <2>2, <1>1 DEF JobsStay, JobInv
  <2> QED BY <2>1, <2>2
<1> QED BY <1>1, <1>3 DEF JobInv, JobsStay

LEMMA TickStep ==
  ASSUME AgentInv, Tick
  PROVE  AgentInv' /\ JobsStay
<1>1. AgentTypes /\ FailuresInv /\ \A j \in Jobs : JobInv(j)
  BY AgentInvParts
<1> DEFINE later(j) == [job[j] EXCEPT !.since = Least(@ + 1, Timeout + 1)]
<1>2. /\ sinceWork' = Least(sinceWork + 1, SpinDownTime + 1)
      /\ job' = [j \in Jobs |-> IF job[j].current \/ job[j].timer
                                THEN timeoutInterval(later(j)) ELSE job[j]]
      /\ UNCHANGED <<work, told, failed, failedPeriods, periods, activeMonitors, known, asked,
                     terminated>>
  BY DEF Tick, failureVars
<1>3. Timeout \in Nat /\ SpinDownTime \in Nat /\ sinceWork \in 0 .. (SpinDownTime + 1)
  BY <1>1, TimesAssumption DEF AgentTypes
<1>4. ASSUME NEW j \in Jobs
      PROVE  /\ later(j) \in CurrentJob /\ later(j).current = job[j].current
             /\ later(j).cancelled = job[j].cancelled /\ later(j).timer = job[j].timer
             /\ later(j).since = Least(job[j].since + 1, Timeout + 1)
             /\ job[j].since \in 0 .. (Timeout + 1) /\ job[j] \in CurrentJob
  <2>1. job[j] \in CurrentJob /\ job[j].since \in 0 .. (Timeout + 1)
    BY <1>1 DEF AgentTypes, CurrentJob
  <2>2. Least(job[j].since + 1, Timeout + 1) \in 0 .. (Timeout + 1)
    BY <2>1, <1>3 DEF Least
  <2> QED BY <2>1, <2>2 DEF CurrentJob
<1> HIDE DEF later
<1>5. ASSUME NEW j \in Jobs
      PROVE  job'[j] \in CurrentJob
  BY <1>2, <1>4, TimeoutFacts
<1>6. JobsStay
  <2> SUFFICES ASSUME NEW j \in Jobs
               PROVE  /\ work'[j] = work[j] /\ told'[j] = told[j]
                      /\ work[j] = "none" => job'[j] = job[j]
                      /\ job[j].cancelled => job'[j].cancelled
                      /\ job[j].current # job[j].cancelled => job'[j].current # job'[j].cancelled
                      /\ job[j].current # job[j].cancelled /\ job'[j].current =>
                         /\ job[j].current /\ (job[j].timer => job'[j].timer)
                         /\ job[j].timer /\ job[j].since <= Timeout /\ sinceWork <= job[j].since
                              => job'[j].since <= Timeout /\ sinceWork' <= job'[j].since
    BY DEF JobsStay
  <2>1. CASE ~(job[j].current \/ job[j].timer)
    <3>1. job'[j] = job[j]
      BY <1>2, <2>1
    <3> QED BY <3>1, <2>1, <1>2
  <2>2. CASE job[j].current \/ job[j].timer
    <3>1. job'[j] = timeoutInterval(later(j))
      BY <1>2, <2>2
    <3>2. /\ job[j].current # job[j].cancelled => job'[j].current # job'[j].cancelled
          /\ job[j].cancelled => job'[j].cancelled
          /\ job[j].current # job[j].cancelled /\ job[j].timer /\ job'[j].current =>
               job[j].current /\ job'[j].timer /\ later(j).since <= Timeout
          /\ job'[j].current => job[j].current /\ job'[j].since = later(j).since
      BY <3>1, <1>4, TimeoutFacts
    <3>3. work[j] # "none"
      BY <2>2, <1>1 DEF JobInv, NoJob
    <3>4. later(j).since <= Timeout /\ sinceWork <= job[j].since => sinceWork' <= later(j).since
      <4>1. later(j).since = Least(job[j].since + 1, Timeout + 1)
            /\ job[j].since \in 0 .. (Timeout + 1)
        BY <1>4
      <4> QED BY <4>1, <1>2, <1>3, TimesAssumption DEF Least
    <3> QED BY <3>2, <3>3, <3>4, <1>2
  <2> QED BY <2>1, <2>2
<1>7. AgentTypes'
  <2>1. job' \in [Jobs -> CurrentJob]
    BY <1>2, <1>5
  <2>2. sinceWork' \in 0 .. (SpinDownTime + 1)
    BY <1>2, <1>3 DEF Least
  <2> QED BY <2>1, <2>2, <1>1, <1>2 DEF AgentTypes
<1>8. FailuresInv'
  BY <1>1, <1>2 DEF FailuresInv, PeriodsAreCounted
<1> QED BY <1>6, <1>7, <1>8, JobsStayInv, AgentInvParts

LEMMA terminateStep ==
  ASSUME AgentInv, terminate
  PROVE  AgentInv' /\ JobsStay
<1>1. AgentTypes /\ FailuresInv /\ \A j \in Jobs : JobInv(j)
  BY AgentInvParts
<1>2. /\ job' = [j \in Jobs |-> IF job[j].current /\ ~job[j].cancelling THEN startCancel(job[j])
                                ELSE job[j]]
      /\ terminated' = TRUE
      /\ UNCHANGED <<sinceWork, work, told, failed, failedPeriods, periods, activeMonitors, known,
                     asked>>
  BY DEF terminate, failureVars
<1>3. ASSUME NEW j \in Jobs
      PROVE  /\ job[j] \in CurrentJob /\ startCancel(job[j]) \in CurrentJob
             /\ job'[j] \in {job[j], startCancel(job[j])}
             /\ work[j] = "none" => job'[j] = job[j]
  <2>1. job[j] \in CurrentJob /\ startCancel(job[j]) \in CurrentJob
    BY <1>1, StartCancelFacts DEF AgentTypes
  <2>2. work[j] = "none" => ~job[j].current
    BY <1>1 DEF JobInv, NoJob
  <2> QED BY <2>1, <2>2, <1>2
<1>4. JobsStay
  BY <1>2, <1>3, StartCancelFacts DEF JobsStay
<1>5. AgentTypes'
  <2>1. job' \in [Jobs -> CurrentJob]
    BY <1>2, <1>3
  <2> QED BY <2>1, <1>1, <1>2 DEF AgentTypes
<1>6. FailuresInv'
  BY <1>1, <1>2 DEF FailuresInv, PeriodsAreCounted
<1> QED BY <1>4, <1>5, <1>6, JobsStayInv, AgentInvParts

(* The end of a period: the counter is that of the failed periods at the end of the  *)
(* list, which holds the last of them.                                               *)
LEMMA intervalErrorCheckStep ==
  ASSUME FailuresInv, asked # "forced", intervalErrorCheck
  PROVE  /\ FailuresInv'
         /\ asked' = "forced" =>
              Len(periods') = FailurePeriodLimit /\ \A i \in DOMAIN periods' : periods'[i]
<1> DEFINE all == Append(periods, failed)
           n == Len(periods)
<1>1. /\ periods' = LastOf(all) /\ failed' = FALSE
      /\ failedPeriods' = IF failed THEN failedPeriods + 1 ELSE 0
      /\ asked' = IF failed /\ failedPeriods' >= FailurePeriodLimit THEN "forced" ELSE asked
  BY DEF intervalErrorCheck, requestShutDown
<1>2. /\ failed \in BOOLEAN /\ failedPeriods \in Nat /\ periods \in Seq(BOOLEAN)
      /\ n <= FailurePeriodLimit /\ failedPeriods <= n /\ failedPeriods < FailurePeriodLimit
      /\ asked \in {"no", "kindly"}
      /\ \A i \in DOMAIN periods : i > n - failedPeriods => periods[i]
      /\ FailurePeriodLimit \in Nat \ {0}
  BY TimesAssumption DEF FailuresInv, PeriodsAreCounted
<1>3. /\ n \in Nat /\ DOMAIN periods = 1 .. n
      /\ all \in Seq(BOOLEAN) /\ Len(all) = n + 1 /\ DOMAIN all = 1 .. (n + 1)
      /\ \A i \in 1 .. n : all[i] = periods[i]
      /\ all[n + 1] = failed /\ all # <<>>
  BY <1>2, AppendProperties, LenProperties
<1> HIDE DEF n, all
<1>4. \A i \in 1 .. (n + 1) : i > (n + 1) - failedPeriods' => all[i]
  <2> SUFFICES ASSUME NEW i \in 1 .. (n + 1), i > (n + 1) - failedPeriods'
               PROVE  all[i]
    OBVIOUS
  <2>1. failed /\ failedPeriods' = failedPeriods + 1
    BY <1>1, <1>2, <1>3
  <2>2. CASE i = n + 1
    BY <2>1, <2>2, <1>3
  <2>3. CASE i # n + 1
    <3>1. i \in 1 .. n /\ i > n - failedPeriods
      BY <2>1, <2>3, <1>2, <1>3
    <3> QED BY <3>1, <1>2, <1>3 DEF n
  <2> QED BY <2>2, <2>3
<1>5. /\ periods' \in Seq(BOOLEAN) /\ Len(periods') \in Nat
      /\ DOMAIN periods' = 1 .. Len(periods')
      /\ Len(periods') = IF n = FailurePeriodLimit THEN n ELSE n + 1
      /\ \A i \in 1 .. Len(periods') : i > Len(periods') - failedPeriods' => periods'[i]
  <2>1. CASE n = FailurePeriodLimit
    <3>1. periods' = Tail(all)
      BY <2>1, <1>1, <1>2, <1>3 DEF LastOf
    <3>2. /\ periods' \in Seq(BOOLEAN) /\ Len(periods') = n
          /\ \A i \in 1 .. n : periods'[i] = all[i + 1]
      BY <3>1, <1>3, HeadTailProperties
    <3>3. ASSUME NEW i \in 1 .. n, i > n - failedPeriods'
          PROVE  periods'[i]
      <4>1. i + 1 \in 1 .. (n + 1) /\ i + 1 > (n + 1) - failedPeriods'
        BY <3>3, <1>1, <1>2, <1>3
      <4> QED BY <4>1, <3>2, <1>4
    <3> QED BY <3>2, <3>3, <2>1, <1>3, LenProperties
  <2>2. CASE n # FailurePeriodLimit
    <3>1. periods' = all
      BY <2>2, <1>1, <1>2, <1>3 DEF LastOf
    <3> QED BY <3>1, <2>2, <1>3, <1>4
  <2> QED BY <2>1, <2>2
<1>6. /\ failedPeriods' \in Nat /\ Len(periods') <= FailurePeriodLimit
      /\ failedPeriods' <= Len(periods')
      /\ asked' # "forced" => failedPeriods' < FailurePeriodLimit
      /\ asked' = "forced" => failedPeriods' >= FailurePeriodLimit
  BY <1>1, <1>2, <1>3, <1>5
<1>7. FailuresInv'
  BY <1>1, <1>2, <1>5, <1>6 DEF FailuresInv, PeriodsAreCounted
<1>8. ASSUME asked' = "forced"
      PROVE  Len(periods') = FailurePeriodLimit /\ \A i \in DOMAIN periods' : periods'[i]
  <2>1. failedPeriods' = Len(periods') /\ Len(periods') = FailurePeriodLimit
    BY <1>2, <1>5, <1>6, <1>8
  <2>2. \A i \in 1 .. Len(periods') : i > Len(periods') - failedPeriods'
    BY <2>1, <1>5
  <2> QED BY <2>1, <2>2, <1>5
<1> QED BY <1>7, <1>8

\* The two action properties, of one step.
AskedForAReason ==
  /\ asked' = "kindly" /\ asked # "kindly" => \A j \in Jobs : ~job[j].current
  /\ asked' = "forced" /\ asked # "forced" =>
       Len(periods') = FailurePeriodLimit /\ \A i \in DOMAIN periods' : periods'[i]

NothingTold ==
  \A j \in Jobs : told[j] \in {"done", "error"} \/ job[j].cancelled => told'[j] = told[j]

(* A step that changes neither the jobs nor the failures. *)
LEMMA QuietStep ==
  ASSUME AgentInv, UNCHANGED <<jobVars, failedPeriods, periods>>,
         sinceWork' \in {0, sinceWork}, failed' \in {TRUE, failed},
         activeMonitors' \subseteq Containers, known' \in BOOLEAN, terminated' \in BOOLEAN,
         asked' = asked \/ (asked # "forced" /\ asked' \in {"no", "kindly"})
  PROVE  AgentInv'
<1>1. AgentTypes /\ FailuresInv /\ \A j \in Jobs : JobInv(j)
  BY AgentInvParts
<1>2. UNCHANGED <<job, work, told, failedPeriods, periods>>
  BY DEF jobVars
<1>3. AgentTypes'
  BY <1>1, <1>2, TimesAssumption DEF AgentTypes
<1>4. FailuresInv'
  BY <1>1, <1>2 DEF FailuresInv, PeriodsAreCounted
<1>5. \A j \in Jobs : job[j].since >= 0
  BY <1>1 DEF AgentTypes, CurrentJob
<1>6. JobsStay
  BY <1>2, <1>5 DEF JobsStay
<1> QED BY <1>3, <1>4, <1>6, JobsStayInv, AgentInvParts

LEMMA NextAgentStep ==
  ASSUME AgentInv, NextAgent
  PROVE  AgentInv' /\ AskedForAReason /\ NothingTold
<1>1. AgentTypes /\ FailuresInv /\ asked # "forced" /\ \A j \in Jobs : JobInv(j)
  BY AgentInvParts DEF NextAgent
<1>2. ASSUME NEW j \in Jobs, Job(j)
      PROVE  AgentInv' /\ AskedForAReason /\ NothingTold
  <2>1. CASE JobStep(j)
    <3>1. PICK r \in CurrentJob, w \in {"starting", "refused", "running", "over"},
               e \in {"nothing", "progress", "done", "error"} : JobBecomes(j, r, w, e)
      BY <2>1 DEF JobStep
    <3>2. AskedForAReason
      BY <3>1 DEF JobBecomes, AskedForAReason
    <3>3. NothingTold
      BY <3>1, <1>1 DEF JobBecomes, NothingTold, AgentTypes
    <3> QED BY <2>1, <3>2, <3>3, JobStepKeepsInv
  <2>2. CASE /\ UNCHANGED <<jobVars, failedPeriods, periods, activeMonitors, known, asked, terminated>>
             /\ sinceWork' \in {0, sinceWork} /\ failed' \in {TRUE, failed}
    <3>1. known' \in BOOLEAN /\ terminated' \in BOOLEAN /\ activeMonitors' \subseteq Containers
      BY <2>2, <1>1 DEF AgentTypes
    <3>2. AgentInv'
      BY <3>1, <2>2, QuietStep
    <3> QED BY <3>2, <2>2 DEF AskedForAReason, NothingTold, jobVars
  <2> QED BY <2>1, <2>2, <1>2, JobSteps
<1>3. CASE Tick
  <2>1. AgentInv' /\ JobsStay
    BY <1>3, TickStep
  <2> QED BY <2>1, <1>3 DEF JobsStay, NothingTold, AskedForAReason, Tick, failureVars
<1>4. CASE terminate
  <2>1. AgentInv' /\ JobsStay
    BY <1>4, terminateStep
  <2> QED BY <2>1, <1>4 DEF JobsStay, NothingTold, AskedForAReason, terminate, failureVars
<1>5. CASE intervalCheck
  <2>1. /\ sinceWork > SpinDownTime /\ sinceWork' = 0
        /\ asked' \in {asked, "kindly"}
        /\ UNCHANGED <<jobVars, failed, failedPeriods, periods, activeMonitors, known, terminated>>
    BY <1>5 DEF intervalCheck, IDidSomeWork, requestShutDown, failureVars
  <2>2. AgentInv'
    BY <2>1, <1>1, QuietStep DEF AgentTypes, FailuresInv
  <2>3. \A j \in Jobs : ~job[j].current
    <3> SUFFICES ASSUME NEW j \in Jobs, job[j].current
                 PROVE  FALSE
      OBVIOUS
    <3>1. /\ sinceWork <= job[j].since /\ job[j].since <= Timeout
          /\ sinceWork \in Nat /\ job[j].since \in Nat
      BY <1>1, TimesAssumption DEF JobInv, AgentTypes, CurrentJob
    <3> QED BY <3>1, <2>1, TimesAssumption
  <2> QED BY <2>1, <2>2, <2>3, <1>1 DEF AskedForAReason, NothingTold, jobVars
<1>6. CASE StaysUp
  <2>1. /\ asked = "kindly" /\ asked' = "no"
        /\ UNCHANGED <<jobVars, sinceWork, failed, failedPeriods, periods, activeMonitors, known,
                       terminated>>
    BY <1>6 DEF StaysUp, failureVars
  <2>2. AgentInv'
    BY <2>1, <1>1, QuietStep DEF AgentTypes
  <2> QED BY <2>1, <2>2 DEF AskedForAReason, NothingTold, jobVars
<1>7. CASE intervalErrorCheck
  <2>1. UNCHANGED <<job, work, told, sinceWork, activeMonitors, known, terminated>>
    BY <1>7 DEF intervalErrorCheck, jobVars
  <2>2. /\ FailuresInv'
        /\ asked' = "forced" =>
             Len(periods') = FailurePeriodLimit /\ \A i \in DOMAIN periods' : periods'[i]
    BY <1>1, <1>7, intervalErrorCheckStep
  <2>3. asked' \in {asked, "forced"}
    BY <1>7 DEF intervalErrorCheck, requestShutDown
  <2>4. AgentTypes' /\ \A j \in Jobs : JobInv(j)'
    BY <2>1, <1>1 DEF AgentTypes, JobInv
  <2> QED BY <2>1, <2>2, <2>3, <2>4, AgentInvParts DEF AskedForAReason, NothingTold
<1>8. CASE MethodFails \/ \E c \in Containers : setupPackageContainerMonitors(c)
  <2>1. /\ UNCHANGED <<jobVars, sinceWork, failedPeriods, periods, known, asked, terminated>>
        /\ failed' \in {TRUE, failed} /\ activeMonitors' \subseteq Containers
    BY <1>1, <1>8 DEF MethodFails, IFailed, setupPackageContainerMonitors, failureVars, AgentTypes
  <2>2. AgentInv'
    <3>1. known' \in BOOLEAN /\ terminated' \in BOOLEAN /\ activeMonitors' \subseteq Containers
      BY <2>1, <1>1 DEF AgentTypes
    <3> QED BY <3>1, <2>1, QuietStep
  <2> QED BY <2>1, <2>2 DEF AskedForAReason, NothingTold, jobVars
<1>9. CASE expectationManagerAvailable \/ expectationManagerGone
  <2>1. /\ UNCHANGED <<jobVars, sinceWork, failed, failedPeriods, periods, activeMonitors, asked,
                       terminated>>
        /\ known' \in BOOLEAN
    BY <1>9 DEF expectationManagerAvailable, expectationManagerGone, failureVars
  <2>2. AgentInv'
    <3>1. known' \in BOOLEAN /\ terminated' \in BOOLEAN /\ activeMonitors' \subseteq Containers
      BY <2>1, <1>1 DEF AgentTypes
    <3> QED BY <3>1, <2>1, QuietStep
  <2> QED BY <2>1, <2>2 DEF AskedForAReason, NothingTold, jobVars
<1> QED BY <1>2, <1>3, <1>4, <1>5, <1>6, <1>7, <1>8, <1>9 DEF NextAgent

LEMMA AgentUnchanged ==
  ASSUME AgentInv, UNCHANGED agentVars
  PROVE  AgentInv'
<1>1. /\ UNCHANGED <<jobVars, failed, failedPeriods, periods, sinceWork, activeMonitors, known, asked,
                     terminated>>
  BY DEF agentVars, failureVars
<1>2. known' \in BOOLEAN /\ terminated' \in BOOLEAN /\ activeMonitors' \subseteq Containers
  BY <1>1, AgentInvParts DEF AgentTypes
<1> QED BY <1>1, <1>2, QuietStep

LEMMA AgentInit == Init => AgentInv
<1> SUFFICES ASSUME Init
             PROVE  AgentInv
  OBVIOUS
<1>1. /\ job = [j \in Jobs |-> NoJob] /\ work = [j \in Jobs |-> "none"]
      /\ told = [j \in Jobs |-> "nothing"] /\ sinceWork = 0 /\ failed = FALSE
      /\ failedPeriods = 0 /\ periods = <<>> /\ activeMonitors = {}
      /\ known \in BOOLEAN /\ asked \in {"no", "forced"} /\ terminated \in BOOLEAN
  BY DEF Init, InitAgent, NoAgent
<1>2. NoJob \in CurrentJob /\ NoJob.current = FALSE /\ NoJob.cancelled = FALSE
  BY TimesAssumption DEF NoJob, CurrentJob
<1>3. AgentTypes
  BY <1>1, <1>2, TimesAssumption DEF AgentTypes
<1>4. FailuresInv
  <2>1. periods \in Seq(BOOLEAN) /\ Len(periods) = 0 /\ \A i \in DOMAIN periods : FALSE
    BY <1>1
  <2>2. PeriodsAreCounted
    BY <2>1, <1>1, TimesAssumption DEF PeriodsAreCounted
  <2>3. failed \in BOOLEAN /\ failedPeriods = 0
    BY <1>1
  <2>4. Len(periods) <= FailurePeriodLimit /\ failedPeriods <= Len(periods)
    BY <2>1, <2>3, TimesAssumption
  <2> QED BY <2>1, <2>2, <2>3, <2>4, <1>1 DEF FailuresInv
<1>5. \A j \in Jobs : JobInv(j)
  BY <1>1, <1>2 DEF JobInv
<1> QED BY <1>3, <1>4, <1>5, AgentInvParts

-----------------------------------------------------------------------------
(* PackageContainers *)

LEMMA UntrackedFacts ==
  /\ Untracked.currentWorker = None /\ Untracked.monitorIsSetup = FALSE
  /\ Untracked.content = None /\ Untracked \notin Tracked
  /\ \A c \in Contents :
       /\ NewContainer(c) \in Tracked /\ NewContainer(c).currentWorker = None
       /\ NewContainer(c).monitorIsSetup = FALSE /\ NewContainer(c).content = c
BY ContainersAssumption DEF Tracked, Untracked, NewContainer

(* What the invariant says of the tracked PackageContainer and its Worker. *)
LEMMA TrackedFacts ==
  ASSUME TypeOKOfContainers
  PROVE  /\ tracked # Untracked => tracked \in Tracked
         /\ tracked.currentWorker \in Agents \cup {None}
         /\ tracked.currentWorker # None => tracked # Untracked
         /\ tracked.monitorIsSetup \in BOOLEAN /\ tracked.isUpdated \in BOOLEAN
         /\ tracked = Untracked =>
              /\ tracked.currentWorker = None /\ tracked.monitorIsSetup = FALSE
              /\ tracked.content \notin Monitored
<1>1. CASE tracked = Untracked
  BY <1>1, UntrackedFacts, ContainersAssumption DEF Untracked, NewContainer
<1>2. CASE tracked \in Tracked
  <2>1. tracked # Untracked
    BY <1>2, UntrackedFacts
  <2> QED BY <1>2, <2>1 DEF Tracked
<1> QED BY <1>1, <1>2 DEF TypeOKOfContainers

(* The two halves of MonitorsCanBeStopped. *)
LEMMA MonitorsOf ==
  ASSUME ContainersInv, NEW w \in Agents
  PROVE  /\ w \notin astray /\ entry[w] = None => running[w] = 0
         /\ w \notin astray /\ entry[w] # None => running[w] = 1 /\ tracked.currentWorker = w
         /\ running[w] \in Nat /\ entry[w] \in Contents \cup {None}
         /\ entry[w] # None => running[w] > 0
BY DEF ContainersInv, MonitorsCanBeStopped, EntriesAreRunning, TypeOKOfContainers

(* Nothing has happened to the monitors, and their Worker has not been taken away. *)
LEMMA MonitorsStay ==
  ASSUME ContainersInv, TypeOKOfContainers', UNCHANGED <<entry, running, astray>>,
         tracked'.currentWorker = tracked.currentWorker \/ tracked.currentWorker = None
  PROVE  MonitorsCanBeStopped' /\ EntriesAreRunning'
<1>1. tracked'.currentWorker # None => tracked' # Untracked
  BY TrackedFacts, UntrackedFacts
<1>2. EntriesAreRunning'
  BY DEF ContainersInv, EntriesAreRunning
<1>3. ASSUME NEW w \in Agents \ astray
      PROVE  /\ running[w] = IF entry[w] = None THEN 0 ELSE 1
             /\ running[w] > 0 => tracked' # Untracked /\ tracked'.currentWorker = w
  <2>1. running[w] > 0 => tracked.currentWorker = w
    BY <1>3, MonitorsOf
  <2>2. w # None
    BY ContainersAssumption
  <2> QED BY <1>1, <1>3, <2>1, <2>2, MonitorsOf
<1> QED BY <1>2, <1>3 DEF MonitorsCanBeStopped

(* The monitors of a Worker are stopped, whatever becomes of the PackageContainer. *)
LEMMA MonitorsStopped ==
  ASSUME ContainersInv, TypeOKOfContainers', StopMonitor(tracked.currentWorker),
         astray' = astray, tracked.currentWorker \in Agents
  PROVE  MonitorsCanBeStopped' /\ EntriesAreRunning'
<1> DEFINE v == tracked.currentWorker
<1>1. ASSUME NEW w \in Agents
      PROVE  /\ w # v => entry'[w] = entry[w] /\ running'[w] = running[w]
             /\ w = v => /\ entry'[w] = None
                         /\ running'[w] = IF entry[w] = None THEN running[w] ELSE running[w] - 1
  BY DEF StopMonitor, ContainersInv, TypeOKOfContainers
<1>2. ASSUME NEW w \in Agents
      PROVE  entry'[w] # None => running'[w] > 0
  BY <1>1, MonitorsOf
<1>3. ASSUME NEW w \in Agents, w \notin astray
      PROVE  running'[w] = 0 /\ entry'[w] = None
  <2>1. CASE w = v
    BY <2>1, <1>1, <1>3, MonitorsOf
  <2>2. CASE w # v
    BY <2>2, <1>1, <1>3, MonitorsOf
  <2> QED BY <2>1, <2>2
<1> QED BY <1>2, <1>3 DEF MonitorsCanBeStopped, EntriesAreRunning

(* A monitor is started on a Worker; only one on the Worker it has been given to, where there *)
(* was none, does not lead it astray. *)
LEMMA MonitorsStarted ==
  ASSUME ContainersInv, TypeOKOfContainers',
         NEW v \in Agents, NEW c \in Contents, StartMonitor(v, c),
         astray' = astray \cup {v} \/ (astray' = astray /\ entry[v] = None /\ v = tracked.currentWorker),
         tracked'.currentWorker = tracked.currentWorker
  PROVE  MonitorsCanBeStopped' /\ EntriesAreRunning' /\ entry'[v] = c
<1>1. ASSUME NEW w \in Agents
      PROVE  /\ w # v => entry'[w] = entry[w] /\ running'[w] = running[w]
             /\ w = v => entry'[w] = c /\ running'[w] = running[w] + 1
  BY DEF StartMonitor, ContainersInv, TypeOKOfContainers
<1>2. ASSUME NEW w \in Agents
      PROVE  entry'[w] # None => running'[w] > 0
  BY <1>1, MonitorsOf
<1>3. tracked'.currentWorker # None => tracked' # Untracked
  BY TrackedFacts, UntrackedFacts
<1>4. None \notin Agents /\ None \notin Contents
  BY ContainersAssumption
<1>5. ASSUME NEW w \in Agents, w \notin astray'
      PROVE  /\ running'[w] = IF entry'[w] = None THEN 0 ELSE 1
             /\ running'[w] > 0 => tracked' # Untracked /\ tracked'.currentWorker = w
  <2>1. CASE w = v
    <3>1. w \notin astray /\ entry[w] = None /\ w = tracked.currentWorker
      BY <1>5, <2>1
    <3>2. running[w] = 0
      BY <3>1, MonitorsOf
    <3> QED BY <3>1, <3>2, <2>1, <1>1, <1>3, <1>4
  <2>2. CASE w # v
    <3>1. w \notin astray
      BY <1>5
    <3> QED BY <3>1, <2>2, <1>1, <1>3, <1>4, MonitorsOf
  <2> QED BY <2>1, <2>2
<1> QED BY <1>1, <1>2, <1>5 DEF MonitorsCanBeStopped, EntriesAreRunning

(* The types of what a step does to the monitors and to the number of mishaps. *)
LEMMA MonitorTypes ==
  ASSUME ContainersInv
  PROVE  /\ \A w \in Agents : StopMonitor(w) =>
              entry' \in [Agents -> Contents \cup {None}] /\ running' \in [Agents -> Nat]
         /\ \A w \in Agents, c \in Contents : StartMonitor(w, c) =>
              entry' \in [Agents -> Contents \cup {None}] /\ running' \in [Agents -> Nat]
         /\ GivesUp => givenUp' \in BOOLEAN /\ (tracked.monitorIsSetup => givenUp')
         /\ Mishap => mishaps' \in 0 .. MaxMishaps
         /\ \A w \in Agents : CallFails(w) => mishaps' \in 0 .. MaxMishaps
<1>1. TypeOKOfContainers
  BY DEF ContainersInv
<1>2. ASSUME NEW w \in Agents, StopMonitor(w)
      PROVE  entry' \in [Agents -> Contents \cup {None}] /\ running' \in [Agents -> Nat]
  <2>1. (IF entry[w] = None THEN running[w] ELSE running[w] - 1) \in Nat
    BY MonitorsOf
  <2> QED BY <1>1, <1>2, <2>1 DEF StopMonitor, TypeOKOfContainers
<1>3. ASSUME NEW w \in Agents, NEW c \in Contents, StartMonitor(w, c)
      PROVE  entry' \in [Agents -> Contents \cup {None}] /\ running' \in [Agents -> Nat]
  <2>1. running[w] + 1 \in Nat
    BY MonitorsOf
  <2> QED BY <1>1, <1>3, <2>1 DEF StartMonitor, TypeOKOfContainers
<1>4. GivesUp => givenUp' \in BOOLEAN /\ (tracked.monitorIsSetup => givenUp')
  BY <1>1, TrackedFacts DEF GivesUp, TypeOKOfContainers
<1>5. Mishap => mishaps' \in 0 .. MaxMishaps
  BY <1>1, ContainersAssumption DEF Mishap, TypeOKOfContainers
<1>6. \A w \in Agents : CallFails(w) => mishaps' \in 0 .. MaxMishaps
  BY <1>1, <1>5 DEF CallFails, TypeOKOfContainers
<1> QED BY <1>2, <1>3, <1>4, <1>5, <1>6

\* How it goes on with the Worker that t has.
Used(t) ==
  \/ Bad
  \/ t.currentWorker \in connected /\ step' = "settingUp" /\ status' = status
  \/ /\ t.currentWorker \in connected
     /\ t.content \in Monitored => t.monitorIsSetup
     /\ \/ step' = "cronjob" /\ status' = status
        \/ step' = "scaling" /\ status' \in {status, "GOOD"}

LEMMA UseWorkerStep ==
  ASSUME NEW t, UseWorker(t)
  PROVE  tracked' = t /\ Used(t)
<1>1. CASE t.currentWorker \notin connected
  BY <1>1 DEF UseWorker, Used
<1>2. CASE t.currentWorker \in connected /\ t.content \in Monitored /\ ~t.monitorIsSetup
  BY <1>2 DEF UseWorker, Used
<1>3. CASE t.currentWorker \in connected /\ ~(t.content \in Monitored /\ ~t.monitorIsSetup)
  <2>1. tracked' = t /\ RunsCronjob
    BY <1>3 DEF UseWorker
  <2> QED BY <1>3, <2>1 DEF RunsCronjob, AllGood, Used
<1> QED BY <1>1, <1>2, <1>3

(* What has been given a Worker, or finds none, is as the invariant has it. *)
LEMMA UsedKeepsInv ==
  ASSUME ContainersInv, NEW t \in Tracked, ~t.isUpdated, tracked' = t, Used(t),
         t.content = tracked.content, t.monitorIsSetup = tracked.monitorIsSetup,
         connected' = connected,
         \A q \in questions' : q.stale
  PROVE  /\ status' \in {"none", "UNKNOWN", "GOOD", "BAD"}
         /\ step' \in {"settingUp", "cronjob", "scaling"}
         /\ EvaluationIsOfTracked' /\ GoodIsSetUp'
<1>1. TypeOKOfContainers /\ GoodIsSetUp
  BY DEF ContainersInv
<1>2. tracked' # Untracked
  BY UntrackedFacts
<1>3. None \notin connected
  BY <1>1, ContainersAssumption DEF TypeOKOfContainers
<1>4. step' \in {"settingUp", "cronjob"} => t.currentWorker \in connected
  BY DEF Used, Bad
<1>5. step' \in {"settingUp", "cronjob", "scaling"}
  BY DEF Used, Bad
<1>6. status' \in {status, "GOOD", "BAD"}
  BY DEF Used, Bad
<1>7. EvaluationIsOfTracked'
  BY <1>2, <1>3, <1>4, <1>5 DEF EvaluationIsOfTracked
<1>8. GoodIsSetUp'
  BY <1>1 DEF GoodIsSetUp, Used, Bad
<1> QED BY <1>1, <1>5, <1>6, <1>7, <1>8 DEF TypeOKOfContainers

(* A Worker is looked for: by a PackageContainer whose changes have been taken in. *)
LEMMA FindWorkerStep ==
  ASSUME ContainersInv, step \in {"evaluating", "resetting"},
         NEW t \in Tracked, ~t.isUpdated, FindWorker(t),
         t.content = tracked.content, t.monitorIsSetup = tracked.monitorIsSetup,
         connected' = connected
  PROVE  /\ tracked' = t /\ refused' \in BOOLEAN
         /\ status' \in {"none", "UNKNOWN", "GOOD", "BAD"}
         /\ step' \in {"asking", "settingUp", "cronjob", "scaling"}
         /\ questions' \subseteq [agent : Agents, content : Contents, stale : BOOLEAN]
         /\ EvaluationIsOfTracked' /\ GoodIsSetUp'
<1>1. TypeOKOfContainers /\ EvaluationIsOfTracked /\ GoodIsSetUp
  BY DEF ContainersInv
<1>2. \A q \in questions : q.stale
  BY <1>1 DEF EvaluationIsOfTracked
<1>3. CASE t.currentWorker # None
  <2>1. UseWorker(t) /\ questions' = questions /\ refused' = refused
    BY <1>3 DEF FindWorker
  <2>2. tracked' = t /\ Used(t)
    BY <2>1, UseWorkerStep
  <2> QED BY <2>1, <2>2, <1>1, <1>2, UsedKeepsInv DEF TypeOKOfContainers
<1>4. CASE t.currentWorker = None
  <2> DEFINE New == [agent : connected, content : {t.content}, stale : {FALSE}]
  <2>1. /\ tracked' = t /\ refused' = FALSE
        /\ questions' = questions \cup New
        /\ IF connected = {} THEN Bad ELSE step' = "asking" /\ status' = status
    BY <1>4 DEF FindWorker
  <2>2. New \subseteq [agent : Agents, content : Contents, stale : BOOLEAN]
    <3>1. connected \subseteq Agents /\ t.content \in Contents
      BY <1>1 DEF TypeOKOfContainers, Tracked
    <3> QED BY <3>1
  <2>3. connected = {} => New = {}
    OBVIOUS
  <2>4. tracked' # Untracked
    BY <2>1, UntrackedFacts
  <2> HIDE DEF New
  <2>5. EvaluationIsOfTracked'
    BY <2>1, <2>3, <2>4, <1>2 DEF EvaluationIsOfTracked, Bad
  <2>6. GoodIsSetUp'
    BY <2>1, <1>1 DEF GoodIsSetUp, Bad
  <2> QED BY <2>1, <2>2, <2>5, <2>6, <1>1 DEF TypeOKOfContainers, Bad
<1> QED BY <1>3, <1>4

(* The parts the actions are looked at with. *)
LEMMA ContainersParts ==
  ASSUME ContainersInv
  PROVE  /\ TypeOKOfContainers /\ EvaluationIsOfTracked /\ SetUpIsMonitored /\ GoodIsSetUp
         /\ None \notin Agents /\ None \notin Contents /\ None \notin connected
         /\ \A w \in connected : w \in Agents
         /\ tracked.currentWorker # None => tracked.currentWorker \in Agents /\ tracked \in Tracked
         /\ step \in {"removing", "resetting", "settingUp", "cronjob"} =>
              tracked.currentWorker \in Agents /\ tracked \in Tracked
<1>1. TypeOKOfContainers /\ EvaluationIsOfTracked /\ SetUpIsMonitored /\ GoodIsSetUp
  BY DEF ContainersInv
<1>2. None \notin Agents /\ None \notin Contents
  BY ContainersAssumption
<1>3. connected \subseteq Agents
  BY <1>1 DEF TypeOKOfContainers
<1>4. tracked.currentWorker # None => tracked.currentWorker \in Agents /\ tracked \in Tracked
  BY <1>1, TrackedFacts
<1>5. step \in {"removing", "resetting", "settingUp", "cronjob"} => tracked.currentWorker # None
  BY <1>1 DEF EvaluationIsOfTracked
<1> QED BY <1>1, <1>2, <1>3, <1>4, <1>5

(* Steps that leave the monitors and the tracked PackageContainer alone. *)
LEMMA ManagerStep ==
  ASSUME ContainersInv, TypeOKOfContainers',
         tracked' = tracked, EvaluationIsOfTracked', GoodIsSetUp',
         UNCHANGED <<entry, running, astray, givenUp>>
  PROVE  ContainersInv'
<1>1. MonitorsCanBeStopped' /\ EntriesAreRunning'
  BY MonitorsStay
<1>2. SetUpIsMonitored'
  BY ContainersParts DEF SetUpIsMonitored
<1> QED BY <1>1, <1>2 DEF ContainersInv

LEMMA ReceivedStep ==
  ASSUME ContainersInv, NEW c \in Contents \cup {None},
         setPackageContainers(c) \/ restartPackageContainers
  PROVE  ContainersInv'
<1> USE DEF monitorVars
<1>1. UNCHANGED <<tracked, status, step, questions, badStatus>>
  BY DEF setPackageContainers, restartPackageContainers, ByOwner
<1>2. TypeOKOfContainers'
  <2>1. TypeOKOfContainers /\ MaxUpdates \in Nat
    BY ContainersParts, ContainersAssumption
  <2>2. updates \in 0 .. MaxUpdates /\ updates < MaxUpdates /\ updates' = updates + 1
    BY <2>1 DEF TypeOKOfContainers, setPackageContainers, restartPackageContainers, ByOwner
  <2>3. updates' \in 0 .. MaxUpdates
    BY <2>1, <2>2
  <2>4. wanted' \in Contents \cup {None} /\ restarted' \in BOOLEAN /\ hasBeenUpdated' = TRUE
    BY <2>1 DEF TypeOKOfContainers, setPackageContainers, restartPackageContainers, ByOwner
  <2>5. UNCHANGED <<tracked, status, step, questions, refused, badStatus, connected, entry, late,
                    running, astray, givenUp, mishaps>>
    BY DEF setPackageContainers, restartPackageContainers, ByOwner
  <2> QED BY <2>1, <2>3, <2>4, <2>5 DEF TypeOKOfContainers
<1>3. EvaluationIsOfTracked' /\ GoodIsSetUp'
  BY <1>1, ContainersParts DEF EvaluationIsOfTracked, GoodIsSetUp
<1> QED BY <1>1, <1>2, <1>3, ManagerStep DEF setPackageContainers, restartPackageContainers, ByOwner

LEMMA AddedFacts ==
  ASSUME ContainersInv, wanted \in Contents
  PROVE  /\ AddedOrChanged \in Tracked
         /\ AddedOrChanged.currentWorker = tracked.currentWorker
         /\ AddedOrChanged.monitorIsSetup = tracked.monitorIsSetup
         /\ AddedOrChanged = tracked \/ AddedOrChanged.isUpdated
<1>1. TypeOKOfContainers
  BY DEF ContainersInv
<1>2. CASE tracked = Untracked
  BY <1>2, UntrackedFacts DEF AddedOrChanged, NewContainer
<1>3. CASE tracked # Untracked /\ (tracked.content # wanted \/ restarted)
  <2>1. tracked \in Tracked
    BY <1>1, <1>3, TrackedFacts
  <2>2. AddedOrChanged = [tracked EXCEPT !.content = wanted, !.isUpdated = TRUE]
    BY <1>3 DEF AddedOrChanged
  <2> QED BY <2>1, <2>2 DEF Tracked
<1>4. CASE tracked # Untracked /\ ~(tracked.content # wanted \/ restarted)
  <2>1. AddedOrChanged = tracked
    BY <1>4 DEF AddedOrChanged
  <2> QED BY <2>1, <1>1, <1>4, TrackedFacts
<1> QED BY <1>2, <1>3, <1>4

LEMMA UpdateStep ==
  ASSUME ContainersInv, _updateReceivedData_TrackedPackageContainers
  PROVE  ContainersInv'
<1> USE DEF monitorVars
<1>1. /\ TypeOKOfContainers /\ EvaluationIsOfTracked /\ SetUpIsMonitored /\ GoodIsSetUp
      /\ step = "idle" /\ \A q \in questions : q.stale
      /\ UNCHANGED <<wanted, questions, badStatus, entry, running, astray, givenUp>>
      /\ step' \in {"evaluating", "removing"} /\ status' \in {"UNKNOWN", status}
  BY ContainersParts DEF _updateReceivedData_TrackedPackageContainers, EvaluationIsOfTracked
<1>2. CASE wanted # None
  <2>1. wanted \in Contents
    BY <1>1, <1>2 DEF TypeOKOfContainers
  <2>2. /\ tracked' = AddedOrChanged /\ step' = "evaluating"
        /\ status' = IF AddedOrChanged # tracked \/ restarted THEN "UNKNOWN" ELSE status
    BY <1>2 DEF _updateReceivedData_TrackedPackageContainers
  <2>3. tracked' \in Tracked /\ tracked' # Untracked
    BY <2>1, <2>2, AddedFacts, UntrackedFacts
  <2>4. TypeOKOfContainers'
    BY <1>1, <2>3 DEF TypeOKOfContainers, _updateReceivedData_TrackedPackageContainers
  <2>5. MonitorsCanBeStopped' /\ EntriesAreRunning'
    BY <1>1, <2>1, <2>2, <2>4, AddedFacts, MonitorsStay
  <2>6. EvaluationIsOfTracked'
    BY <1>1, <2>2, <2>3 DEF EvaluationIsOfTracked
  <2>7. tracked' = tracked \/ (tracked'.isUpdated /\ status' = "UNKNOWN")
    BY <2>1, <2>2, AddedFacts
  <2>8. SetUpIsMonitored'
    BY <1>1, <2>1, <2>2, <2>7, AddedFacts DEF SetUpIsMonitored
  <2>9. GoodIsSetUp'
    BY <1>1, <2>2, <2>7 DEF GoodIsSetUp
  <2> QED BY <2>4, <2>5, <2>6, <2>8, <2>9 DEF ContainersInv
<1>3. CASE wanted = None
  <2>1. /\ tracked' = tracked /\ status' = status
        /\ step' = "removing" => tracked.currentWorker \in connected
    BY <1>3 DEF _updateReceivedData_TrackedPackageContainers
  <2>2. TypeOKOfContainers'
    BY <1>1, <2>1 DEF TypeOKOfContainers, _updateReceivedData_TrackedPackageContainers
  <2>3. EvaluationIsOfTracked' /\ GoodIsSetUp'
    BY <1>1, <2>1, ContainersParts DEF EvaluationIsOfTracked, GoodIsSetUp
  <2> QED BY <1>1, <2>1, <2>2, <2>3, ManagerStep
<1> QED BY <1>2, <1>3

LEMMA NothingReceivedStep ==
  ASSUME ContainersInv, NothingReceived
  PROVE  ContainersInv'
<1> USE DEF monitorVars
<1>1. /\ step = "idle" /\ step' = "evaluating"
      /\ UNCHANGED <<tracked, status, questions, badStatus, entry, running, astray, givenUp>>
  BY DEF NothingReceived
<1>2. TypeOKOfContainers'
  BY ContainersParts DEF TypeOKOfContainers, NothingReceived
<1>3. EvaluationIsOfTracked' /\ GoodIsSetUp'
  BY <1>1, ContainersParts DEF EvaluationIsOfTracked, GoodIsSetUp
<1> QED BY <1>1, <1>2, <1>3, ManagerStep

LEMMA RemovedStep ==
  ASSUME ContainersInv, Removed
  PROVE  ContainersInv'
<1> DEFINE v == tracked.currentWorker
<1>1. /\ TypeOKOfContainers /\ EvaluationIsOfTracked /\ v \in Agents
  BY ContainersParts DEF Removed
<1>2. /\ StopMonitor(v) /\ tracked' = Untracked /\ status' = "none" /\ questions' = {}
      /\ step' = "evaluating" /\ astray' = astray /\ givenUp' = FALSE
  BY DEF Removed
<1>3. entry' \in [Agents -> Contents \cup {None}] /\ running' \in [Agents -> Nat]
  BY <1>1, <1>2, MonitorTypes
<1>4. TypeOKOfContainers'
  BY <1>1, <1>2, <1>3 DEF TypeOKOfContainers, Removed
<1>5. MonitorsCanBeStopped' /\ EntriesAreRunning'
  BY <1>1, <1>2, <1>4, MonitorsStopped
<1>6. EvaluationIsOfTracked' /\ SetUpIsMonitored' /\ GoodIsSetUp'
  BY <1>2, UntrackedFacts DEF EvaluationIsOfTracked, SetUpIsMonitored, GoodIsSetUp
<1> QED BY <1>4, <1>5, <1>6 DEF ContainersInv

(* A call to stop the monitors fails, before or after it has done so. *)
LEMMA StopFailsStep ==
  ASSUME ContainersInv, step \in {"removing", "resetting"},
         CallFails(tracked.currentWorker),
         \/ UNCHANGED <<entry, running, givenUp>>
         \/ StopMonitor(tracked.currentWorker) /\ GivesUp,
         status' = "BAD", step' \in {"evaluating", "scaling"},
         UNCHANGED <<wanted, hasBeenUpdated, restarted, tracked, questions, refused, badStatus, late,
                     astray, connected, updates>>
  PROVE  ContainersInv'
<1> DEFINE v == tracked.currentWorker
<1>1. /\ TypeOKOfContainers /\ EvaluationIsOfTracked /\ SetUpIsMonitored /\ v \in Agents
      /\ tracked \in Tracked
  BY ContainersParts
<1>2. /\ entry' \in [Agents -> Contents \cup {None}] /\ running' \in [Agents -> Nat]
      /\ givenUp' \in BOOLEAN
  BY <1>1, MonitorTypes DEF TypeOKOfContainers
<1>3. mishaps' \in 0 .. MaxMishaps
  BY <1>1, MonitorTypes
<1>4. TypeOKOfContainers'
  BY <1>1, <1>2, <1>3 DEF TypeOKOfContainers
<1>5. MonitorsCanBeStopped' /\ EntriesAreRunning'
  BY <1>1, <1>4, MonitorsStopped, MonitorsStay
<1>6. SetUpIsMonitored'
  BY <1>1, MonitorTypes DEF SetUpIsMonitored
<1>7. EvaluationIsOfTracked' /\ GoodIsSetUp'
  BY <1>1 DEF EvaluationIsOfTracked, GoodIsSetUp
<1> QED BY <1>4, <1>5, <1>6, <1>7 DEF ContainersInv

LEMMA TakenIn ==
  ASSUME NEW t \in Tracked
  PROVE  /\ [t EXCEPT !.isUpdated = FALSE] \in Tracked
         /\ [t EXCEPT !.isUpdated = FALSE].isUpdated = FALSE
         /\ [t EXCEPT !.isUpdated = FALSE].content = t.content
         /\ [t EXCEPT !.isUpdated = FALSE].monitorIsSetup = t.monitorIsSetup
         /\ [t EXCEPT !.isUpdated = FALSE].currentWorker = t.currentWorker
BY DEF Tracked

LEMMA WithoutWorkerFacts ==
  ASSUME NEW t \in Tracked
  PROVE  /\ WithoutWorker(t) \in Tracked
         /\ WithoutWorker(t).isUpdated = t.isUpdated
         /\ WithoutWorker(t).content = t.content
         /\ WithoutWorker(t).monitorIsSetup = t.monitorIsSetup
         /\ WithoutWorker(t).currentWorker = None
BY DEF Tracked, WithoutWorker

(* What has been found, as the rest of the invariant has it: all but the monitors. *)
LEMMA FoundKeepsTypes ==
  ASSUME ContainersInv,
         tracked' \in Tracked, refused' \in BOOLEAN,
         status' \in {"none", "UNKNOWN", "GOOD", "BAD"},
         step' \in {"asking", "settingUp", "cronjob", "scaling"},
         questions' \subseteq [agent : Agents, content : Contents, stale : BOOLEAN],
         entry' \in [Agents -> Contents \cup {None}], running' \in [Agents -> Nat],
         astray' \subseteq Agents, givenUp' \in BOOLEAN,
         UNCHANGED <<wanted, hasBeenUpdated, restarted, badStatus, late, connected, updates, mishaps>>
  PROVE  TypeOKOfContainers'
BY ContainersParts DEF TypeOKOfContainers

LEMMA EvaluateStep ==
  ASSUME ContainersInv, Evaluate
  PROVE  ContainersInv'
<1> DEFINE w == tracked.currentWorker
           t == [tracked EXCEPT !.isUpdated = FALSE]
<1>1. /\ TypeOKOfContainers /\ EvaluationIsOfTracked /\ SetUpIsMonitored /\ GoodIsSetUp
      /\ None \notin Agents /\ None \notin connected /\ step = "evaluating"
      /\ w # None => w \in Agents
  BY ContainersParts DEF Evaluate
<1>2. UNCHANGED <<wanted, hasBeenUpdated, restarted, badStatus, entry, running, late, connected,
                  updates, mishaps>>
  BY DEF Evaluate
<1>3. CASE tracked = Untracked
  <2>1. step' = "scaling" /\ UNCHANGED <<tracked, status, questions, refused, astray, givenUp>>
    BY <1>3 DEF Evaluate
  <2>2. TypeOKOfContainers'
    BY <1>1, <1>2, <2>1 DEF TypeOKOfContainers
  <2>3. EvaluationIsOfTracked' /\ GoodIsSetUp'
    BY <1>1, <1>2, <2>1 DEF EvaluationIsOfTracked, GoodIsSetUp
  <2> QED BY <1>2, <2>1, <2>2, <2>3, ManagerStep
<1>4. CASE tracked # Untracked /\ tracked.isUpdated /\ w \in connected
  <2>1. step' = "resetting" /\ UNCHANGED <<tracked, status, questions, refused, astray, givenUp>>
    BY <1>4 DEF Evaluate
  <2>2. TypeOKOfContainers'
    BY <1>1, <1>2, <2>1 DEF TypeOKOfContainers
  <2>3. EvaluationIsOfTracked' /\ GoodIsSetUp'
    BY <1>1, <1>2, <1>4, <2>1 DEF EvaluationIsOfTracked, GoodIsSetUp
  <2> QED BY <1>2, <2>1, <2>2, <2>3, ManagerStep
<1>5. CASE tracked # Untracked /\ w \notin connected \cup {None}
  <2> DEFINE u == WithoutWorker(t)
  <2>1. FindWorker(u) /\ WorkerIsGone(w)
    BY <1>5 DEF Evaluate
  <2>2. tracked \in Tracked /\ w \in Agents
    BY <1>1, <1>5, TrackedFacts
  <2>3. /\ t \in Tracked /\ t.isUpdated = FALSE
        /\ t.content = tracked.content /\ t.monitorIsSetup = tracked.monitorIsSetup
    BY <2>2, TakenIn
  <2> HIDE DEF t
  <2>4. /\ u \in Tracked /\ u.isUpdated = FALSE /\ u.currentWorker = None
        /\ u.content = tracked.content /\ u.monitorIsSetup = tracked.monitorIsSetup
    BY <2>3, WithoutWorkerFacts
  <2> HIDE DEF u
  <2>5. /\ tracked' = u /\ refused' \in BOOLEAN
        /\ status' \in {"none", "UNKNOWN", "GOOD", "BAD"}
        /\ step' \in {"asking", "settingUp", "cronjob", "scaling"}
        /\ questions' \subseteq [agent : Agents, content : Contents, stale : BOOLEAN]
        /\ EvaluationIsOfTracked' /\ GoodIsSetUp'
    BY <1>1, <1>2, <2>1, <2>4, FindWorkerStep
  <2>6. /\ givenUp' \in BOOLEAN /\ (tracked.monitorIsSetup => givenUp')
        /\ astray' = IF entry[w] # None THEN astray \cup {w} ELSE astray
        /\ astray' \subseteq Agents
    BY <1>1, <2>1, <2>2, MonitorTypes DEF WorkerIsGone, TypeOKOfContainers
  <2>7. entry' \in [Agents -> Contents \cup {None}] /\ running' \in [Agents -> Nat]
    BY <1>1, <1>2 DEF TypeOKOfContainers
  <2>8. TypeOKOfContainers'
    BY <1>2, <2>4, <2>5, <2>6, <2>7, FoundKeepsTypes
  <2>9. EntriesAreRunning'
    BY <1>2 DEF ContainersInv, EntriesAreRunning
  <2>10. ASSUME NEW x \in Agents, x \notin astray'
         PROVE  running[x] = 0 /\ entry[x] = None
    <3>1. x \notin astray /\ (x = w => entry[x] = None)
      BY <2>6, <2>10
    <3> QED BY <3>1, MonitorsOf
  <2>11. MonitorsCanBeStopped'
    BY <1>2, <2>10 DEF MonitorsCanBeStopped
  <2>12. SetUpIsMonitored'
    BY <2>4, <2>5, <2>6 DEF SetUpIsMonitored
  <2> QED BY <2>5, <2>8, <2>9, <2>11, <2>12 DEF ContainersInv
<1>6. CASE /\ tracked # Untracked
           /\ ~(tracked.isUpdated /\ w \in connected)
           /\ w \in connected \cup {None}
  <2>1. FindWorker(t) /\ UNCHANGED <<astray, givenUp>>
    BY <1>6 DEF Evaluate
  <2>2. tracked \in Tracked
    BY <1>1, <1>6, TrackedFacts
  <2>3. /\ t \in Tracked /\ t.isUpdated = FALSE /\ t.currentWorker = w
        /\ t.content = tracked.content /\ t.monitorIsSetup = tracked.monitorIsSetup
    BY <2>2, TakenIn
  <2> HIDE DEF t
  <2>4. /\ tracked' = t /\ refused' \in BOOLEAN
        /\ status' \in {"none", "UNKNOWN", "GOOD", "BAD"}
        /\ step' \in {"asking", "settingUp", "cronjob", "scaling"}
        /\ questions' \subseteq [agent : Agents, content : Contents, stale : BOOLEAN]
        /\ EvaluationIsOfTracked' /\ GoodIsSetUp'
    BY <1>1, <1>2, <2>1, <2>3, FindWorkerStep
  <2>5. /\ entry' \in [Agents -> Contents \cup {None}] /\ running' \in [Agents -> Nat]
        /\ astray' \subseteq Agents /\ givenUp' \in BOOLEAN
    BY <1>1, <1>2, <2>1 DEF TypeOKOfContainers
  <2>6. TypeOKOfContainers'
    BY <1>2, <2>3, <2>4, <2>5, FoundKeepsTypes
  <2>7. MonitorsCanBeStopped' /\ EntriesAreRunning'
    BY <1>2, <2>1, <2>3, <2>4, <2>6, MonitorsStay
  <2>8. SetUpIsMonitored'
    BY <1>1, <1>2, <1>6, <2>1, <2>3, <2>4 DEF SetUpIsMonitored
  <2> QED BY <2>4, <2>6, <2>7, <2>8 DEF ContainersInv
<1> QED BY <1>3, <1>4, <1>5, <1>6

LEMMA ResetStep ==
  ASSUME ContainersInv, Reset
  PROVE  ContainersInv'
<1> DEFINE w == tracked.currentWorker
           t == [tracked EXCEPT !.isUpdated = FALSE]
           u == WithoutWorker(t)
<1>1. /\ TypeOKOfContainers /\ step = "resetting" /\ w \in Agents /\ tracked \in Tracked
  BY ContainersParts DEF Reset
<1>2. /\ StopMonitor(w) /\ GivesUp /\ FindWorker(u)
      /\ UNCHANGED <<wanted, hasBeenUpdated, restarted, badStatus, late, astray, connected, updates,
                     mishaps>>
  BY DEF Reset
<1>3. /\ t \in Tracked /\ t.isUpdated = FALSE
      /\ t.content = tracked.content /\ t.monitorIsSetup = tracked.monitorIsSetup
  BY <1>1, TakenIn
<1> HIDE DEF t
<1>4. /\ u \in Tracked /\ u.isUpdated = FALSE /\ u.currentWorker = None
      /\ u.content = tracked.content /\ u.monitorIsSetup = tracked.monitorIsSetup
  BY <1>3, WithoutWorkerFacts
<1> HIDE DEF u
<1>5. /\ tracked' = u /\ refused' \in BOOLEAN
      /\ status' \in {"none", "UNKNOWN", "GOOD", "BAD"}
      /\ step' \in {"asking", "settingUp", "cronjob", "scaling"}
      /\ questions' \subseteq [agent : Agents, content : Contents, stale : BOOLEAN]
      /\ EvaluationIsOfTracked' /\ GoodIsSetUp'
  BY <1>1, <1>2, <1>4, FindWorkerStep
<1>6. /\ givenUp' \in BOOLEAN /\ (tracked.monitorIsSetup => givenUp')
      /\ entry' \in [Agents -> Contents \cup {None}] /\ running' \in [Agents -> Nat]
  BY <1>1, <1>2, MonitorTypes
<1>7. TypeOKOfContainers'
  BY <1>1, <1>2, <1>4, <1>5, <1>6, FoundKeepsTypes DEF TypeOKOfContainers
<1>8. MonitorsCanBeStopped' /\ EntriesAreRunning'
  BY <1>1, <1>2, <1>7, MonitorsStopped
<1>9. SetUpIsMonitored'
  BY <1>4, <1>5, <1>6 DEF SetUpIsMonitored
<1> QED BY <1>5, <1>7, <1>8, <1>9 DEF ContainersInv

\* The PackageContainer is given to the Worker that has answered, if it has none.
Given(q) ==
  IF tracked.currentWorker = None /\ q.content \in Supports[q.agent]
  THEN [tracked EXCEPT !.currentWorker = q.agent] ELSE tracked

LEMMA GivenFacts ==
  ASSUME ContainersInv, NEW q \in questions, q.agent \in connected
  PROVE  /\ Given(q) \in Tracked /\ tracked \in Tracked
         /\ Given(q).content = tracked.content
         /\ Given(q).monitorIsSetup = tracked.monitorIsSetup
         /\ Given(q).isUpdated = tracked.isUpdated
         /\ Given(q).currentWorker = tracked.currentWorker \/ tracked.currentWorker = None
<1>1. TypeOKOfContainers /\ EvaluationIsOfTracked /\ q.agent \in Agents
  BY ContainersParts
<1>2. tracked \in Tracked
  BY <1>1, TrackedFacts DEF EvaluationIsOfTracked
<1> QED BY <1>1, <1>2 DEF Given, Tracked

(* The outcomes of an answer. *)
LEMMA AnswerOutcome ==
  ASSUME NEW q \in questions, Answer(q)
  PROVE  /\ q.agent \in connected /\ questions' = questions \ {q}
         /\ UNCHANGED <<wanted, hasBeenUpdated, restarted, badStatus, entry, running, late, astray, givenUp,
                        connected, updates, mishaps>>
         /\ refused' = refused \/ refused' \in BOOLEAN
         /\ \/ tracked' = Given(q) /\ UNCHANGED <<status, step>>
            \/ ~q.stale /\ tracked' = Given(q) /\ Bad /\ \A other \in questions' : other.stale
            \/ ~q.stale /\ UseWorker(Given(q)) /\ \A other \in questions' : other.stale
<1> DEFINE t == [tracked EXCEPT !.currentWorker = q.agent]
<1>1. /\ q.agent \in connected /\ questions' = questions \ {q}
      /\ UNCHANGED <<wanted, hasBeenUpdated, restarted, badStatus, connected, updates, mishaps>>
  BY DEF Answer
<1>2. UNCHANGED <<entry, running, late, astray, givenUp>>
  BY DEF Answer, monitorVars
<1>3. CASE q.stale
  <2>1. CASE tracked.currentWorker = None /\ q.content \in Supports[q.agent]
    <3>1. tracked' = t
      BY <1>3, <2>1 DEF Answer
    <3> QED BY <1>1, <1>2, <1>3, <2>1, <3>1 DEF Given, Answer
  <2>2. CASE ~(tracked.currentWorker = None /\ q.content \in Supports[q.agent])
    <3>1. tracked' = tracked
      BY <1>3, <2>2 DEF Answer
    <3> QED BY <1>1, <1>2, <1>3, <2>2, <3>1 DEF Given, Answer
  <2> QED BY <2>1, <2>2
<1>4. CASE ~q.stale
  <2>1. refused' = (refused \/ (tracked.currentWorker = None /\ ~(q.content \in Supports[q.agent])))
    BY <1>4 DEF Answer
  <2>2. refused' \in BOOLEAN
    BY <2>1
  <2>3. CASE tracked.currentWorker = None /\ q.content \in Supports[q.agent]
    <3>1. CASE \E other \in questions' : ~other.stale
      <4>1. tracked' = t /\ UNCHANGED <<status, step>>
        BY <1>4, <2>3, <3>1 DEF Answer
      <4> QED BY <1>1, <1>2, <2>2, <2>3, <4>1 DEF Given
    <3>2. CASE ~ \E other \in questions' : ~other.stale
      <4>1. (tracked' = t /\ Bad) \/ UseWorker(t)
        BY <1>4, <2>3, <3>2 DEF Answer
      <4> QED BY <1>1, <1>2, <1>4, <2>2, <2>3, <3>2, <4>1 DEF Given
    <3> QED BY <3>1, <3>2
  <2>4. CASE ~(tracked.currentWorker = None /\ q.content \in Supports[q.agent])
    <3>1. CASE \E other \in questions' : ~other.stale
      <4>1. tracked' = tracked /\ UNCHANGED <<status, step>>
        BY <1>4, <2>4, <3>1 DEF Answer
      <4> QED BY <1>1, <1>2, <2>2, <2>4, <4>1 DEF Given
    <3>2. CASE ~ \E other \in questions' : ~other.stale
      <4>1. (tracked' = tracked /\ Bad) \/ UseWorker(tracked)
        BY <1>4, <2>4, <3>2 DEF Answer
      <4> QED BY <1>1, <1>2, <1>4, <2>2, <2>4, <3>2, <4>1 DEF Given
    <3> QED BY <3>1, <3>2
  <2> QED BY <2>3, <2>4
<1> QED BY <1>3, <1>4

LEMMA AnswerStep ==
  ASSUME ContainersInv, NEW q \in questions, Answer(q)
  PROVE  ContainersInv'
<1> DEFINE t == Given(q)
<1>1. /\ TypeOKOfContainers /\ EvaluationIsOfTracked /\ SetUpIsMonitored /\ GoodIsSetUp
      /\ q.agent \in connected
  BY ContainersParts, AnswerOutcome
<1>2. /\ t \in Tracked /\ tracked \in Tracked /\ t # Untracked
      /\ t.content = tracked.content /\ t.monitorIsSetup = tracked.monitorIsSetup
      /\ t.isUpdated = tracked.isUpdated
      /\ t.currentWorker = tracked.currentWorker \/ tracked.currentWorker = None
  BY <1>1, GivenFacts, UntrackedFacts
<1>3. /\ questions' = questions \ {q}
      /\ UNCHANGED <<wanted, hasBeenUpdated, restarted, badStatus, entry, running, late, astray, givenUp,
                     connected, updates, mishaps>>
      /\ refused' \in BOOLEAN
  BY <1>1, AnswerOutcome DEF TypeOKOfContainers
<1> HIDE DEF t
<1>4. /\ tracked' = t
      /\ step' \in {"off", "idle", "removing", "evaluating", "resetting", "asking", "settingUp", "cronjob",
                    "scaling", "requesting"}
      /\ status' \in {"none", "UNKNOWN", "GOOD", "BAD"}
      /\ EvaluationIsOfTracked' /\ GoodIsSetUp'
  <2>1. CASE tracked' = t /\ UNCHANGED <<status, step>>
    <3>1. EvaluationIsOfTracked' /\ GoodIsSetUp'
      BY <1>1, <1>2, <1>3, <2>1 DEF EvaluationIsOfTracked, GoodIsSetUp
    <3> QED BY <1>1, <2>1, <3>1 DEF TypeOKOfContainers
  <2>2. CASE ~q.stale /\ tracked' = t /\ Used(t) /\ \A other \in questions' : other.stale
    <3>1. step = "asking" /\ ~t.isUpdated
      BY <1>1, <1>2, <2>2 DEF EvaluationIsOfTracked
    <3> QED BY <1>2, <1>3, <2>2, <3>1, UsedKeepsInv
  <2> QED BY <2>1, <2>2, AnswerOutcome, UseWorkerStep DEF t, Used
<1>5. TypeOKOfContainers'
  BY <1>1, <1>2, <1>3, <1>4 DEF TypeOKOfContainers
<1>6. MonitorsCanBeStopped' /\ EntriesAreRunning'
  BY <1>2, <1>3, <1>4, <1>5, MonitorsStay
<1>7. SetUpIsMonitored'
  BY <1>1, <1>2, <1>3, <1>4 DEF SetUpIsMonitored
<1> QED BY <1>4, <1>5, <1>6, <1>7 DEF ContainersInv

LEMMA QuestionFailsStep ==
  ASSUME ContainersInv, NEW q \in questions, QuestionFails(q)
  PROVE  ContainersInv'
<1> USE DEF monitorVars
<1>1. /\ TypeOKOfContainers /\ EvaluationIsOfTracked /\ GoodIsSetUp
      /\ q.agent \in Agents
  BY ContainersParts DEF TypeOKOfContainers
<1>2. UNCHANGED <<wanted, hasBeenUpdated, restarted, tracked, refused, badStatus, entry, running, late,
                  astray, givenUp, connected, updates>>
  BY DEF QuestionFails
<1>3. mishaps' \in 0 .. MaxMishaps
  BY <1>1, MonitorTypes DEF QuestionFails
<1>4. CASE q.stale
  <2>1. questions' = questions \ {q} /\ UNCHANGED <<status, step>>
    BY <1>4 DEF QuestionFails
  <2>2. TypeOKOfContainers'
    BY <1>1, <1>2, <1>3, <2>1 DEF TypeOKOfContainers
  <2>3. EvaluationIsOfTracked' /\ GoodIsSetUp'
    BY <1>1, <1>2, <2>1 DEF EvaluationIsOfTracked, GoodIsSetUp
  <2> QED BY <1>2, <2>2, <2>3, ManagerStep
<1>5. CASE ~q.stale
  <2>1. /\ questions' = {[other EXCEPT !.stale = TRUE] : other \in questions \ {q}}
        /\ status' = "BAD" /\ step' = "scaling"
    BY <1>5 DEF QuestionFails, Bad
  <2>2. /\ questions' \subseteq [agent : Agents, content : Contents, stale : BOOLEAN]
        /\ \A other \in questions' : other.stale
        /\ questions = {} => questions' = {}
    <3>1. ASSUME NEW other \in questions
          PROVE  /\ [other EXCEPT !.stale = TRUE] \in [agent : Agents, content : Contents, stale : BOOLEAN]
                 /\ [other EXCEPT !.stale = TRUE].stale = TRUE
      <4>1. other \in [agent : Agents, content : Contents, stale : BOOLEAN]
        BY <1>1 DEF TypeOKOfContainers
      <4> QED BY <4>1
    <3>2. questions = {} => questions' = {}
      BY <2>1
    <3>3. questions' \subseteq [agent : Agents, content : Contents, stale : BOOLEAN]
      BY <2>1, <3>1
    <3>4. \A other \in questions' : other.stale
      BY <2>1, <3>1
    <3> QED BY <3>2, <3>3, <3>4
  <2>3. TypeOKOfContainers'
    BY <1>1, <1>2, <1>3, <2>1, <2>2 DEF TypeOKOfContainers
  <2>4. EvaluationIsOfTracked' /\ GoodIsSetUp'
    BY <1>1, <1>2, <2>1, <2>2 DEF EvaluationIsOfTracked, GoodIsSetUp
  <2> QED BY <1>2, <2>3, <2>4, ManagerStep
<1> QED BY <1>4, <1>5

LEMMA SetUpStep ==
  ASSUME ContainersInv, SetUp
  PROVE  ContainersInv'
<1> DEFINE v == tracked.currentWorker
<1>1. /\ TypeOKOfContainers /\ EvaluationIsOfTracked /\ GoodIsSetUp /\ step = "settingUp"
      /\ v \in Agents /\ tracked \in Tracked
  BY ContainersParts DEF SetUp
<1>2. /\ StartMonitor(v, tracked.content)
      /\ astray' = IF entry[v] # None THEN astray \cup {v} ELSE astray
      /\ tracked' = [tracked EXCEPT !.monitorIsSetup = TRUE]
      /\ RunsCronjob
      /\ UNCHANGED <<wanted, hasBeenUpdated, restarted, questions, refused, badStatus, late, givenUp,
                     connected, updates, mishaps>>
  BY DEF SetUp
<1>3. /\ tracked' \in Tracked /\ tracked'.monitorIsSetup = TRUE /\ tracked'.content = tracked.content
      /\ tracked'.currentWorker = v /\ tracked'.isUpdated = tracked.isUpdated
      /\ tracked.content \in Contents
  BY <1>1, <1>2 DEF Tracked
<1>4. entry' \in [Agents -> Contents \cup {None}] /\ running' \in [Agents -> Nat]
  BY <1>1, <1>2, <1>3, MonitorTypes
<1>5. \/ step' = "cronjob" /\ status' = status
      \/ step' = "scaling" /\ status' \in {status, "GOOD"}
  BY <1>2 DEF RunsCronjob, AllGood
<1>6. TypeOKOfContainers'
  BY <1>1, <1>2, <1>3, <1>4, <1>5 DEF TypeOKOfContainers
<1>7. MonitorsCanBeStopped' /\ EntriesAreRunning' /\ entry'[v] = tracked.content
  BY <1>1, <1>2, <1>3, <1>6, MonitorsStarted
<1>8. SetUpIsMonitored'
  BY <1>1, <1>3, <1>7, ContainersParts DEF SetUpIsMonitored
<1>9. ~tracked.isUpdated /\ tracked' # Untracked
  BY <1>1, <1>3, UntrackedFacts DEF EvaluationIsOfTracked
<1>10. EvaluationIsOfTracked' /\ GoodIsSetUp'
  <2>1. \A q \in questions : q.stale
    BY <1>1 DEF EvaluationIsOfTracked
  <2>2. EvaluationIsOfTracked'
    BY <1>1, <1>2, <1>3, <1>5, <1>9, <2>1, ContainersParts DEF EvaluationIsOfTracked
  <2> QED BY <2>2, <1>3, <1>9 DEF GoodIsSetUp
<1> QED BY <1>6, <1>7, <1>8, <1>10 DEF ContainersInv

LEMMA SetUpRefusedStep ==
  ASSUME ContainersInv, SetUpRefused
  PROVE  ContainersInv'
<1> USE DEF monitorVars
<1>1. /\ TypeOKOfContainers /\ EvaluationIsOfTracked /\ step = "settingUp"
  BY ContainersParts DEF SetUpRefused
<1>2. /\ UNCHANGED <<wanted, hasBeenUpdated, restarted, tracked, questions, refused, entry, running, late,
                     astray, givenUp, connected, updates>>
      /\ badStatus' = TRUE /\ status' = "BAD" /\ step' \in {"cronjob", "scaling"}
  BY DEF SetUpRefused
<1>3. mishaps' \in 0 .. MaxMishaps
  BY <1>1, MonitorTypes DEF SetUpRefused, TypeOKOfContainers
<1>4. TypeOKOfContainers'
  BY <1>1, <1>2, <1>3 DEF TypeOKOfContainers
<1>5. EvaluationIsOfTracked' /\ GoodIsSetUp'
  BY <1>1, <1>2 DEF EvaluationIsOfTracked, GoodIsSetUp
<1> QED BY <1>2, <1>4, <1>5, ManagerStep

LEMMA SetUpFailsStep ==
  ASSUME ContainersInv, SetUpFails
  PROVE  ContainersInv'
<1> DEFINE v == tracked.currentWorker
<1>1. /\ TypeOKOfContainers /\ EvaluationIsOfTracked /\ SetUpIsMonitored /\ step = "settingUp"
      /\ v \in Agents /\ tracked \in Tracked /\ tracked.content \in Contents
  BY ContainersParts DEF SetUpFails, Tracked
<1>2. /\ UNCHANGED <<wanted, hasBeenUpdated, restarted, tracked, questions, refused, badStatus,
                     connected, updates>>
      /\ status' = "BAD" /\ step' = "scaling"
  BY DEF SetUpFails, Bad
<1>3. mishaps' \in 0 .. MaxMishaps
  BY <1>1, MonitorTypes DEF SetUpFails
<1>4. EvaluationIsOfTracked' /\ GoodIsSetUp'
  BY <1>1, <1>2 DEF EvaluationIsOfTracked, GoodIsSetUp
<1>5. CASE UNCHANGED monitorVars
  <2>1. UNCHANGED <<entry, running, late, astray, givenUp>>
    BY <1>5 DEF monitorVars
  <2>2. TypeOKOfContainers'
    BY <1>1, <1>2, <1>3, <2>1 DEF TypeOKOfContainers
  <2> QED BY <1>2, <1>4, <2>1, <2>2, ManagerStep
<1>6. CASE /\ StartMonitor(v, tracked.content)
           /\ astray' = IF entry[v] # None THEN astray \cup {v} ELSE astray
           /\ UNCHANGED <<late, givenUp>>
  <2>1. entry' \in [Agents -> Contents \cup {None}] /\ running' \in [Agents -> Nat]
    BY <1>1, <1>6, MonitorTypes
  <2>2. TypeOKOfContainers'
    BY <1>1, <1>2, <1>3, <1>6, <2>1 DEF TypeOKOfContainers
  <2>3. MonitorsCanBeStopped' /\ EntriesAreRunning' /\ entry'[v] = tracked.content
    BY <1>1, <1>2, <1>6, <2>2, MonitorsStarted
  <2>4. SetUpIsMonitored'
    BY <1>1, <1>2, <2>3, ContainersParts DEF SetUpIsMonitored
  <2> QED BY <1>4, <2>2, <2>3, <2>4 DEF ContainersInv
<1>7. CASE /\ late' = [late EXCEPT ![v] = tracked.content]
           /\ UNCHANGED <<entry, running, astray, givenUp>>
  <2>1. late' \in [Agents -> Contents \cup {None}]
    BY <1>1, <1>7 DEF TypeOKOfContainers
  <2>2. TypeOKOfContainers'
    BY <1>1, <1>2, <1>3, <1>7, <2>1 DEF TypeOKOfContainers
  <2> QED BY <1>2, <1>4, <1>7, <2>2, ManagerStep
<1> QED BY <1>5, <1>6, <1>7 DEF SetUpFails

LEMMA LateSetUpStep ==
  ASSUME ContainersInv, NEW w \in Agents, LateSetUp(w)
  PROVE  ContainersInv'
<1>1. /\ TypeOKOfContainers /\ EvaluationIsOfTracked /\ SetUpIsMonitored /\ GoodIsSetUp
      /\ late[w] \in Contents
  BY ContainersParts DEF LateSetUp, TypeOKOfContainers
<1>2. /\ StartMonitor(w, late[w]) /\ late' = [late EXCEPT ![w] = None] /\ astray' = astray \cup {w}
      /\ UNCHANGED <<wanted, hasBeenUpdated, restarted, tracked, status, step, questions, refused,
                     badStatus, givenUp, connected, updates, mishaps>>
  BY DEF LateSetUp, managerVars
<1>3. /\ entry' \in [Agents -> Contents \cup {None}] /\ running' \in [Agents -> Nat]
      /\ late' \in [Agents -> Contents \cup {None}]
  BY <1>1, <1>2, MonitorTypes DEF TypeOKOfContainers
<1>4. TypeOKOfContainers'
  BY <1>1, <1>2, <1>3 DEF TypeOKOfContainers
<1>5. MonitorsCanBeStopped' /\ EntriesAreRunning'
  BY <1>1, <1>2, <1>4, MonitorsStarted
<1>6. \A x \in Agents : x # w => entry'[x] = entry[x]
  BY <1>1, <1>2 DEF StartMonitor, TypeOKOfContainers
<1>7. SetUpIsMonitored'
  BY <1>1, <1>2, <1>6, ContainersParts DEF SetUpIsMonitored
<1>8. EvaluationIsOfTracked' /\ GoodIsSetUp'
  BY <1>1, <1>2 DEF EvaluationIsOfTracked, GoodIsSetUp
<1> QED BY <1>4, <1>5, <1>7, <1>8 DEF ContainersInv

LEMMA CronjobStep ==
  ASSUME ContainersInv, CronjobDone \/ CronjobFails
  PROVE  ContainersInv'
<1> USE DEF monitorVars
<1>1. /\ TypeOKOfContainers /\ EvaluationIsOfTracked /\ GoodIsSetUp /\ step = "cronjob"
      /\ tracked.currentWorker \in Agents
  BY ContainersParts DEF CronjobDone, CronjobFails
<1>2. /\ UNCHANGED <<wanted, hasBeenUpdated, restarted, tracked, questions, refused, badStatus, entry,
                     running, late, astray, givenUp, connected, updates>>
      /\ step' = "scaling"
      /\ status' = "BAD" \/ status' = IF badStatus THEN status ELSE "GOOD"
  BY DEF CronjobDone, CronjobFails, AllGood, Bad
<1>3. mishaps' \in 0 .. MaxMishaps
  <2>1. CronjobDone => mishaps' = mishaps
    BY DEF CronjobDone
  <2> QED BY <1>1, <2>1, MonitorTypes DEF CronjobFails, TypeOKOfContainers
<1>4. status' \in {"BAD", "GOOD", status}
  BY <1>2
<1>5. TypeOKOfContainers'
  BY <1>1, <1>2, <1>3, <1>4 DEF TypeOKOfContainers
<1>6. EvaluationIsOfTracked' /\ GoodIsSetUp'
  BY <1>1, <1>2 DEF EvaluationIsOfTracked, GoodIsSetUp
<1> QED BY <1>2, <1>5, <1>6, ManagerStep

LEMMA EndRunStep ==
  ASSUME ContainersInv, NoRequest \/ RequestResources
  PROVE  ContainersInv'
<1> USE DEF monitorVars
<1>1. /\ TypeOKOfContainers /\ EvaluationIsOfTracked /\ SetUpIsMonitored /\ GoodIsSetUp
  BY ContainersParts
<1>2. PICK next \in {"idle", "requesting"} : EndRun(next)
  BY DEF NoRequest, RequestResources
<1>3. /\ UNCHANGED <<wanted, hasBeenUpdated, restarted, status, questions, refused, entry, running, late,
                     astray, givenUp, connected, updates, mishaps>>
      /\ step = "scaling" /\ step' \in {"idle", "requesting"} /\ badStatus' = FALSE
  BY <1>2 DEF EndRun
<1>4. /\ tracked' \in Tracked \cup {Untracked} /\ (tracked' = Untracked => tracked = Untracked)
      /\ tracked'.content = tracked.content /\ tracked'.currentWorker = tracked.currentWorker
      /\ tracked'.monitorIsSetup = tracked.monitorIsSetup /\ tracked'.isUpdated = tracked.isUpdated
  <2>1. CASE tracked = Untracked
    BY <1>2, <2>1 DEF EndRun
  <2>2. CASE tracked # Untracked
    <3>1. tracked \in Tracked
      BY <1>1, <2>2, TrackedFacts
    <3>2. tracked' = [tracked EXCEPT !.waiting = (tracked.currentWorker = None)]
      BY <1>2, <2>2 DEF EndRun
    <3>3. (tracked.currentWorker = None) \in BOOLEAN
      OBVIOUS
    <3>4. ASSUME NEW b \in BOOLEAN
          PROVE  /\ [tracked EXCEPT !.waiting = b] \in Tracked
                 /\ [tracked EXCEPT !.waiting = b].content = tracked.content
                 /\ [tracked EXCEPT !.waiting = b].currentWorker = tracked.currentWorker
                 /\ [tracked EXCEPT !.waiting = b].monitorIsSetup = tracked.monitorIsSetup
                 /\ [tracked EXCEPT !.waiting = b].isUpdated = tracked.isUpdated
      BY <3>1 DEF Tracked
    <3>5. PICK b \in BOOLEAN : tracked' = [tracked EXCEPT !.waiting = b]
      BY <3>2, <3>3
    <3> QED BY <3>4, <3>5, <2>2, UntrackedFacts
  <2> QED BY <2>1, <2>2
<1>5. TypeOKOfContainers'
  BY <1>1, <1>3, <1>4 DEF TypeOKOfContainers
<1>6. MonitorsCanBeStopped' /\ EntriesAreRunning'
  BY <1>3, <1>4, <1>5, MonitorsStay
<1>7. SetUpIsMonitored' /\ EvaluationIsOfTracked' /\ GoodIsSetUp'
  BY <1>1, <1>3, <1>4 DEF SetUpIsMonitored, EvaluationIsOfTracked, GoodIsSetUp
<1> QED BY <1>5, <1>6, <1>7 DEF ContainersInv

LEMMA RequestAnsweredStep ==
  ASSUME ContainersInv, RequestAnswered
  PROVE  ContainersInv'
<1> USE DEF monitorVars
<1>1. /\ UNCHANGED <<tracked, status, questions, badStatus, entry, running, astray, givenUp>>
      /\ step = "requesting" /\ step' = "idle"
  BY DEF RequestAnswered
<1>2. TypeOKOfContainers'
  BY ContainersParts DEF TypeOKOfContainers, RequestAnswered
<1>3. EvaluationIsOfTracked' /\ GoodIsSetUp'
  BY <1>1, ContainersParts DEF EvaluationIsOfTracked, GoodIsSetUp
<1> QED BY <1>1, <1>2, <1>3, ManagerStep

LEMMA AgentConnectsStep ==
  ASSUME ContainersInv, NEW w \in Agents, AgentConnects(w)
  PROVE  ContainersInv'
<1> USE DEF monitorVars, managerVars
<1>1. UNCHANGED <<tracked, status, step, questions, badStatus, entry, running, astray, givenUp>>
  BY DEF AgentConnects
<1>2. TypeOKOfContainers'
  BY ContainersParts DEF TypeOKOfContainers, AgentConnects
<1>3. EvaluationIsOfTracked' /\ GoodIsSetUp'
  BY <1>1, ContainersParts DEF EvaluationIsOfTracked, GoodIsSetUp
<1> QED BY <1>1, <1>2, <1>3, ManagerStep

(* A Worker leaves, with its monitors or without. *)
LEMMA AgentLeavesStep ==
  ASSUME ContainersInv, NEW w \in Agents, AgentLeaves(w)
  PROVE  ContainersInv'
<1>1. /\ TypeOKOfContainers /\ EvaluationIsOfTracked /\ SetUpIsMonitored /\ GoodIsSetUp
  BY ContainersParts
<1>2. /\ UNCHANGED <<wanted, hasBeenUpdated, restarted, tracked, status, step, questions, refused,
                     badStatus, updates>>
      /\ connected' = connected \ {w}
  BY DEF AgentLeaves, managerVars
<1>3. mishaps' \in 0 .. MaxMishaps
  BY MonitorTypes DEF AgentLeaves
<1>4. EvaluationIsOfTracked' /\ GoodIsSetUp'
  BY <1>1, <1>2 DEF EvaluationIsOfTracked, GoodIsSetUp
<1>5. CASE UNCHANGED monitorVars
  <2>1. UNCHANGED <<entry, running, late, astray, givenUp>>
    BY <1>5 DEF monitorVars
  <2>2. TypeOKOfContainers'
    BY <1>1, <1>2, <1>3, <2>1 DEF TypeOKOfContainers
  <2> QED BY <1>2, <1>4, <2>1, <2>2, ManagerStep
<1>6. CASE /\ entry' = [entry EXCEPT ![w] = None]
           /\ running' = [running EXCEPT ![w] = 0]
           /\ late' = [late EXCEPT ![w] = None]
           /\ astray' = astray \ {w}
           /\ IF tracked # Untracked /\ tracked.currentWorker = w THEN GivesUp ELSE UNCHANGED givenUp
  <2>1. givenUp' \in BOOLEAN /\ (givenUp => givenUp')
    BY <1>1, <1>6, TrackedFacts DEF GivesUp, TypeOKOfContainers
  <2>2. /\ entry' \in [Agents -> Contents \cup {None}] /\ running' \in [Agents -> Nat]
        /\ late' \in [Agents -> Contents \cup {None}]
    BY <1>1, <1>6 DEF TypeOKOfContainers
  <2>3. TypeOKOfContainers'
    BY <1>1, <1>2, <1>3, <1>6, <2>1, <2>2 DEF TypeOKOfContainers
  <2>4. ASSUME NEW x \in Agents
        PROVE  /\ x # w => entry'[x] = entry[x] /\ running'[x] = running[x]
               /\ x = w => entry'[x] = None /\ running'[x] = 0
    BY <1>1, <1>6 DEF TypeOKOfContainers
  <2>5. MonitorsCanBeStopped' /\ EntriesAreRunning'
    <3>1. ASSUME NEW x \in Agents
          PROVE  entry'[x] # None => running'[x] > 0
      BY <2>4, MonitorsOf
    <3>2. ASSUME NEW x \in Agents, x \notin astray'
          PROVE  /\ running'[x] = IF entry'[x] = None THEN 0 ELSE 1
                 /\ running'[x] > 0 => tracked' # Untracked /\ tracked'.currentWorker = x
      <4>1. CASE x = w
        BY <4>1, <2>4
      <4>2. CASE x # w
        <5>1. x \notin astray
          BY <1>6, <3>2, <4>2
        <5>2. None \notin Agents /\ Untracked.currentWorker = None
          BY ContainersParts, UntrackedFacts
        <5> QED BY <1>2, <2>4, <4>2, <5>1, <5>2, MonitorsOf
      <4> QED BY <4>1, <4>2
    <3> QED BY <3>1, <3>2 DEF MonitorsCanBeStopped, EntriesAreRunning
  <2>6. SetUpIsMonitored'
    <3>1. CASE tracked.currentWorker = w
      <4>1. w # None
        BY ContainersParts
      <4>2. GivesUp
        BY <1>1, <1>6, <3>1, <4>1, TrackedFacts
      <4> QED BY <1>2, <4>2, MonitorTypes DEF SetUpIsMonitored
    <3>2. CASE tracked.currentWorker # w
      BY <1>1, <1>2, <1>6, <2>1, <2>4, <3>2, ContainersParts DEF SetUpIsMonitored
    <3> QED BY <3>1, <3>2
  <2> QED BY <1>4, <2>3, <2>5, <2>6 DEF ContainersInv
<1> QED BY <1>5, <1>6 DEF AgentLeaves

LEMMA NextContainersStep ==
  ASSUME ContainersInv, NextContainers
  PROVE  ContainersInv'
<1>1. CASE \E c \in Contents \cup {None} : setPackageContainers(c) \/ restartPackageContainers
  BY <1>1, ReceivedStep
<1>2. CASE Run
  BY <1>2, UpdateStep, NothingReceivedStep, RemovedStep, EvaluateStep, ResetStep, AnswerStep,
     QuestionFailsStep, SetUpStep, SetUpRefusedStep, SetUpFailsStep, CronjobStep, EndRunStep,
     RequestAnsweredStep, StopFailsStep DEF Run, RemovalFails, ResetFails, Bad
<1>3. CASE \E w \in Agents : AgentConnects(w) \/ AgentLeaves(w) \/ LateSetUp(w)
  BY <1>3, AgentConnectsStep, AgentLeavesStep, LateSetUpStep
<1> QED BY <1>1, <1>2, <1>3 DEF NextContainers

LEMMA ContainersUnchanged ==
  ASSUME ContainersInv, UNCHANGED containerVars
  PROVE  ContainersInv'
<1>1. UNCHANGED <<wanted, hasBeenUpdated, restarted, tracked, status, step, questions, refused, badStatus,
                  entry, running, late, astray, givenUp, connected, updates, mishaps>>
  BY DEF containerVars, managerVars, monitorVars
<1> QED BY <1>1 DEF ContainersInv, TypeOKOfContainers, MonitorsCanBeStopped, EvaluationIsOfTracked,
                    EntriesAreRunning, SetUpIsMonitored, GoodIsSetUp

LEMMA ContainersInit == Init => ContainersInv
<1> SUFFICES ASSUME Init
             PROVE  ContainersInv
  OBVIOUS
<1>1. /\ NothingTracked /\ wanted \in Contents \cup {None}
      /\ step \in {"idle", "off"} /\ connected \subseteq Agents
  BY DEF Init, InitContainers, NoContainers
<1>2. TypeOKOfContainers
  <2>1. (wanted # None) \in BOOLEAN
    OBVIOUS
  <2>2. hasBeenUpdated \in BOOLEAN
    BY <1>1, <2>1 DEF NothingTracked
  <2>3. /\ entry = [w \in Agents |-> None] /\ late = [w \in Agents |-> None]
        /\ running = [w \in Agents |-> 0]
    BY <1>1 DEF NothingTracked
  <2>4. /\ entry \in [Agents -> Contents \cup {None}] /\ late \in [Agents -> Contents \cup {None}]
        /\ running \in [Agents -> Nat]
    BY <2>3
  <2>5. updates \in 0 .. MaxUpdates /\ mishaps \in 0 .. MaxMishaps
    BY <1>1, ContainersAssumption DEF NothingTracked
  <2> QED BY <1>1, <2>2, <2>4, <2>5 DEF NothingTracked, TypeOKOfContainers
<1>3. MonitorsCanBeStopped /\ EntriesAreRunning
  BY <1>1 DEF NothingTracked, MonitorsCanBeStopped, EntriesAreRunning
<1>4. SetUpIsMonitored /\ EvaluationIsOfTracked /\ GoodIsSetUp
  BY <1>1, UntrackedFacts DEF NothingTracked, SetUpIsMonitored, EvaluationIsOfTracked, GoodIsSetUp
<1> QED BY <1>2, <1>3, <1>4 DEF ContainersInv

(* What is GOOD is monitored: because it has been set up, and that has not been undone. *)
LEMMA GoodFollows == ContainersInv => GoodIsMonitored
<1> SUFFICES ASSUME ContainersInv, status = "GOOD", tracked.content \in Monitored,
                    tracked.currentWorker \notin astray, ~givenUp
             PROVE  entry[tracked.currentWorker] = tracked.content
  BY DEF GoodIsMonitored
<1> QED BY ContainersParts DEF GoodIsSetUp, SetUpIsMonitored

-----------------------------------------------------------------------------
(* FolderMonitor *)

(* What an event about the file makes of the FileWatcher. *)
LEMMA FileEventTypes ==
  ASSUME TypeOKOfFolder, onFileCreatedUpdated \/ onFileDeleted
  PROVE  /\ fileErrors' \in 0 .. MaxErrors
         /\ stable' \in FileVersions \cup {Nothing} /\ strays' \subseteq FileVersions
         /\ seen' \in FileVersions \cup {Unread, Unseen}
         /\ sendTimer' \in BOOLEAN /\ runAgain' \in BOOLEAN /\ badFile' \in BOOLEAN
         /\ excused' \in BOOLEAN
<1> USE FolderAssumption DEF TypeOKOfFolder, FileVersions, NoFile
<1>1. CASE OnChanged /\ UNCHANGED <<fileErrors, stable, strays>>
  BY <1>1 DEF OnChanged, triggerSendUpdate
<1>2. CASE /\ file # NoFile /\ SetStableTimer(file)
           /\ UNCHANGED <<fileErrors, seen, sendTimer, runAgain, badFile, excused>>
  BY <1>2 DEF SetStableTimer
<1>3. CASE UNCHANGED <<fileErrors, stable, strays, seen, sendTimer, runAgain, badFile, excused>>
  BY <1>3
<1>4. CASE StatFails
  BY <1>4 DEF StatFails, FolderError
<1>5. CASE /\ OnDeleted /\ stable' = Nothing /\ UNCHANGED fileErrors
           /\ strays' = IF stable = Nothing THEN strays ELSE strays \cup {stable}
  BY <1>5 DEF OnDeleted, triggerSendUpdate
<1> QED BY <1>1, <1>2, <1>3, <1>4, <1>5 DEF onFileCreatedUpdated, onFileDeleted

(* The timers of the FileWatcher. *)
LEMMA TimerTypes ==
  ASSUME TypeOKOfFolder, StableTimer \/ StrayTimer
  PROVE  TypeOKOfFolder'
<1> USE FolderAssumption DEF FileVersions, NoFile
<1>1. PICK size \in FileVersions :
        /\ StableTimerFires(size) \/ TimerFails
        /\ stable' \in {Nothing, stable} \cup (IF file = NoFile THEN {} ELSE {file})
        /\ strays' \in {strays, strays \ {size}}
  <2>1. CASE StableTimer
    BY <2>1 DEF StableTimer, TypeOKOfFolder
  <2>2. CASE StrayTimer
    BY <2>2 DEF StrayTimer, TypeOKOfFolder
  <2> QED BY <2>1, <2>2
<1>2. /\ UNCHANGED <<file, written, phase, waitsForStable, events, sending, stat, message, reported>>
      /\ seen' \in {seen, Unread}
  BY <1>1 DEF StableTimerFires, TimerFails, OnChanged, sendVars
<1>3. /\ sendTimer' \in BOOLEAN /\ runAgain' \in BOOLEAN /\ badFile' \in BOOLEAN /\ excused' \in BOOLEAN
  <2>1. sendTimer \in BOOLEAN /\ runAgain \in BOOLEAN /\ badFile \in BOOLEAN /\ excused \in BOOLEAN
    BY DEF TypeOKOfFolder
  <2> QED BY <1>1, <2>1 DEF StableTimerFires, TimerFails, OnChanged, triggerSendUpdate
<1>4. fileErrors' \in 0 .. MaxErrors
  BY <1>1 DEF StableTimerFires, TimerFails, FolderError, TypeOKOfFolder
<1>5. stable' \in FileVersions \cup {Nothing} /\ strays' \subseteq FileVersions
  BY <1>1 DEF TypeOKOfFolder
<1>6. file' \in 0 .. MaxVersions /\ written' \in 0 .. MaxVersions /\ waitsForStable' \in BOOLEAN
  BY <1>2 DEF TypeOKOfFolder
<1> QED BY <1>2, <1>3, <1>4, <1>5, <1>6 DEF TypeOKOfFolder

LEMMA FolderUnchanged ==
  ASSUME TypeOKOfFolder, UNCHANGED folderVars
  PROVE  TypeOKOfFolder'
BY DEF TypeOKOfFolder, folderVars, watcherVars, sendVars

LEMMA NextFolderStep ==
  ASSUME TypeOKOfFolder, NextFolder
  PROVE  TypeOKOfFolder'
<1> USE FolderAssumption DEF TypeOKOfFolder, NoFile, FileVersions, watcherVars, sendVars
<1>1. CASE FileIsWritten
  BY <1>1 DEF FileIsWritten, Notify
<1>2. CASE FileIsDeleted
  BY <1>2 DEF FileIsDeleted, Notify
<1>3. CASE List
  BY <1>3, FileEventTypes DEF List
<1>4. CASE Subscribe
  BY <1>4 DEF Subscribe, triggerSendUpdate
<1>5. CASE onFileEvents
  BY <1>5, FileEventTypes DEF onFileEvents
<1>6. CASE StableTimer \/ StrayTimer
  BY <1>6, TimerTypes
<1>7. CASE SendTimerFires
  <2>1. sending' \in {"no", "stat", "report"} /\ message' \in 0 .. MaxVersions
    BY <1>7 DEF SendTimerFires
  <2>2. sendTimer' \in BOOLEAN /\ runAgain' \in BOOLEAN /\ badFile' \in BOOLEAN /\ excused' \in BOOLEAN
    BY <1>7 DEF SendTimerFires
  <2> QED BY <1>7, <2>1, <2>2 DEF SendTimerFires
<1>8. CASE FileIsRead
  <2>1. stat' \in (0 .. MaxVersions) \cup {Nothing} /\ fileErrors' \in 0 .. MaxErrors
    BY <1>8 DEF FileIsRead, FolderError
  <2>2. sendTimer' \in BOOLEAN /\ runAgain' \in BOOLEAN /\ badFile' \in BOOLEAN /\ excused' \in BOOLEAN
    BY <1>8 DEF FileIsRead
  <2> QED BY <1>8, <2>1, <2>2 DEF FileIsRead
<1>9. CASE FileHasBeenRead
  <2>1. /\ stat' = Nothing /\ message' \in 0 .. MaxVersions /\ sending' = "report"
        /\ seen' \in FileVersions \cup {Unread, Unseen}
    BY <1>9 DEF FileHasBeenRead
  <2>2. sendTimer' \in BOOLEAN /\ runAgain' \in BOOLEAN /\ badFile' \in BOOLEAN /\ excused' \in BOOLEAN
    BY <1>9 DEF FileHasBeenRead
  <2> QED BY <1>9, <2>1, <2>2 DEF FileHasBeenRead
<1>10. CASE Reported
  BY <1>10 DEF Reported, ReportIsOver, triggerSendUpdate
<1>11. CASE ReportFails
  <2>1. reported' \in 0 .. MaxVersions /\ fileErrors' \in 0 .. MaxErrors
    BY <1>11 DEF ReportFails, ReportIsOver, FolderError
  <2>2. sendTimer' \in BOOLEAN /\ runAgain' \in BOOLEAN /\ badFile' \in BOOLEAN /\ excused' \in BOOLEAN
    BY <1>11 DEF ReportFails, ReportIsOver, triggerSendUpdate
  <2> QED BY <1>11, <2>1, <2>2 DEF ReportFails, ReportIsOver
<1>12. CASE stop
  BY <1>12 DEF stop
<1> QED BY <1>1, <1>2, <1>3, <1>4, <1>5, <1>6, <1>7, <1>8, <1>9, <1>10, <1>11, <1>12
        DEF NextFolder, Works

LEMMA FolderInit == Init => TypeOKOfFolder
<1> SUFFICES ASSUME Init
             PROVE  TypeOKOfFolder
  OBVIOUS
<1>1. /\ file \in {NoFile, 1} /\ phase \in {"off", "listing"} /\ waitsForStable \in BOOLEAN
      /\ NothingSeen
  BY DEF Init, InitFolder, NoFolder
<1>2. /\ file \in 0 .. MaxVersions /\ written \in 0 .. MaxVersions /\ fileErrors \in 0 .. MaxErrors
      /\ message \in 0 .. MaxVersions /\ reported \in 0 .. MaxVersions
  BY <1>1, FolderAssumption DEF NothingSeen, NoFile
<1>3. events = <<>> /\ events \in Seq({"update", "delete"})
  BY <1>1 DEF NothingSeen
<1>4. stable = Nothing /\ strays = {} /\ seen = Unseen /\ stat = Nothing /\ sending = "no"
  BY <1>1 DEF NothingSeen
<1>5. sendTimer = FALSE /\ runAgain = FALSE /\ badFile = FALSE /\ excused = FALSE
  BY <1>1 DEF NothingSeen
<1> QED BY <1>1, <1>2, <1>3, <1>4, <1>5 DEF TypeOKOfFolder

-----------------------------------------------------------------------------
(* The theorems. *)

\* A step of one of the three, or of none.
LEMMA NextSteps ==
  ASSUME [Next]_vars
  PROVE  /\ NextAgent \/ UNCHANGED agentVars
         /\ NextContainers \/ UNCHANGED containerVars
         /\ NextFolder \/ UNCHANGED folderVars
<1>1. CASE Next
  BY <1>1 DEF Next, agentVars, containerVars, folderVars
<1>2. CASE UNCHANGED vars
  BY <1>2 DEF vars
<1> QED BY <1>1, <1>2

LEMMA AgentInvHolds == Spec => []AgentInv
<1>1. ASSUME AgentInv, [Next]_vars
      PROVE  AgentInv'
  BY <1>1, NextSteps, NextAgentStep, AgentUnchanged
<1> QED BY <1>1, AgentInit, PTL DEF Spec

\* What an ExpectationManager takes for monitored is monitored, for what the PackageContainer
\* is now, and every monitor that runs can be stopped by its Worker - unless it was set up
\* twice, after the call for it had been given up, or on a Worker that was disconnected; and
\* every variable has the values the code can give it.
THEOREM MonitorsAreKnown == Spec => []MonitorsInv
<1>1. ASSUME ContainersInv /\ TypeOKOfFolder, [Next]_vars
      PROVE  (ContainersInv /\ TypeOKOfFolder)'
  BY <1>1, NextSteps, NextContainersStep, ContainersUnchanged, NextFolderStep, FolderUnchanged
<1>2. AgentInv /\ ContainersInv /\ TypeOKOfFolder => MonitorsInv
  BY GoodFollows DEF AgentInv, ContainersInv, MonitorsInv
<1> QED BY <1>1, <1>2, AgentInvHolds, ContainersInit, FolderInit, PTL DEF Spec

\* A Worker only asks to be stopped when it has no job, or by force when something has failed
\* in each of the last FailurePeriodLimit periods: the watch on a job is quicker than the one
\* on the Worker, for any Timeout up to SpinDownTime.
THEOREM AskingHasAReason == Spec => AsksForAReason
<1>1. ASSUME AgentInv, [Next]_vars
      PROVE  [AskedForAReason]_agentVars
  BY <1>1, NextSteps, NextAgentStep
<1> QED BY <1>1, AgentInvHolds, PTL DEF Spec, AsksForAReason, AskedForAReason

\* Once the manager has been told that a job is done or has failed, or the job has been
\* cancelled or given up, it is told nothing more about it.
THEOREM TheEndIsTheEnd == Spec => NothingAfterTheEnd
<1>1. ASSUME AgentInv, [Next]_vars
      PROVE  [NothingTold]_agentVars
  BY <1>1, NextSteps, NextAgentStep
<1> QED BY <1>1, AgentInvHolds, PTL DEF Spec, NothingAfterTheEnd, NothingTold
=============================================================================
