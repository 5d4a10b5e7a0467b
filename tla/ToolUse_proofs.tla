--------------------------- MODULE ToolUse_proofs ---------------------------
(***************************************************************************)
(* Proofs about ToolUse.  Of the tools: what a promise resolves with is    *)
(* whole, what it leaves behind has ended, and nothing starts after a      *)
(* cancellation.  Of a rendering: its commands are executed in order, and  *)
(* all of them before its end.                                             *)
(***************************************************************************)
EXTENDS ToolUse, SequenceTheorems, WellFoundedInduction, TLAPS

-----------------------------------------------------------------------------
(* The tools *)

LEMMA ToolOfProbe ==
  ASSUME tool \in {"scanWithFFProbe", "scanFieldOrder", "scanLoudness"}
  PROVE  /\ Tool.input /\ Tool.reads /\ Tool.after = <<>>
         /\ Tool.cancel = {"kill", "reject"}
<1>1. CASE tool = "scanWithFFProbe"
  BY <1>1 DEF Tool, scanWithFFProbe
<1>2. CASE tool = "scanFieldOrder"
  BY <1>2 DEF Tool, scanFieldOrder, scanWithFFProbe
<1>3. CASE tool = "scanLoudness"
  BY <1>3 DEF Tool, scanLoudnessStream, scanWithFFProbe
<1> QED BY <1>1, <1>2, <1>3

LEMMA ToolOfScan ==
  ASSUME tool \in Scans
  PROVE  /\ Tool.input /\ ~Tool.reads /\ Tool.after = <<>>
         /\ Tool.cancel = {"ignore", "kill", "reject"}
<1>1. CASE tool = "deepScan"
  BY <1>1 DEF Tool, scanMoreInfo
<1>2. CASE tool = "scanIframes"
  BY <1>2 DEF Tool, scanIframes, scanMoreInfo
<1> QED BY <1>1, <1>2 DEF Scans

LEMMA ToolOfFFMpeg ==
  ASSUME tool \in {"spawnFFMpeg", "uploadFFMpeg"}
  PROVE  /\ Tool.input /\ ~Tool.reads /\ Tool.after = <<>>
         /\ Tool.cancel = {"drop", "kill", "reject"}
<1>1. CASE tool = "spawnFFMpeg"
  BY <1>1 DEF Tool, spawnFFMpeg
<1>2. CASE tool = "uploadFFMpeg"
  BY <1>2 DEF Tool, spawnFFMpeg
<1> QED BY <1>1, <1>2

LEMMA ToolOfRobocopy ==
  ASSUME tool = "roboCopyFile"
  PROVE  /\ ~Tool.input /\ ~Tool.reads /\ Tool.after = <<"rename", "utimes">>
         /\ Tool.cancel = {"ignore", "drop", "kill"}
BY DEF Tool, roboCopyFile

LEMMA ToolOfFileflow ==
  ASSUME tool = "quantelFileflowCopy"
  PROVE  /\ Tool.input /\ ~Tool.reads /\ Tool.after = <<>>
         /\ Tool.cancel = {"put"}
BY DEF Tool, quantelFileflowCopy

\* Which tools there are, by what they have in common.
LEMMA ToolKinds ==
  ASSUME tool \in ToolNames
  PROVE  \/ tool \in {"scanWithFFProbe", "scanFieldOrder", "scanLoudness"}
         \/ tool \in Scans
         \/ tool \in {"spawnFFMpeg", "uploadFFMpeg"}
         \/ tool = "roboCopyFile"
         \/ tool = "quantelFileflowCopy"
BY DEF ToolNames, Scans

LEMMA ToolTypes ==
  ASSUME tool \in ToolNames
  PROVE  Tool.input \in BOOLEAN /\ Tool.reads \in BOOLEAN
<1>1. CASE tool \in {"scanWithFFProbe", "scanFieldOrder", "scanLoudness"}
  BY <1>1 DEF Tool, scanLoudnessStream, scanFieldOrder, scanWithFFProbe
<1>2. CASE tool \in Scans
  BY <1>2 DEF Scans, Tool, scanIframes, scanMoreInfo
<1>3. CASE tool \in {"spawnFFMpeg", "uploadFFMpeg"}
  BY <1>3 DEF Tool, spawnFFMpeg
<1>4. CASE tool = "roboCopyFile"
  BY <1>4 DEF Tool, roboCopyFile
<1>5. CASE tool = "quantelFileflowCopy"
  BY <1>5 DEF Tool, quantelFileflowCopy
<1> QED BY <1>1, <1>2, <1>3, <1>4, <1>5, ToolKinds

-----------------------------------------------------------------------------
(* Calls *)

Settled == {"resolved", "rejected"}

LEMMA NoCallType == NoCall \in Call
BY DEF NoCall, Call

LEMMA StartedIs ==
  ASSUME tool \in ToolNames
  PROVE  /\ Started \in Call
         /\ Started.process = (IF Tool.input THEN "input" ELSE "running")
         /\ Started.held = ~Tool.input
         /\ Started.listens = (IF Tool.input THEN "no" ELSE "yes")
         /\ ~Started.ignores /\ ~Started.whole /\ Started.result = "pending"
BY ToolTypes DEF Started, NoCall, Call

LEMMA KilledIs ==
  ASSUME NEW c \in Call
  PROVE  /\ Killed(c) \in Call
         /\ Killed(c).process = (IF c.process = "running" /\ c.held THEN "dying" ELSE c.process)
         /\ Killed(c).held = c.held /\ Killed(c).ignores = c.ignores /\ Killed(c).read = c.read
         /\ Killed(c).whole = c.whole /\ Killed(c).result = c.result
         /\ Killed(c).listens = c.listens
<1>1. CASE c.process = "running" /\ c.held
  BY <1>1 DEF Killed, Call
<1>2. CASE ~(c.process = "running" /\ c.held)
  BY <1>2 DEF Killed
<1> QED BY <1>1, <1>2

LEMMA CancelledIs ==
  ASSUME NEW c \in Call
  PROVE  /\ Cancelled(c) \in Call
         /\ Cancelled(c).process = (IF "kill" \in Tool.cancel /\ c.process = "running" /\ c.held
                                    THEN "dying" ELSE c.process)
         /\ Cancelled(c).ignores = (c.ignores \/ "ignore" \in Tool.cancel)
         /\ Cancelled(c).held = (c.held /\ "drop" \notin Tool.cancel)
         /\ Cancelled(c).read = c.read
         /\ Cancelled(c).whole = c.whole /\ Cancelled(c).result = c.result
         /\ Cancelled(c).listens = c.listens
<1> DEFINE k == IF "kill" \in Tool.cancel THEN Killed(c) ELSE c
<1>1. k \in Call /\ k.held = c.held /\ k.ignores = c.ignores /\ k.read = c.read
      /\ k.whole = c.whole /\ k.result = c.result /\ k.listens = c.listens
      /\ k.process = (IF "kill" \in Tool.cancel /\ c.process = "running" /\ c.held
                      THEN "dying" ELSE c.process)
  BY KilledIs
<1>2. Cancelled(c) = [k EXCEPT !.ignores = @ \/ "ignore" \in Tool.cancel,
                               !.held = @ /\ "drop" \notin Tool.cancel]
  BY DEF Cancelled
<1> HIDE DEF k
<1> QED BY <1>1, <1>2 DEF Call

LEMMA GoneIs ==
  ASSUME TypeOKOfTools, tool \in ToolNames, NEW i \in Calls
  PROVE  /\ Gone(i) \in Call /\ Gone(i).process = "gone"
         /\ Gone(i).whole = (call[i].process = "succeeded" /\ (call[i].read \/ ~Tool.reads))
         /\ Gone(i).ignores = call[i].ignores /\ Gone(i).read = call[i].read
         /\ Gone(i).result = call[i].result /\ Gone(i).listens = call[i].listens
<1>1. call[i] \in Call
  BY DEF TypeOKOfTools
<1>2. (call[i].process = "succeeded" /\ (call[i].read \/ ~Tool.reads)) \in BOOLEAN
  OBVIOUS
<1> QED BY <1>1, <1>2 DEF Gone, Call

-----------------------------------------------------------------------------
(* What steps have in common *)

\* Nothing is started, except by a loudness scan or a second try.
NothingStarts ==
  cancelled /\ tool \notin {"scanLoudness", "deepScan"} =>
    \A i \in Calls : call'[i].process = "running" => call[i].process = "running"

\* What a step of a call leaves as it is, and what it may do to the rest.
Frame ==
  /\ tool \in ToolNames /\ tool' = tool /\ secondTry' = secondTry
  /\ progress' \in BOOLEAN /\ cancelled' \in BOOLEAN
  /\ put' \in {"none", "sent", "failed"} /\ failures' \in 0 .. MaxFailures
  /\ cancelled => cancelled'
  /\ cancelled' => cancelled \/ HandlerIsSet(call[1])
  /\ put' # "none" => put # "none" \/ (tool = "quantelFileflowCopy" /\ HandlerIsSet(call[1]))
  /\ put = "failed" => put' = "failed" \/ \A j \in Calls : call[j].result = "pending"

\* What runs no more, unless it is left behind.
HasNoProcess(c) ==
  c.process \notin {"input", "running"} \/ put' = "failed" \/ IsLeftBehind(c)

\* What a step may make of call i.
Proper(i, c) ==
  /\ c \in Call /\ c.result = call[i].result
  /\ i = 2 => secondTry = "run"
  /\ c.process = "running" => c.held \/ tool = "quantelFileflowCopy"
  /\ c.process = "running" => call[i].process \in {"input", "running"}
  /\ c.listens # "no" => c.process \notin {"none", "input"}
  /\ call[i].listens = "late" => c.listens = "late"
  /\ c.whole => c.process \in {"none", "gone"}
  /\ call[i].whole => c.whole
  /\ call[i].read => c.read
  /\ c.result # "pending" => HasNoProcess(c)
  /\ i = 1 /\ HandlerIsSet(call[1]) => HandlerIsSet(c)
  /\ tool = "roboCopyFile" /\ c.ignores => cancelled'

LEMMA FaultType ==
  ASSUME TypeOKOfTools, Fault \/ NoFault
  PROVE  failures' \in 0 .. MaxFailures
BY ToolsAssumption DEF TypeOKOfTools, Fault, NoFault

\* Most steps change nothing but their call.
LEMMA FrameOfCall ==
  ASSUME ToolsInv, tool \in ToolNames, UNCHANGED others, Fault \/ NoFault
  PROVE  Frame
<1>1. failures' \in 0 .. MaxFailures
  BY FaultType DEF ToolsInv
<1> QED BY <1>1 DEF Frame, others, ToolsInv, TypeOKOfTools

\* The parts of the invariant that are about one call, when only that call changes.
LEMMA CallChanges ==
  ASSUME ToolsInv, Frame, NEW i \in Calls, NEW c, Proper(i, c),
         NEW r \in Settled \cup {call[i].result},
         r # "pending" => HasNoProcess(c),
         call' = [call EXCEPT ![i] = [c EXCEPT !.result = r]],
         call[i].result # "pending" => r = call[i].result
  PROVE  /\ call' \in [Calls -> Call]
         /\ OneCall' /\ SecondTryIsOfDeepScan' /\ PutIsOfAJob' /\ CallsAreWatched'
         /\ SettledHasEnded' /\ CancelledHasAProcess' /\ NothingStarts
<1> DEFINE d == [c EXCEPT !.result = r]
<1>1. call \in [Calls -> Call] /\ i \in Calls /\ Calls = {1, 2}
  BY DEF ToolsInv, TypeOKOfTools, Calls
<1>2. r \in {"pending", "resolved", "rejected"}
  BY <1>1 DEF Settled, Call
<1>3. /\ d \in Call /\ d.result = r /\ d.process = c.process /\ d.held = c.held
      /\ d.whole = c.whole /\ d.read = c.read /\ d.ignores = c.ignores /\ d.listens = c.listens
  BY <1>2 DEF Proper, Call
<1> HIDE DEF d
<1>4. call' \in [Calls -> Call] /\ call'[i] = d /\ \A j \in Calls \ {i} : call'[j] = call[j]
  BY <1>1, <1>3 DEF d
<1>5. OneCall'
  BY <1>1, <1>4 DEF OneCall, ToolsInv, Frame, Proper
<1>6. call[1].result # "pending" => call'[1].result # "pending"
  BY <1>1, <1>3, <1>4
<1>7. SecondTryIsOfDeepScan'
  BY <1>6 DEF SecondTryIsOfDeepScan, ToolsInv, Frame
<1>8. HandlerIsSet(call[1]) => HandlerIsSet(call'[1])
  BY <1>1, <1>3, <1>4 DEF Proper, HandlerIsSet
<1>9. PutIsOfAJob'
  <2>1. ASSUME put' # "none"
        PROVE  tool' = "quantelFileflowCopy" /\ HandlerIsSet(call'[1])
    BY <1>8, <2>1 DEF PutIsOfAJob, ToolsInv, Frame
  <2> QED BY <2>1 DEF PutIsOfAJob, HandlerIsSet
<1>10. CallsAreWatched'
  BY <1>1, <1>3, <1>4 DEF CallsAreWatched, ToolsInv, Proper, Frame
<1>11. SettledHasEnded'
  <2>1. \A j \in Calls \ {i} : call[j].result # "pending" => HasNoProcess(call[j])
    BY <1>1, <1>4 DEF SettledHasEnded, ToolsInv, Frame, HasNoProcess
  <2>2. d.result # "pending" => HasNoProcess(d)
    BY <1>3 DEF HasNoProcess, IsLeftBehind
  <2>3. \A j \in Calls : call'[j].result # "pending" => HasNoProcess(call'[j])
    BY <1>4, <2>1, <2>2
  <2> QED BY <2>3 DEF SettledHasEnded, HasNoProcess, IsLeftBehind, Frame
<1>12. CancelledHasAProcess'
  <2>1. cancelled' /\ tool' \notin {"scanLoudness", "deepScan"} => HandlerIsSet(call[1])
    BY DEF CancelledHasAProcess, ToolsInv, Frame
  <2>2. tool' = "roboCopyFile" /\ (\E j \in Calls : call'[j].ignores) => cancelled'
    BY <1>3, <1>4 DEF CancelledHasAProcess, ToolsInv, Frame, Proper
  <2> QED BY <1>8, <2>1, <2>2 DEF CancelledHasAProcess, HandlerIsSet
<1>13. NothingStarts
  <2>1. ASSUME cancelled, tool \notin {"scanLoudness", "deepScan"}
        PROVE  i = 1 /\ call[1].process # "input"
    <3>1. secondTry # "run"
      BY <2>1 DEF SecondTryIsOfDeepScan, ToolsInv
    <3>2. i # 2
      BY <3>1 DEF Proper
    <3>3. HandlerIsSet(call[1])
      BY <2>1 DEF CancelledHasAProcess, ToolsInv
    <3>4. HandlerIsSet(call[1]) => call[1].process # "input"
      BY <1>1 DEF HandlerIsSet, CallsAreWatched, ToolsInv
    <3> QED BY <1>1, <3>2, <3>3, <3>4
  <2>2. d.process = "running" => call[i].process \in {"input", "running"}
    BY <1>3 DEF Proper
  <2> QED BY <1>4, <2>1, <2>2 DEF NothingStarts
<1> QED BY <1>4, <1>5, <1>7, <1>9, <1>10, <1>11, <1>12, <1>13

\* What ResolvedIsWhole asks for after a step.
IsWholeNow ==
  \/ tool = "scanLoudness"
  \/ tool = "roboCopyFile" /\ cancelled'
  \/ tool = "uploadFFMpeg" /\ call'[1].listens = "late"
  \/ /\ \E j \in Calls : call'[j].whole /\ (tool = "uploadFFMpeg" => call'[j].read)
     /\ left' = <<>>

\* A promise that has been resolved stays as whole as it was.
LEMMA WholeStays ==
  ASSUME ToolsInv, Frame, NEW i \in Calls, NEW c, Proper(i, c),
         call'[i].whole = c.whole, call'[i].read = c.read, call'[i].listens = c.listens,
         \A j \in Calls \ {i} : call'[j] = call[j],
         promise = "resolved", UNCHANGED left
  PROVE  IsWholeNow
<1> DEFINE late == tool = "uploadFFMpeg" /\ call[1].listens = "late"
<1>1. CASE tool = "scanLoudness" \/ (tool = "roboCopyFile" /\ cancelled)
  BY <1>1 DEF Frame, IsWholeNow
<1>3. CASE late
  <2>1. call'[1].listens = "late"
    BY <1>3 DEF Proper, Calls
  <2> QED BY <1>3, <2>1 DEF IsWholeNow
<1>2. CASE ~(tool = "scanLoudness" \/ (tool = "roboCopyFile" /\ cancelled) \/ late)
  <2>1. left = <<>>
    BY <1>2 DEF ToolsInv, ResolvedIsWhole
  <2>2. PICK j \in Calls : call[j].whole /\ (tool = "uploadFFMpeg" => call[j].read)
    BY <1>2 DEF ToolsInv, ResolvedIsWhole
  <2>3. call'[j].whole /\ (tool = "uploadFFMpeg" => call'[j].read)
    BY <2>2 DEF Proper
  <2> QED BY <2>1, <2>3 DEF IsWholeNow
<1> QED BY <1>1, <1>2, <1>3

LEMMA BecomesStep ==
  ASSUME ToolsInv, Frame, NEW i \in Calls, NEW c, Proper(i, c), Becomes(i, c)
  PROVE  ToolsInv' /\ NothingStarts
<1>1. call' = [call EXCEPT ![i] = c] /\ UNCHANGED <<promise, left>>
  BY DEF Becomes
<1>2. [c EXCEPT !.result = call[i].result] = c
  BY DEF Proper, Call
<1>3. /\ call' \in [Calls -> Call]
      /\ OneCall' /\ SecondTryIsOfDeepScan' /\ PutIsOfAJob' /\ CallsAreWatched'
      /\ SettledHasEnded' /\ CancelledHasAProcess' /\ NothingStarts
  <2> DEFINE r == call[i].result
  <2>1. r \in Settled \cup {call[i].result} /\ (call[i].result # "pending" => r = call[i].result)
    OBVIOUS
  <2>2. r # "pending" => HasNoProcess(c)
    BY DEF Proper
  <2>3. call' = [call EXCEPT ![i] = [c EXCEPT !.result = r]]
    BY <1>1, <1>2
  <2> HIDE DEF r
  <2> QED BY <2>1, <2>2, <2>3, CallChanges
<1>4. call \in [Calls -> Call] /\ call'[i] = c /\ \A j \in Calls \ {i} : call'[j] = call[j]
  BY <1>1 DEF ToolsInv, TypeOKOfTools
<1>5. \A j \in Calls : call'[j].result = call[j].result
  BY <1>4 DEF Proper
<1>6. PromiseIsOfItsCall'
  BY <1>1, <1>5 DEF PromiseIsOfItsCall, ToolsInv, Frame, Calls
<1>7. ResolvedIsWhole'
  <2> SUFFICES ASSUME promise' = "resolved" PROVE ResolvedIsWhole'
    BY DEF ResolvedIsWhole
  <2>1. promise = "resolved" /\ UNCHANGED left
    BY <1>1
  <2>2. IsWholeNow
    BY <1>4, <2>1, WholeStays
  <2>3. tool' = tool
    BY DEF Frame
  <2> QED BY <2>2, <2>3 DEF ResolvedIsWhole, IsWholeNow
<1>8. TypeOKOfTools'
  BY <1>1, <1>3 DEF TypeOKOfTools, ToolsInv, Frame
<1> QED BY <1>3, <1>6, <1>7, <1>8 DEF ToolsInv

\* What there must be for a promise to be resolved.
MayResolve(c) ==
  \/ tool = "scanLoudness"
  \/ tool = "roboCopyFile" /\ cancelled'
  \/ c.whole /\ (tool = "uploadFFMpeg" => c.read) /\ left = <<>>

\* The result of a channel of a loudness scan: the next one is measured.
LEMMA ChannelIsMeasured ==
  ASSUME ToolsInv, Frame, NEW i \in Calls, NEW c, Proper(i, c), NEW r \in Settled, Settle(i, c, r),
         HasNoProcess(c),
         tool = "scanLoudness", c.result = "pending"
  PROVE  ToolsInv' /\ NothingStarts
<1>1. secondTry # "run" /\ put = "none"
  BY DEF ToolsInv, SecondTryIsOfDeepScan, PutIsOfAJob
<1>2. i = 1 /\ call[1].result = "pending"
  BY <1>1 DEF Proper, Calls
<1>3. promise = "pending" /\ left # <<>>
  BY <1>2 DEF ToolsInv, PromiseIsOfItsCall, TypeOKOfTools
<1>4. /\ left' = Tail(left)
      /\ call' = [call EXCEPT ![i] = IF left' = <<>> THEN [c EXCEPT !.result = r] ELSE Started]
      /\ promise' = IF left' = <<>> THEN "resolved" ELSE promise
  BY DEF Settle
<1>5. left' \in Seq({"channel", "rename", "utimes"})
  BY <1>3, <1>4, HeadTailProperties DEF ToolsInv, TypeOKOfTools
<1>6. tool' = tool /\ secondTry' = secondTry /\ put' = "none"
  BY <1>1 DEF Frame
<1>7. CASE left' = <<>>
  <2>1. call' = [call EXCEPT ![i] = [c EXCEPT !.result = r]] /\ promise' = "resolved"
    BY <1>4, <1>7
  <2>2. /\ call' \in [Calls -> Call]
        /\ OneCall' /\ SecondTryIsOfDeepScan' /\ PutIsOfAJob' /\ CallsAreWatched'
        /\ SettledHasEnded' /\ CancelledHasAProcess' /\ NothingStarts
    <3>1. call[i].result = "pending"
      BY <1>2
    <3> QED BY <2>1, <3>1, CallChanges
  <2>3. call'[1].result = r /\ r # "pending"
    BY <1>2, <2>1 DEF Proper, Call, Settled, ToolsInv, TypeOKOfTools, Calls
  <2>4. PromiseIsOfItsCall'
    BY <1>6, <1>7, <2>1, <2>3 DEF PromiseIsOfItsCall
  <2>5. ResolvedIsWhole'
    BY <1>6 DEF ResolvedIsWhole
  <2>6. TypeOKOfTools'
    BY <1>5, <2>1, <2>2 DEF TypeOKOfTools, ToolsInv, Frame
  <2> QED BY <2>2, <2>4, <2>5, <2>6 DEF ToolsInv
<1>8. CASE left' # <<>>
  <2>1. call' = [call EXCEPT ![1] = Started] /\ promise' = "pending"
    BY <1>2, <1>3, <1>4, <1>8
  <2>2. call \in [Calls -> Call] /\ Calls = {1, 2}
    BY DEF ToolsInv, TypeOKOfTools, Calls
  <2>3. /\ Started \in Call /\ Started.process = "input" /\ ~Started.whole
        /\ Started.result = "pending" /\ ~Started.ignores /\ Started.listens = "no"
    BY StartedIs, ToolOfProbe DEF Frame
  <2>4. call' \in [Calls -> Call] /\ call'[1] = Started /\ call'[2] = call[2]
    BY <2>1, <2>2, <2>3
  <2>5. OneCall' /\ SecondTryIsOfDeepScan' /\ PutIsOfAJob'
    BY <1>1, <1>6, <2>4 DEF ToolsInv, OneCall, SecondTryIsOfDeepScan, PutIsOfAJob
  <2>6. CallsAreWatched' /\ SettledHasEnded'
    BY <1>1, <1>6, <2>2, <2>3, <2>4 DEF ToolsInv, CallsAreWatched, SettledHasEnded, IsLeftBehind
  <2>7. PromiseIsOfItsCall' /\ ResolvedIsWhole' /\ CancelledHasAProcess' /\ NothingStarts
    BY <1>6, <1>8, <2>1, <2>3, <2>4
       DEF PromiseIsOfItsCall, ResolvedIsWhole, CancelledHasAProcess, NothingStarts
  <2>8. TypeOKOfTools'
    BY <1>5, <2>1, <2>4 DEF TypeOKOfTools, ToolsInv, Frame
  <2> QED BY <2>5, <2>6, <2>7, <2>8 DEF ToolsInv
<1> QED BY <1>7, <1>8

LEMMA SettleStep ==
  ASSUME ToolsInv, Frame, NEW i \in Calls, NEW c, Proper(i, c), NEW r \in Settled, Settle(i, c, r),
         HasNoProcess(c),
         r = "resolved" /\ c.result = "pending" => MayResolve(c)
  PROVE  ToolsInv' /\ NothingStarts
<1>1. CASE tool = "scanLoudness" /\ c.result = "pending"
  BY <1>1, ChannelIsMeasured
<1>2. CASE ~(tool = "scanLoudness" /\ c.result = "pending")
  <2> DEFINE s == SettleWith(c.result, r)
  <2>1. /\ call' = [call EXCEPT ![i] = [c EXCEPT !.result = s]]
        /\ promise' = IF c.result = "pending" THEN SettleWith(promise, r) ELSE promise
        /\ UNCHANGED left
    <3>1. [c EXCEPT !.result = SettleWith(@, r)] = [c EXCEPT !.result = s]
      BY DEF Proper, Call
    <3> QED BY <1>2, <3>1 DEF Settle
  <2>2. s \in Settled \cup {call[i].result} /\ s # "pending" /\ c.result = call[i].result
    BY DEF SettleWith, Settled, Proper
  <2>3. c.result # "pending" => s = c.result
    BY DEF SettleWith
  <2>4. s \in {"resolved", "rejected"}
    BY DEF SettleWith, Settled, Proper, Call
  <2> HIDE DEF s
  <2>5. /\ call' \in [Calls -> Call]
        /\ OneCall' /\ SecondTryIsOfDeepScan' /\ PutIsOfAJob' /\ CallsAreWatched'
        /\ SettledHasEnded' /\ CancelledHasAProcess' /\ NothingStarts
    BY <2>1, <2>2, <2>3, CallChanges
  <2>6. /\ call'[i].result = s /\ call'[i].whole = c.whole /\ call'[i].read = c.read
        /\ call'[i].listens = c.listens
        /\ \A j \in Calls \ {i} : call'[j] = call[j]
    BY <2>1, <2>4 DEF ToolsInv, TypeOKOfTools, Proper, Call
  <2>7. promise' \in {"pending", "resolved", "rejected"}
    BY <2>1 DEF SettleWith, Settled, ToolsInv, TypeOKOfTools
  <2>8. tool' = tool /\ Calls = {1, 2}
    BY DEF Frame, Calls
  <2>9. PromiseIsOfItsCall'
    <3>1. promise' # "pending" => call'[1].result # "pending"
      <4>1. CASE i = 1
        BY <2>2, <2>6, <4>1
      <4>2. CASE i = 2
        <5>1. call[1].result # "pending"
          BY <4>2 DEF Proper, ToolsInv, SecondTryIsOfDeepScan
        <5> QED BY <2>6, <2>8, <4>2, <5>1
      <4> QED BY <2>8, <4>1, <4>2
    <3>2. tool # "deepScan" /\ call'[1].result # "pending" => promise' # "pending"
      <4> SUFFICES ASSUME tool # "deepScan", promise' = "pending" PROVE FALSE
        BY <2>2, <2>6, <2>8 DEF Proper, ToolsInv, SecondTryIsOfDeepScan
      <4>1. i = 1
        BY <2>8 DEF Proper, ToolsInv, SecondTryIsOfDeepScan
      <4>2. CASE c.result = "pending"
        BY <2>1, <4>2 DEF SettleWith, Settled
      <4>3. CASE c.result # "pending"
        BY <2>1, <2>2, <4>1, <4>3 DEF ToolsInv, PromiseIsOfItsCall
      <4> QED BY <4>2, <4>3
    <3>3. tool = "scanLoudness" => (promise' = "pending" <=> left' # <<>>)
      BY <1>2, <2>1 DEF ToolsInv, PromiseIsOfItsCall
    <3>4. tool \notin {"scanLoudness", "roboCopyFile"} => left' = <<>>
      BY <2>1 DEF ToolsInv, PromiseIsOfItsCall
    <3> QED BY <2>8, <3>1, <3>2, <3>3, <3>4 DEF PromiseIsOfItsCall
  <2>10. ResolvedIsWhole'
    <3> SUFFICES ASSUME promise' = "resolved" PROVE ResolvedIsWhole'
      BY DEF ResolvedIsWhole
    <3>1. IsWholeNow
      <4>1. CASE promise = "resolved"
        BY <2>1, <2>6, <4>1, WholeStays
      <4>2. CASE promise # "resolved"
        <5>1. c.result = "pending" /\ r = "resolved"
          BY <2>1, <4>2 DEF SettleWith
        <5>2. MayResolve(c)
          BY <5>1
        <5> QED BY <2>1, <2>6, <5>2 DEF MayResolve, IsWholeNow
      <4> QED BY <4>1, <4>2
    <3> QED BY <2>8, <3>1 DEF ResolvedIsWhole, IsWholeNow
  <2>11. TypeOKOfTools'
    BY <2>1, <2>5, <2>7 DEF TypeOKOfTools, ToolsInv, Frame
  <2> QED BY <2>5, <2>9, <2>10, <2>11 DEF ToolsInv
<1> QED BY <1>1, <1>2
-----------------------------------------------------------------------------
(* The steps of a call *)

LEMMA CallFacts ==
  ASSUME ToolsInv, NEW i \in Calls
  PROVE  /\ call[i] \in Call
         /\ call[i].process # "none" => (i = 2 => secondTry = "run")
         /\ call[i].process = "running" => call[i].held \/ tool = "quantelFileflowCopy"
         /\ call[i].listens # "no" => call[i].process \notin {"none", "input"}
         /\ call[i].whole => call[i].process \in {"none", "gone"}
         /\ call[i].whole => (i = 2 => secondTry = "run")
         /\ call[i].result # "pending" =>
              call[i].process \notin {"input", "running"} \/ put = "failed" \/ IsLeftBehind(call[i])
         /\ tool = "roboCopyFile" /\ call[i].ignores => cancelled
         /\ tool \notin {"scanLoudness", "roboCopyFile"} => left = <<>>
<1>1. call[i] \in Call
  BY DEF ToolsInv, TypeOKOfTools
<1>2. i = 2 /\ secondTry # "run" => call[i].process = "none" /\ ~call[i].whole
  BY DEF ToolsInv, OneCall, NoCall
<1> QED BY <1>1, <1>2
        DEF ToolsInv, CallsAreWatched, SettledHasEnded, CancelledHasAProcess, PromiseIsOfItsCall

\* A call that stays as it is, but for what is read.
LEMMA ReadIsProper ==
  ASSUME ToolsInv, Frame, NEW i \in Calls, call[i].process # "none",
         NEW c \in {call[i], [call[i] EXCEPT !.read = TRUE]}
  PROVE  Proper(i, c)
<1>1. /\ c \in Call /\ c.process = call[i].process /\ c.held = call[i].held
      /\ c.whole = call[i].whole /\ c.result = call[i].result /\ c.ignores = call[i].ignores
      /\ (call[i].read => c.read) /\ c.listens = call[i].listens
  BY CallFacts DEF Call
<1>2. call[i].result # "pending" => HasNoProcess(call[i])
  BY CallFacts DEF HasNoProcess, Frame
<1>3. c.result # "pending" => HasNoProcess(c)
  BY <1>1, <1>2 DEF HasNoProcess, IsLeftBehind
<1> QED BY <1>1, <1>3, CallFacts DEF Proper, Frame, HandlerIsSet

\* A call that has heeded the end of its process.
LEMMA GoneIsProper ==
  ASSUME ToolsInv, Frame, NEW i \in Calls, HasEnded(i)
  PROVE  Proper(i, Gone(i)) /\ HasNoProcess(Gone(i))
<1>1. call[i].process \in Ended
  BY DEF HasEnded
<1>2. /\ Gone(i) \in Call /\ Gone(i).process = "gone" /\ Gone(i).result = call[i].result
      /\ Gone(i).ignores = call[i].ignores /\ Gone(i).read = call[i].read
      /\ Gone(i).listens = call[i].listens
  BY GoneIs DEF ToolsInv, Frame
<1>3. ~call[i].whole /\ (i = 2 => secondTry = "run")
  BY <1>1, CallFacts DEF Ended
<1> QED BY <1>2, <1>3, CallFacts DEF Proper, HandlerIsSet, Frame, HasNoProcess

\* A process that has succeeded, and of which nothing needs to be read any more.
LEMMA GoneMayResolve ==
  ASSUME ToolsInv, Frame, NEW i \in Calls, HasEnded(i), call[i].process = "succeeded",
         tool \notin {"uploadFFMpeg", "roboCopyFile"}
  PROVE  MayResolve(Gone(i))
<1>1. Gone(i).whole
  BY GoneIs DEF ToolsInv, Frame, HasEnded
<1>2. tool = "scanLoudness" \/ left = <<>>
  BY CallFacts
<1> QED BY <1>1, <1>2 DEF MayResolve

LEMMA InputSteps ==
  ASSUME ToolsInv, tool \in ToolNames, NEW i \in Calls,
         InputIsReady(i) \/ InputFails(i) \/ NeedsNoProcess(i)
  PROVE  ToolsInv' /\ NothingStarts
<1>1. Frame
  BY FrameOfCall DEF InputIsReady, InputFails, NeedsNoProcess
<1>2. call[i].process = "input" /\ put' = put
  BY DEF InputIsReady, InputFails, NeedsNoProcess, others
<1>3. call[i] \in Call /\ ~call[i].whole /\ (i = 2 => secondTry = "run")
  BY <1>2, CallFacts
<1>4. ASSUME InputIsReady(i)
      PROVE  ToolsInv' /\ NothingStarts
  <2> DEFINE l == IF tool = "uploadFFMpeg" THEN "no" ELSE "yes"
             c == [call[i] EXCEPT !.process = "running", !.held = TRUE, !.listens = l]
  <2>1. /\ c \in Call /\ c.process = "running" /\ c.held /\ c.whole = call[i].whole
        /\ c.result = call[i].result /\ c.read = call[i].read /\ c.ignores = call[i].ignores
    BY <1>3 DEF Call
  <2>2. Becomes(i, c)
    BY <1>4 DEF InputIsReady
  <2>4. c.listens = l
    BY <1>3 DEF Call
  <2> HIDE DEF c
  <2>3. Proper(i, c)
    <3>1. c.result # "pending" => HasNoProcess(c)
      BY <1>1, <1>2, <2>1, <2>4, CallFacts DEF HasNoProcess, IsLeftBehind, Frame
    <3> QED BY <1>1, <1>2, <1>3, <2>1, <3>1, CallFacts DEF Proper, HandlerIsSet, Frame
  <2> QED BY <1>1, <2>2, <2>3, BecomesStep
<1>5. ASSUME InputFails(i)
      PROVE  ToolsInv' /\ NothingStarts
  <2>1. PICK p \in {"none", "running"} :
          /\ Settle(i, [call[i] EXCEPT !.process = p, !.held = FALSE], "rejected")
          /\ p = "running" => tool = "quantelFileflowCopy"
    BY <1>5 DEF InputFails
  <2> DEFINE c == [call[i] EXCEPT !.process = p, !.held = FALSE]
  <2>2. /\ c \in Call /\ c.process = p /\ ~c.held /\ c.whole = call[i].whole
        /\ c.result = call[i].result /\ c.read = call[i].read /\ c.ignores = call[i].ignores
        /\ c.listens = call[i].listens
    BY <1>3 DEF Call
  <2>3. Settle(i, c, "rejected")
    BY <2>1
  <2> HIDE DEF c
  <2>4. HasNoProcess(c)
    BY <2>1, <2>2 DEF HasNoProcess, IsLeftBehind
  <2>5. Proper(i, c)
    BY <1>1, <1>2, <1>3, <2>1, <2>2, <2>4, CallFacts DEF Proper, HandlerIsSet, Frame
  <2> QED BY <1>1, <2>3, <2>4, <2>5, SettleStep DEF Settled
<1>6. ASSUME NeedsNoProcess(i)
      PROVE  ToolsInv' /\ NothingStarts
  <2> DEFINE c == [call[i] EXCEPT !.process = "none", !.whole = TRUE]
  <2>1. /\ c \in Call /\ c.process = "none" /\ c.whole
        /\ c.result = call[i].result /\ c.read = call[i].read /\ c.ignores = call[i].ignores
        /\ c.listens = call[i].listens
    BY <1>3 DEF Call
  <2>2. Settle(i, c, "resolved") /\ tool \in {"scanFieldOrder", "scanWithFFProbe"}
    BY <1>6 DEF NeedsNoProcess
  <2> HIDE DEF c
  <2>3. HasNoProcess(c)
    BY <2>1 DEF HasNoProcess
  <2>4. Proper(i, c)
    BY <1>1, <1>2, <1>3, <2>1, <2>3, CallFacts DEF Proper, HandlerIsSet, Frame
  <2>5. MayResolve(c)
    BY <2>1, <2>2, CallFacts DEF MayResolve
  <2> QED BY <1>1, <2>2, <2>3, <2>4, <2>5, SettleStep DEF Settled
<1> QED BY <1>4, <1>5, <1>6

LEMMA PutPackageStreamStep ==
  ASSUME ToolsInv, tool \in ToolNames, NEW i \in Calls, putPackageStream(i)
  PROVE  ToolsInv' /\ NothingStarts
<1>1. Frame
  BY FrameOfCall DEF putPackageStream
<1>2. /\ call[i].process \notin {"none", "input"} /\ tool = "uploadFFMpeg"
      /\ call[i].listens = "no" /\ call[i].result = "pending"
  BY DEF putPackageStream
<1>3. call[i] \in Call /\ (i = 2 => secondTry = "run")
  BY <1>2, CallFacts
<1>4. CASE call[i].process = "running" /\ Becomes(i, [call[i] EXCEPT !.listens = "yes"])
  <2> DEFINE c == [call[i] EXCEPT !.listens = "yes"]
  <2>1. /\ c \in Call /\ c.process = "running" /\ c.held = call[i].held
        /\ c.whole = call[i].whole /\ c.result = "pending" /\ c.read = call[i].read
        /\ c.ignores = call[i].ignores /\ c.listens = "yes"
    BY <1>2, <1>3, <1>4 DEF Call
  <2> HIDE DEF c
  <2>2. call[i].held
    BY <1>2, <1>4, CallFacts
  <2>3. Proper(i, c)
    BY <1>1, <1>2, <1>3, <1>4, <2>1, <2>2, CallFacts DEF Proper, HandlerIsSet, Frame
  <2> QED BY <1>1, <1>4, <2>3, BecomesStep DEF c
<1>5. ASSUME NEW p \in {call[i].process, "gone"}, call[i].process \in Ended,
             Becomes(i, [call[i] EXCEPT !.process = p, !.listens = "late"])
      PROVE  ToolsInv' /\ NothingStarts
  <2> DEFINE c == [call[i] EXCEPT !.process = p, !.listens = "late"]
  <2>1. /\ c \in Call /\ c.process = p /\ c.held = call[i].held
        /\ c.whole = call[i].whole /\ c.result = "pending" /\ c.read = call[i].read
        /\ c.ignores = call[i].ignores /\ c.listens = "late"
    BY <1>2, <1>3, <1>5 DEF Call
  <2> HIDE DEF c
  <2>2. Proper(i, c)
    BY <1>1, <1>2, <1>3, <1>5, <2>1, CallFacts DEF Proper, HandlerIsSet, Frame, Ended
  <2> QED BY <1>1, <1>5, <2>2, BecomesStep DEF c
<1>6. CASE Settle(i, call[i], "rejected")
  <2>1. HasNoProcess(call[i])
    BY <1>2 DEF HasNoProcess, IsLeftBehind
  <2>2. Proper(i, call[i])
    BY <1>1, <1>2, <1>3, <2>1, CallFacts DEF Proper, HandlerIsSet, Frame
  <2> QED BY <1>1, <1>6, <2>1, <2>2, SettleStep DEF Settled
<1> QED BY <1>4, <1>5, <1>6 DEF putPackageStream

LEMMA ProcessEndsStep ==
  ASSUME ToolsInv, tool \in ToolNames, NEW i \in Calls, ProcessEnds(i)
  PROVE  ToolsInv' /\ NothingStarts
<1>1. PICK how \in Ended :
        /\ IF how = "failed" /\ call[i].process = "running" THEN Fault ELSE NoFault
        /\ Becomes(i, [call[i] EXCEPT !.process = how])
  BY DEF ProcessEnds
<1>2. Frame
  BY <1>1, FrameOfCall DEF ProcessEnds
<1>3. call[i].process \in {"running", "dying"} /\ put' = put
  BY DEF ProcessEnds, others
<1>4. call[i] \in Call /\ ~call[i].whole /\ (i = 2 => secondTry = "run")
  BY <1>3, CallFacts
<1> DEFINE c == [call[i] EXCEPT !.process = how]
<1>5. /\ c \in Call /\ c.process = how /\ c.whole = call[i].whole
      /\ c.result = call[i].result /\ c.read = call[i].read /\ c.ignores = call[i].ignores
      /\ c.listens = call[i].listens
  BY <1>4 DEF Call
<1>6. Becomes(i, c)
  BY <1>1
<1> HIDE DEF c
<1>7. Proper(i, c)
  BY <1>2, <1>3, <1>4, <1>5, CallFacts DEF Proper, HandlerIsSet, Frame, Ended, HasNoProcess
<1> QED BY <1>2, <1>6, <1>7, BecomesStep

LEMMA ReportsProgressStep ==
  ASSUME ToolsInv, tool \in ToolNames, NEW i \in Calls, ReportsProgress(i)
  PROVE  ToolsInv' /\ NothingStarts
<1>1. /\ call[i].process = "running" /\ progress' = TRUE /\ NoFault
      /\ UNCHANGED <<tool, call, promise, left, secondTry, cancelled, put>>
  BY DEF ReportsProgress
<1>2. failures' \in 0 .. MaxFailures
  BY <1>1, FaultType DEF ToolsInv
<1>3. Frame
  BY <1>1, <1>2 DEF Frame, ToolsInv, TypeOKOfTools
<1>4. Becomes(i, call[i])
  BY <1>1 DEF Becomes, ToolsInv, TypeOKOfTools
<1>5. Proper(i, call[i])
  BY <1>1, <1>3, ReadIsProper
<1> QED BY <1>3, <1>4, <1>5, BecomesStep

LEMMA CallbackStep ==
  ASSUME ToolsInv, tool \in ToolNames, NEW i \in Calls, CallbackOfExecFile(i)
  PROVE  ToolsInv' /\ NothingStarts
<1>1. Frame /\ HasEnded(i) /\ Tool.reads
  BY FrameOfCall DEF CallbackOfExecFile
<1>2. tool \notin {"uploadFFMpeg", "roboCopyFile"}
  BY <1>1, ToolOfFFMpeg, ToolOfRobocopy
<1>3. ASSUME NEW r \in Settled, Settle(i, Gone(i), r),
             r = "resolved" => call[i].process # "failed"
      PROVE  ToolsInv' /\ NothingStarts
  <2>1. r = "resolved" => MayResolve(Gone(i))
    BY <1>1, <1>2, <1>3, GoneMayResolve DEF HasEnded, Ended
  <2> QED BY <1>1, <1>3, <2>1, GoneIsProper, SettleStep
<1>4. CASE Becomes(i, Gone(i))
  BY <1>1, <1>4, GoneIsProper, BecomesStep
<1> QED BY <1>3, <1>4 DEF CallbackOfExecFile, Settled

\* A process nobody listens to any more.
LEMMA UnheededIsProper ==
  ASSUME ToolsInv, Frame, NEW i \in Calls, HasEnded(i)
  PROVE  Proper(i, [call[i] EXCEPT !.process = "gone"])
<1> DEFINE c == [call[i] EXCEPT !.process = "gone"]
<1>1. call[i] \in Call
  BY CallFacts
<1>2. /\ c \in Call /\ c.process = "gone" /\ c.whole = call[i].whole
      /\ c.result = call[i].result /\ c.read = call[i].read /\ c.ignores = call[i].ignores
      /\ c.listens = call[i].listens
  BY <1>1 DEF Call
<1>3. i = 2 => secondTry = "run"
  BY CallFacts DEF HasEnded, Ended
<1> HIDE DEF c
<1>4. Proper(i, c)
  BY <1>2, <1>3, CallFacts DEF Proper, HandlerIsSet, Frame, HasNoProcess
<1> QED BY <1>4 DEF c

LEMMA OnCloseOfScanStep ==
  ASSUME ToolsInv, tool \in ToolNames, NEW i \in Calls, onCloseOfScan(i)
  PROVE  ToolsInv' /\ NothingStarts
<1>1. Frame /\ HasEnded(i) /\ tool \in Scans
  BY FrameOfCall DEF onCloseOfScan
<1>2. CASE call[i].ignores \/ ~call[i].held
  <2>1. Becomes(i, [call[i] EXCEPT !.process = "gone"])
    BY <1>2 DEF onCloseOfScan
  <2> QED BY <1>1, <2>1, UnheededIsProper, BecomesStep
<1>3. CASE ~(call[i].ignores \/ ~call[i].held)
  <2>1. PICK r \in Settled : Settle(i, Gone(i), r) /\ (r = "resolved" => call[i].process = "succeeded")
    BY <1>3 DEF onCloseOfScan, Settled
  <2>2. r = "resolved" => MayResolve(Gone(i))
    BY <1>1, <2>1, GoneMayResolve DEF Scans
  <2> QED BY <1>1, <2>1, <2>2, GoneIsProper, SettleStep
<1> QED BY <1>2, <1>3

LEMMA MaybeDoneStep ==
  ASSUME ToolsInv, Frame, tool \in {"spawnFFMpeg", "uploadFFMpeg"}, NEW i \in Calls, NEW c,
         Proper(i, c), HasNoProcess(c), maybeDone(i, c)
  PROVE  ToolsInv' /\ NothingStarts
<1>1. CASE c.whole /\ (tool = "uploadFFMpeg" => c.read)
  <2>1. PICK r \in Settled : Settle(i, c, r)
    BY <1>1 DEF maybeDone, Settled
  <2>2. MayResolve(c)
    BY <1>1, CallFacts DEF MayResolve
  <2> QED BY <2>1, <2>2, SettleStep
<1>2. CASE ~(c.whole /\ (tool = "uploadFFMpeg" => c.read))
  BY <1>2, BecomesStep DEF maybeDone
<1> QED BY <1>1, <1>2

LEMMA OnCloseOfFFMpegStep ==
  ASSUME ToolsInv, tool \in ToolNames, NEW i \in Calls, onCloseOfFFMpeg(i)
  PROVE  ToolsInv' /\ NothingStarts
<1>1. Frame /\ HasEnded(i) /\ tool \in {"spawnFFMpeg", "uploadFFMpeg"}
  BY FrameOfCall DEF onCloseOfFFMpeg
<1>2. CASE ~call[i].held
  <2>1. Becomes(i, [call[i] EXCEPT !.process = "gone"])
    BY <1>2 DEF onCloseOfFFMpeg
  <2> QED BY <1>1, <2>1, UnheededIsProper, BecomesStep
<1>3. CASE call[i].held /\ call[i].process = "succeeded"
  <2>1. maybeDone(i, Gone(i))
    BY <1>3 DEF onCloseOfFFMpeg
  <2> QED BY <1>1, <2>1, GoneIsProper, MaybeDoneStep
<1>4. CASE call[i].held /\ call[i].process = "failed"
  <2>1. Settle(i, Gone(i), "rejected")
    BY <1>4 DEF onCloseOfFFMpeg
  <2> QED BY <1>1, <2>1, GoneIsProper, SettleStep DEF Settled
<1> QED BY <1>1, <1>2, <1>3, <1>4 DEF HasEnded, Ended

LEMMA OnRobocopyExitStep ==
  ASSUME ToolsInv, tool \in ToolNames, NEW i \in Calls, onRobocopyExit(i)
  PROVE  ToolsInv' /\ NothingStarts
<1>1. Frame /\ HasEnded(i) /\ tool = "roboCopyFile"
  BY FrameOfCall DEF onRobocopyExit
<1>2. CASE call[i].ignores
  <2>1. Settle(i, Gone(i), "resolved")
    BY <1>2 DEF onRobocopyExit
  <2>2. cancelled'
    BY <1>1, <1>2, CallFacts DEF Frame
  <2>3. MayResolve(Gone(i))
    BY <1>1, <2>2 DEF MayResolve
  <2> QED BY <1>1, <2>1, <2>3, GoneIsProper, SettleStep DEF Settled
<1>3. CASE ~call[i].ignores /\ call[i].process = "succeeded"
  <2>1. Becomes(i, Gone(i))
    BY <1>3 DEF onRobocopyExit
  <2> QED BY <1>1, <2>1, GoneIsProper, BecomesStep
<1>4. CASE ~call[i].ignores /\ call[i].process = "failed"
  <2>1. Settle(i, Gone(i), "rejected")
    BY <1>4 DEF onRobocopyExit
  <2> QED BY <1>1, <2>1, GoneIsProper, SettleStep DEF Settled
<1> QED BY <1>1, <1>2, <1>3, <1>4 DEF HasEnded, Ended

LEMMA GetJobStatusStep ==
  ASSUME ToolsInv, tool \in ToolNames, NEW i \in Calls, getJobStatus(i)
  PROVE  ToolsInv' /\ NothingStarts
<1>1. Frame /\ HasEnded(i) /\ tool = "quantelFileflowCopy"
  BY FrameOfCall DEF getJobStatus
<1>2. PICK r \in Settled : Settle(i, Gone(i), r) /\ (r = "resolved" => call[i].process = "succeeded")
  BY DEF getJobStatus, Settled
<1>3. r = "resolved" => MayResolve(Gone(i))
  BY <1>1, <1>2, GoneMayResolve
<1> QED BY <1>1, <1>2, <1>3, GoneIsProper, SettleStep

LEMMA GetJobStatusThrowsStep ==
  ASSUME ToolsInv, tool \in ToolNames, NEW i \in Calls, getJobStatusThrows(i)
  PROVE  ToolsInv' /\ NothingStarts
<1>1. Frame
  BY FrameOfCall DEF getJobStatusThrows
<1>2. /\ call[i].listens = "yes" /\ tool = "quantelFileflowCopy" /\ call[i].result = "pending"
      /\ Settle(i, [call[i] EXCEPT !.held = FALSE], "rejected")
  BY DEF getJobStatusThrows
<1> DEFINE c == [call[i] EXCEPT !.held = FALSE]
<1>3. /\ c \in Call /\ c.process = call[i].process /\ ~c.held /\ c.whole = call[i].whole
      /\ c.result = "pending" /\ c.read = call[i].read
      /\ c.ignores = call[i].ignores /\ c.listens = "yes"
  BY <1>2, CallFacts DEF Call
<1>4. Settle(i, c, "rejected")
  BY <1>2
<1> HIDE DEF c
<1>5. call[i].process \notin {"none", "input"} /\ (i = 2 => secondTry = "run")
  BY <1>2, CallFacts
<1>6. HasNoProcess(c)
  BY <1>2, <1>3, <1>5 DEF HasNoProcess, IsLeftBehind
<1>7. Proper(i, c)
  BY <1>1, <1>2, <1>3, <1>5, <1>6, CallFacts DEF Proper, HandlerIsSet, Frame
<1> QED BY <1>1, <1>4, <1>6, <1>7, SettleStep DEF Settled

LEMMA OutputIsReadStep ==
  ASSUME ToolsInv, tool \in ToolNames, NEW i \in Calls, OutputIsRead(i)
  PROVE  ToolsInv' /\ NothingStarts
<1> DEFINE c == [call[i] EXCEPT !.read = TRUE]
<1>1. Frame /\ call[i].process \in Ended \union {"gone"}
  BY FrameOfCall DEF OutputIsRead
<1>2. Proper(i, c)
  BY <1>1, ReadIsProper DEF Ended
<1>3. HasNoProcess(c)
  BY <1>1, CallFacts DEF Ended, Call, HasNoProcess
<1>4. IF tool = "uploadFFMpeg" THEN maybeDone(i, c) ELSE Becomes(i, c)
  BY DEF OutputIsRead
<1> HIDE DEF c
<1> QED BY <1>1, <1>2, <1>3, <1>4, MaybeDoneStep, BecomesStep

LEMMA KillingSteps ==
  ASSUME ToolsInv, tool \in ToolNames, NEW i \in Calls, onErrorOfScan(i) \/ UploadFails(i)
  PROVE  ToolsInv' /\ NothingStarts
<1>1. /\ Frame /\ call[i].process \notin {"none", "input"}
      /\ call[i].process = "running" => call[i].held
  <2>1. CASE onErrorOfScan(i)
    BY <2>1, FrameOfCall DEF onErrorOfScan
  <2>2. CASE UploadFails(i)
    BY <2>2, FrameOfCall, CallFacts DEF UploadFails
  <2> QED BY <2>1, <2>2
<1>2. call[i] \in Call /\ (i = 2 => secondTry = "run")
  BY <1>1, CallFacts
<1> DEFINE k == Killed(call[i])
           d == [k EXCEPT !.held = FALSE]
<1>3. /\ k \in Call /\ k.process \notin {"none", "input", "running"} /\ k.whole = call[i].whole
      /\ k.result = call[i].result /\ k.read = call[i].read /\ k.ignores = call[i].ignores
      /\ (k.process = call[i].process \/ call[i].process = "running")
      /\ k.listens = call[i].listens
  BY <1>1, <1>2, KilledIs
<1> HIDE DEF k
<1>4. /\ d \in Call /\ d.process = k.process /\ d.whole = k.whole
      /\ d.result = k.result /\ d.read = k.read /\ d.ignores = k.ignores
      /\ d.listens = k.listens
  BY <1>3 DEF Call
<1> HIDE DEF d
<1>7. HasNoProcess(k) /\ HasNoProcess(d)
  BY <1>3, <1>4 DEF HasNoProcess
<1>5. Proper(i, k) /\ Proper(i, d)
  BY <1>1, <1>2, <1>3, <1>4, <1>7, CallFacts DEF Proper, HandlerIsSet, Frame
<1>6. Settle(i, k, "rejected") \/ Settle(i, d, "rejected")
  BY DEF onErrorOfScan, UploadFails, k, d
<1> QED BY <1>1, <1>5, <1>6, <1>7, SettleStep DEF Settled

LEMMA FileIsPutInPlaceStep ==
  ASSUME ToolsInv, tool \in ToolNames, NEW i \in Calls, FileIsPutInPlace(i)
  PROVE  ToolsInv' /\ NothingStarts
<1>1. /\ tool = "roboCopyFile" /\ call[i].whole /\ call[i].result = "pending" /\ left # <<>>
      /\ UNCHANGED others
  BY DEF FileIsPutInPlace
<1>2. Frame
  BY FrameOfCall DEF FileIsPutInPlace
<1>3. call[i] \in Call /\ call[i].process \in {"none", "gone"} /\ i = 1
  BY <1>1, CallFacts DEF ToolsInv, SecondTryIsOfDeepScan, Calls
<1>4. Proper(i, call[i])
  <2>1. HasNoProcess(call[i])
    BY <1>3 DEF HasNoProcess
  <2> QED BY <1>1, <1>2, <1>3, <2>1, CallFacts DEF Proper, Frame, HandlerIsSet
<1>5. promise = "pending"
  BY <1>1, <1>3 DEF ToolsInv, PromiseIsOfItsCall, TypeOKOfTools
<1>6. ASSUME left' = (IF call[i].ignores THEN <<>> ELSE Tail(left)),
             call' = [call EXCEPT ![i].result = IF left' = <<>> THEN "resolved" ELSE @],
             promise' = (IF left' = <<>> THEN SettleWith(promise, "resolved") ELSE promise)
      PROVE  ToolsInv' /\ NothingStarts
  <2> DEFINE r == IF left' = <<>> THEN "resolved" ELSE "pending"
  <2>1. call' = [call EXCEPT ![i] = [call[i] EXCEPT !.result = r]]
    BY <1>1, <1>3, <1>6 DEF ToolsInv, TypeOKOfTools
  <2>2. promise' = r
    BY <1>5, <1>6 DEF SettleWith
  <2>3. r \in Settled \cup {call[i].result}
    BY <1>1 DEF Settled
  <2> HIDE DEF r
  <2>4. /\ call' \in [Calls -> Call]
        /\ OneCall' /\ SecondTryIsOfDeepScan' /\ PutIsOfAJob' /\ CallsAreWatched'
        /\ SettledHasEnded' /\ CancelledHasAProcess' /\ NothingStarts
    <3>1. HasNoProcess(call[i])
      BY <1>3 DEF HasNoProcess
    <3> QED BY <1>1, <1>2, <1>3, <1>4, <2>1, <2>3, <3>1, CallChanges
  <2>5. call'[i].result = r /\ call'[i].whole
    BY <1>1, <1>3, <2>1 DEF ToolsInv, TypeOKOfTools, Call
  <2>6. tool' = tool /\ (call[i].ignores => cancelled')
    BY <1>1, <1>2, CallFacts DEF Frame
  <2>7. PromiseIsOfItsCall'
    BY <1>1, <1>3, <2>2, <2>5, <2>6 DEF PromiseIsOfItsCall
  <2>8. ResolvedIsWhole'
    <3>1. promise' = "resolved" => left' = <<>>
      BY <2>2 DEF r
    <3> QED BY <1>1, <2>5, <2>6, <3>1 DEF ResolvedIsWhole
  <2>9. left' \in Seq({"channel", "rename", "utimes"})
    <3>1. Tail(left) \in Seq({"channel", "rename", "utimes"})
      BY <1>1, HeadTailProperties DEF ToolsInv, TypeOKOfTools
    <3> QED BY <1>6, <3>1
  <2>10. TypeOKOfTools'
    <3>1. r \in {"pending", "resolved", "rejected"}
      BY DEF r
    <3>2. promise' \in {"pending", "resolved", "rejected"}
      BY <2>2, <3>1
    <3>3. /\ tool' \in ToolNames \union {"none"} /\ put' \in {"none", "sent", "failed"}
          /\ progress' \in BOOLEAN /\ cancelled' \in BOOLEAN
          /\ secondTry' \in {"set", "run", "none"} /\ failures' \in 0 .. MaxFailures
      BY <1>1, <1>2 DEF TypeOKOfTools, ToolsInv, Frame, others
    <3> QED BY <2>4, <2>9, <3>2, <3>3 DEF TypeOKOfTools
  <2> QED BY <2>4, <2>7, <2>8, <2>10 DEF ToolsInv
<1>7. ASSUME Settle(i, call[i], "rejected")
      PROVE  ToolsInv' /\ NothingStarts
  BY <1>2, <1>3, <1>4, <1>7, SettleStep DEF Settled, HasNoProcess
<1> QED BY <1>6, <1>7 DEF FileIsPutInPlace

-----------------------------------------------------------------------------
(* Cancellation and the second try *)

LEMMA CancelStep ==
  ASSUME ToolsInv, tool \in ToolNames, Cancel
  PROVE  ToolsInv' /\ NothingStarts
<1> DEFINE c == Cancelled(call[1])
<1>1. /\ promise = "pending" /\ HandlerIsSet(call[1]) /\ cancelled' = TRUE
      /\ put' = IF "put" \in Tool.cancel THEN "sent" ELSE put
      /\ IF "reject" \in Tool.cancel THEN Settle(1, c, "rejected") ELSE Becomes(1, c)
      /\ NoFault /\ UNCHANGED <<tool, progress, secondTry>>
  BY DEF Cancel
<1>2. failures' \in 0 .. MaxFailures
  BY <1>1, FaultType DEF ToolsInv
<1>3. "put" \in Tool.cancel => tool = "quantelFileflowCopy"
  BY ToolKinds, ToolOfProbe, ToolOfScan, ToolOfFFMpeg, ToolOfRobocopy
<1>4. tool = "quantelFileflowCopy" => \A j \in Calls : call[j].result = "pending"
  <2>1. tool = "quantelFileflowCopy" => call[1].result = "pending"
    BY <1>1 DEF ToolsInv, PromiseIsOfItsCall
  <2>2. tool = "quantelFileflowCopy" => call[2].result = "pending"
    BY DEF ToolsInv, SecondTryIsOfDeepScan, OneCall, NoCall
  <2> QED BY <2>1, <2>2 DEF Calls
<1>5. Frame
  BY <1>1, <1>2, <1>3, <1>4 DEF Frame, ToolsInv, TypeOKOfTools
<1>6. 1 \in Calls /\ call[1] \in Call
  BY DEF Calls, ToolsInv, TypeOKOfTools
<1>7. /\ c \in Call
      /\ c.process = (IF "kill" \in Tool.cancel /\ call[1].process = "running" /\ call[1].held
                      THEN "dying" ELSE call[1].process)
      /\ c.held = (call[1].held /\ "drop" \notin Tool.cancel)
      /\ c.read = call[1].read /\ c.whole = call[1].whole /\ c.result = call[1].result
      /\ c.listens = call[1].listens
      /\ c.ignores = (call[1].ignores \/ "ignore" \in Tool.cancel)
  BY <1>6, CancelledIs
<1>8. "kill" \in Tool.cancel \/ tool = "quantelFileflowCopy"
  BY ToolKinds, ToolOfProbe, ToolOfScan, ToolOfFFMpeg, ToolOfRobocopy
<1>9. tool = "quantelFileflowCopy" => "drop" \notin Tool.cancel /\ "reject" \notin Tool.cancel
  BY ToolOfFileflow
<1> HIDE DEF c
<1>10. "kill" \in Tool.cancel => c.process \notin {"none", "input", "running"}
  <2>1. "kill" \in Tool.cancel => tool # "quantelFileflowCopy"
    BY ToolOfFileflow
  <2> QED BY <1>1, <1>6, <1>7, <2>1, CallFacts DEF HandlerIsSet
<1>11. tool = "quantelFileflowCopy" => c.result = "pending" /\ c.held = call[1].held
  <2>1. call[1].held \in BOOLEAN
    BY <1>6 DEF Call
  <2>2. "drop" \notin Tool.cancel => c.held = call[1].held
    BY <1>7, <2>1
  <2>3. tool = "quantelFileflowCopy" => c.result = "pending"
    BY <1>4, <1>6, <1>7
  <2> QED BY <1>9, <2>2, <2>3
<1>12. Proper(1, c)
  <2>1. c.process = "running" =>
          tool = "quantelFileflowCopy" /\ call[1].process \in {"input", "running"}
    BY <1>6, <1>7, <1>8, <1>10
  <2>2. c.result # "pending" => HasNoProcess(c)
    BY <1>8, <1>10, <1>11 DEF HasNoProcess
  <2>5. c.listens # "no" => c.process \notin {"none", "input"}
    BY <1>6, <1>7, CallFacts
  <2>3. c.whole => c.process \in {"none", "gone"}
    BY <1>6, <1>7, CallFacts
  <2>4. HandlerIsSet(call[1]) => HandlerIsSet(c)
    BY <1>7 DEF HandlerIsSet
  <2> QED BY <1>1, <1>7, <2>1, <2>2, <2>3, <2>4, <2>5 DEF Proper
<1>13. CASE "reject" \in Tool.cancel
  <2>1. HasNoProcess(c)
    BY <1>8, <1>9, <1>10, <1>13 DEF HasNoProcess
  <2> QED BY <1>1, <1>5, <1>6, <1>12, <1>13, <2>1, SettleStep DEF Settled
<1>14. CASE "reject" \notin Tool.cancel
  BY <1>1, <1>5, <1>6, <1>12, <1>14, BecomesStep
<1> QED BY <1>13, <1>14

LEMMA CancelIsAnsweredStep ==
  ASSUME ToolsInv, tool \in ToolNames, CancelIsAnswered
  PROVE  ToolsInv' /\ NothingStarts
<1>1. /\ put = "sent" /\ UNCHANGED <<tool, progress, secondTry, cancelled>>
      /\ (Fault \/ NoFault) /\ put' \in {"none", "failed"}
      /\ \/ Settle(1, Aborted(call[1]), "rejected")
         \/ put' = "failed" /\ Settle(1, call[1], "rejected")
  BY DEF CancelIsAnswered
<1>2. failures' \in 0 .. MaxFailures
  BY <1>1, FaultType DEF ToolsInv
<1>3. tool = "quantelFileflowCopy" /\ HandlerIsSet(call[1])
  BY <1>1 DEF ToolsInv, PutIsOfAJob
<1>4. Frame
  BY <1>1, <1>2, <1>3 DEF Frame, ToolsInv, TypeOKOfTools
<1>5. 1 \in Calls /\ call[1] \in Call /\ call[1].process \notin {"none", "input"}
  <2>1. 1 \in Calls
    BY DEF Calls
  <2> QED BY <1>3, <2>1, CallFacts DEF HandlerIsSet
<1> DEFINE k == Aborted(call[1])
<1>6. /\ k \in Call /\ k.process \notin {"none", "input", "running"} /\ k.whole = call[1].whole
      /\ k.result = call[1].result /\ k.read = call[1].read /\ k.ignores = call[1].ignores
      /\ (k.process = call[1].process \/ call[1].process = "running")
      /\ k.listens = call[1].listens
  BY <1>5 DEF Aborted, Call
<1> HIDE DEF k
<1>7. HasNoProcess(k) /\ Proper(1, k)
  <2>1. HasNoProcess(k)
    BY <1>6 DEF HasNoProcess
  <2> QED BY <1>4, <1>5, <1>6, <2>1, CallFacts DEF Proper, HandlerIsSet, Frame
<1>8. CASE Settle(1, k, "rejected")
  BY <1>4, <1>5, <1>7, <1>8, SettleStep DEF Settled
<1>9. CASE put' = "failed" /\ Settle(1, call[1], "rejected")
  <2>1. HasNoProcess(call[1])
    BY <1>9 DEF HasNoProcess
  <2>2. Proper(1, call[1])
    BY <1>1, <1>4, <1>5, <2>1, CallFacts DEF Proper, HandlerIsSet, Frame
  <2> QED BY <1>4, <1>5, <1>9, <2>1, <2>2, SettleStep DEF Settled
<1> QED BY <1>1, <1>8, <1>9 DEF k

LEMMA SecondTryStep ==
  ASSUME ToolsInv, tool \in ToolNames, SecondTry
  PROVE  ToolsInv' /\ NothingStarts
<1>1. secondTry = "set" /\ NoFault /\ UNCHANGED <<tool, promise, left, progress, cancelled, put>>
  BY DEF SecondTry
<1>2. tool = "deepScan" /\ call[2] = NoCall /\ put = "none"
  BY <1>1 DEF ToolsInv, SecondTryIsOfDeepScan, OneCall, PutIsOfAJob
<1>3. NothingStarts
  BY <1>2 DEF NothingStarts
<1>4. failures' \in 0 .. MaxFailures
  BY <1>1, FaultType DEF ToolsInv
<1>5. left = <<>>
  BY <1>2 DEF ToolsInv, PromiseIsOfItsCall
<1>6. CASE secondTry' = "none" /\ UNCHANGED call
  <2>1. OneCall' /\ SecondTryIsOfDeepScan' /\ PutIsOfAJob' /\ CallsAreWatched'
    BY <1>1, <1>2, <1>6 DEF ToolsInv, OneCall, SecondTryIsOfDeepScan, PutIsOfAJob, CallsAreWatched
  <2>2. SettledHasEnded' /\ PromiseIsOfItsCall' /\ CancelledHasAProcess' /\ ResolvedIsWhole'
    BY <1>1, <1>2, <1>6
       DEF ToolsInv, SettledHasEnded, PromiseIsOfItsCall, CancelledHasAProcess, ResolvedIsWhole,
           IsLeftBehind, HandlerIsSet
  <2>3. TypeOKOfTools'
    BY <1>1, <1>4, <1>6 DEF ToolsInv, TypeOKOfTools
  <2> QED BY <1>3, <2>1, <2>2, <2>3 DEF ToolsInv
<1>7. CASE /\ secondTry' = "run" /\ HandlerIsSet(call[1])
           /\ call' = [call EXCEPT ![1] = [Cancelled(call[1]) EXCEPT
                                               !.result = SettleWith(Cancelled(call[1]).result,
                                                                     "rejected")],
                                   ![2] = Started]
  <2> DEFINE k == Cancelled(call[1])
             c == [k EXCEPT !.result = SettleWith(k.result, "rejected")]
  <2>1. call \in [Calls -> Call] /\ Calls = {1, 2} /\ call[1] \in Call
    BY DEF Calls, ToolsInv, TypeOKOfTools
  <2>2. k \in Call /\ k.process \notin {"none", "input", "running"} /\ k.whole = call[1].whole
    <3>1. "kill" \in Tool.cancel
      BY <1>2, ToolOfScan DEF Scans
    <3>2. call[1].process \notin {"none", "input"} /\ (call[1].process = "running" => call[1].held)
      BY <1>2, <1>7, <2>1, CallFacts DEF HandlerIsSet
    <3>3. /\ k \in Call /\ k.whole = call[1].whole
          /\ k.process = (IF "kill" \in Tool.cancel /\ call[1].process = "running" /\ call[1].held
                          THEN "dying" ELSE call[1].process)
      BY <2>1, CancelledIs
    <3> HIDE DEF k
    <3>4. CASE call[1].process = "running"
      <4>1. k.process = "dying"
        BY <3>1, <3>2, <3>3, <3>4
      <4> QED BY <3>3, <4>1
    <3>5. CASE call[1].process # "running"
      <4>1. k.process = call[1].process
        BY <3>3, <3>5
      <4> QED BY <3>2, <3>3, <3>5, <4>1
    <3> QED BY <3>4, <3>5
  <2>3. call' = [call EXCEPT ![1] = c, ![2] = Started]
    BY <1>7
  <2> HIDE DEF k
  <2>4. SettleWith(k.result, "rejected") \in {"resolved", "rejected"}
    BY <2>2 DEF SettleWith, Call
  <2>5. /\ c \in Call /\ c.process = k.process /\ c.whole = k.whole /\ c.result # "pending"
        /\ c.listens = k.listens
    BY <2>2, <2>4 DEF Call
  <2> HIDE DEF c
  <2>6. /\ Started \in Call /\ Started.process = "input" /\ ~Started.whole
        /\ Started.result = "pending" /\ Started.listens = "no"
    BY <1>2, StartedIs, ToolOfScan DEF Scans
  <2>7. call' \in [Calls -> Call] /\ call'[1] = c /\ call'[2] = Started
    BY <2>1, <2>3, <2>5, <2>6
  <2>8. OneCall' /\ SecondTryIsOfDeepScan' /\ PutIsOfAJob'
    BY <1>1, <1>2, <1>7, <2>5, <2>7 DEF OneCall, SecondTryIsOfDeepScan, PutIsOfAJob
  <2>9. CallsAreWatched'
    <3>1. c.whole => call[1].process \in {"none", "gone"}
      BY <2>1, <2>2, <2>5, CallFacts
    <3>2. k.process = call[1].process \/ ~c.whole
      BY <2>1, <3>1, CancelledIs DEF k
    <3> QED BY <2>1, <2>2, <2>5, <2>6, <2>7, <3>1, <3>2 DEF CallsAreWatched
  <2>10. SettledHasEnded'
    BY <2>1, <2>2, <2>5, <2>6, <2>7 DEF SettledHasEnded
  <2>11. PromiseIsOfItsCall' /\ CancelledHasAProcess'
    BY <1>1, <1>2, <1>5, <2>5, <2>7 DEF PromiseIsOfItsCall, CancelledHasAProcess
  <2>12. ResolvedIsWhole'
    <3> SUFFICES ASSUME promise = "resolved" PROVE ResolvedIsWhole'
      BY <1>1 DEF ResolvedIsWhole
    <3>1. PICK j \in Calls : call[j].whole
      BY <1>2 DEF ToolsInv, ResolvedIsWhole
    <3>2. call[1].whole
      BY <1>2, <2>1, <3>1 DEF NoCall
    <3>3. call'[1].whole
      BY <2>2, <2>5, <2>7, <3>2
    <3> QED BY <1>1, <1>2, <1>5, <2>1, <3>3 DEF ResolvedIsWhole
  <2>13. TypeOKOfTools'
    BY <1>1, <1>4, <1>7, <2>7 DEF ToolsInv, TypeOKOfTools
  <2> QED BY <1>3, <2>8, <2>9, <2>10, <2>11, <2>12, <2>13 DEF ToolsInv
<1> QED BY <1>6, <1>7 DEF SecondTry

-----------------------------------------------------------------------------
(* Theorems *)

LEMMA InitInv == InitToolUse => ToolsInv
<1> SUFFICES ASSUME InitToolUse PROVE ToolsInv
  OBVIOUS
<1>1. NoCall \in Call /\ Calls = {1, 2} /\ 0 \in 0 .. MaxFailures
  BY NoCallType, ToolsAssumption DEF Calls
<1>2. CASE NoTool
  <2>1. call \in [Calls -> Call] /\ \A i \in Calls : call[i] = NoCall
    BY <1>1, <1>2 DEF NoTool
  <2>2. TypeOKOfTools
    <3>1. left \in Seq({"channel", "rename", "utimes"})
      BY <1>2 DEF NoTool
    <3>2. /\ tool \in ToolNames \union {"none"} /\ put \in {"none", "sent", "failed"}
          /\ promise \in {"pending", "resolved", "rejected"} /\ progress \in BOOLEAN
          /\ cancelled \in BOOLEAN /\ secondTry \in {"set", "run", "none"}
          /\ failures \in 0 .. MaxFailures
      BY <1>1, <1>2 DEF NoTool
    <3> QED BY <2>1, <3>1, <3>2 DEF TypeOKOfTools
  <2>3. OneCall /\ SecondTryIsOfDeepScan /\ PutIsOfAJob /\ CallsAreWatched /\ SettledHasEnded
    BY <1>1, <1>2, <2>1
       DEF NoTool, NoCall, OneCall, SecondTryIsOfDeepScan, PutIsOfAJob, CallsAreWatched,
           SettledHasEnded
  <2>4. PromiseIsOfItsCall /\ CancelledHasAProcess /\ ResolvedIsWhole
    BY <1>1, <1>2, <2>1
       DEF NoTool, NoCall, PromiseIsOfItsCall, CancelledHasAProcess, ResolvedIsWhole
  <2> QED BY <2>2, <2>3, <2>4 DEF ToolsInv
<1>3. CASE InitTools
  <2>1. tool \in ToolNames
    BY <1>3 DEF InitTools
  <2>2. /\ Started \in Call /\ (Started.process = "running" => Started.held)
        /\ (Started.listens # "no" => Started.process = "running")
        /\ ~Started.whole /\ Started.result = "pending" /\ ~Started.ignores
    BY <2>1, StartedIs, ToolTypes
  <2>3. call \in [Calls -> Call] /\ call[1] = Started /\ call[2] = NoCall
    BY <1>1, <1>3, <2>2 DEF InitTools
  <2>4. /\ left \in Seq({"channel", "rename", "utimes"})
        /\ tool = "scanLoudness" => left # <<>>
        /\ tool \notin {"scanLoudness", "roboCopyFile"} => left = <<>>
    <3>1. CASE tool = "scanLoudness"
      <4>1. MaxChannels \in Nat /\ MaxChannels # 0
        BY ToolsAssumption
      <4>2. left = [n \in 1 .. MaxChannels |-> "channel"]
        BY <1>3, <3>1 DEF InitTools
      <4>3. left \in Seq({"channel", "rename", "utimes"}) /\ Len(left) = MaxChannels
        BY <4>1, <4>2
      <4> QED BY <3>1, <4>1, <4>3
    <3>2. CASE tool # "scanLoudness"
      <4>1. left = Tool.after
        BY <1>3, <3>2 DEF InitTools
      <4>2. Tool.after = <<>> \/ (tool = "roboCopyFile" /\ Tool.after = <<"rename", "utimes">>)
        BY <2>1, ToolKinds, ToolOfProbe, ToolOfScan, ToolOfFFMpeg, ToolOfRobocopy, ToolOfFileflow
      <4>3. <<"rename", "utimes">> \in Seq({"channel", "rename", "utimes"})
        OBVIOUS
      <4>4. <<>> \in Seq({"channel", "rename", "utimes"})
        OBVIOUS
      <4> QED BY <3>2, <4>1, <4>2, <4>3, <4>4
    <3> QED BY <3>1, <3>2
  <2>5. TypeOKOfTools
    BY <1>1, <1>3, <2>3, <2>4 DEF InitTools, TypeOKOfTools
  <2>6. OneCall /\ SecondTryIsOfDeepScan /\ PutIsOfAJob
    BY <1>3, <2>3 DEF InitTools, OneCall, SecondTryIsOfDeepScan, PutIsOfAJob
  <2>7. CallsAreWatched /\ SettledHasEnded
    BY <1>1, <2>2, <2>3 DEF CallsAreWatched, SettledHasEnded, NoCall
  <2>8. PromiseIsOfItsCall /\ CancelledHasAProcess /\ ResolvedIsWhole
    BY <1>1, <1>3, <2>2, <2>3, <2>4
       DEF InitTools, PromiseIsOfItsCall, CancelledHasAProcess, ResolvedIsWhole, NoCall
  <2> QED BY <2>5, <2>6, <2>7, <2>8 DEF ToolsInv
<1> QED BY <1>2, <1>3 DEF InitToolUse

LEMMA ToolsStep ==
  ASSUME ToolsInv, NextTools
  PROVE  ToolsInv' /\ NothingStarts
<1>1. tool \in ToolNames
  BY DEF NextTools, ToolsInv, TypeOKOfTools
<1>2. ASSUME NEW i \in Calls, Heeded(i)
      PROVE  ToolsInv' /\ NothingStarts
  BY <1>1, <1>2, CallbackStep, OnCloseOfScanStep, OnCloseOfFFMpegStep, OnRobocopyExitStep,
     FileIsPutInPlaceStep, GetJobStatusStep, GetJobStatusThrowsStep DEF Heeded
<1>3. ASSUME NEW i \in Calls, NextOfCall(i)
      PROVE  ToolsInv' /\ NothingStarts
  BY <1>1, <1>2, <1>3, InputSteps, PutPackageStreamStep, ProcessEndsStep, ReportsProgressStep, OutputIsReadStep,
     KillingSteps DEF NextOfCall
<1>4. CASE Cancel \/ CancelIsAnswered \/ SecondTry
  BY <1>1, <1>4, CancelStep, CancelIsAnsweredStep, SecondTryStep
<1> QED BY <1>3, <1>4 DEF NextTools

LEMMA ToolsUnchanged ==
  ASSUME ToolsInv, UNCHANGED toolVars
  PROVE  ToolsInv' /\ NothingStarts
<1>1. UNCHANGED <<tool, call, promise, left, progress, secondTry, cancelled, put, failures>>
  BY DEF toolVars
<1>2. TypeOKOfTools' /\ OneCall' /\ SecondTryIsOfDeepScan' /\ PutIsOfAJob'
  BY <1>1 DEF ToolsInv, TypeOKOfTools, OneCall, SecondTryIsOfDeepScan, PutIsOfAJob, HandlerIsSet
<1>3. CallsAreWatched' /\ SettledHasEnded' /\ PromiseIsOfItsCall' /\ CancelledHasAProcess'
  BY <1>1 DEF ToolsInv, CallsAreWatched, SettledHasEnded, PromiseIsOfItsCall, CancelledHasAProcess,
              HandlerIsSet, IsLeftBehind
<1>4. ResolvedIsWhole' /\ NothingStarts
  BY <1>1 DEF ToolsInv, ResolvedIsWhole, NothingStarts
<1> QED BY <1>2, <1>3, <1>4 DEF ToolsInv

LEMMA NextToolsStep ==
  ASSUME ToolsInv, [NextToolUse]_toolUseVars
  PROVE  ToolsInv' /\ [NothingStarts]_toolVars
BY ToolsStep, ToolsUnchanged DEF NextToolUse, toolUseVars

LEMMA ToolsInvHolds == ToolUseSpec => []ToolsInv
BY InitInv, NextToolsStep, PTL DEF ToolUseSpec

\* What a promise resolves with is all there is, for any number of channels and failures: the
\* process has succeeded and its output has been read or uploaded, or the file has its name.
THEOREM PromisesAreKept == ToolUseSpec => []ResolvedIsWhole
<1>1. ToolsInv => ResolvedIsWhole
  BY DEF ToolsInv
<1> QED BY <1>1, ToolsInvHolds, PTL

\* When a promise is settled, by whatever end, error or cancellation, no process is left that
\* nobody is killing, but for those that LeavesNothingRunning names: above all an ffmpeg of which
\* the upload was refused before anyone listened to it, and a job whose requests have failed.
THEOREM NoProcessIsForgotten == ToolUseSpec => []LeavesNothingRunning
<1>1. ASSUME ToolsInv
      PROVE  LeavesNothingRunning
  <2> SUFFICES ASSUME promise # "pending", NEW i \in Calls, call[i].process \in {"input", "running"}
               PROVE  (tool = "deepScan" /\ i = 2) \/ put = "failed" \/ IsLeftBehind(call[i])
    BY DEF LeavesNothingRunning
  <2>1. CASE i = 1
    <3>1. call[1].result # "pending"
      BY <1>1 DEF ToolsInv, PromiseIsOfItsCall
    <3> QED BY <1>1, <2>1, <3>1, CallFacts
  <2>2. CASE i = 2
    BY <1>1, <2>2, CallFacts DEF ToolsInv, SecondTryIsOfDeepScan
  <2> QED BY <2>1, <2>2 DEF Calls
<1> QED BY <1>1, ToolsInvHolds, PTL

\* Once cancel() has returned, no process is started, but for the next channel of a loudness
\* scan and the second try of a deep scan.
THEOREM CancelledStaysCancelled == ToolUseSpec => NothingStartsAfterCancel
<1>1. ASSUME ToolsInv, [NextToolUse]_toolUseVars
      PROVE  [NothingStarts]_toolVars
  BY <1>1, NextToolsStep
<1> QED BY <1>1, ToolsInvHolds, PTL DEF ToolUseSpec, NothingStartsAfterCancel, NothingStarts

-----------------------------------------------------------------------------
(* The commands of a sequence of steps *)

\* Of some numbers one is the smallest.
LEMMA SmallestNumber ==
  ASSUME NEW S, S \subseteq Nat, S # {}
  PROVE  \E k \in S : \A m \in S : k <= m
<1>1. PICK k \in S : \A m \in S : <<m, k>> \notin OpToRel(<, Nat)
  BY NatLessThanWellFounded, WFMin
<1>2. \A m \in S : ~(m < k)
  BY <1>1 DEF OpToRel
<1> QED BY <1>2

\* What CommandsUpTo computes with: the commands of the first steps.
Collected(f, steps, n) ==
  f = [i \in 0 .. n |->
         IF i = 0 THEN <<>>
         ELSE IF IsCommand(steps[i]) THEN Append(f[i - 1], Command(steps[i])) ELSE f[i - 1]]

\* There is such a function for any number of steps: there is no smallest one without.
LEMMA CollectedExists ==
  ASSUME NEW steps, NEW n \in Nat
  PROVE  \E f : Collected(f, steps, n)
<1> DEFINE Bad == {k \in Nat : ~ \E f : Collected(f, steps, k)}
<1> SUFFICES ASSUME Bad # {} PROVE FALSE
  OBVIOUS
<1>1. PICK k \in Bad : \A m \in Bad : k <= m
  BY SmallestNumber
<1>2. CASE k = 0
  <2> DEFINE g == [i \in 0 .. 0 |-> <<>>]
  <2>1. \A i \in 0 .. 0 : i = 0
    OBVIOUS
  <2>2. Collected(g, steps, 0)
    BY <2>1 DEF Collected
  <2> QED BY <1>2, <2>2
<1>3. CASE k # 0
  <2>1. k - 1 \in Nat /\ k - 1 < k
    BY <1>3
  <2>2. PICK f : Collected(f, steps, k - 1)
    BY <1>1, <2>1
  <2> DEFINE next(h, i) == IF i = 0 THEN <<>>
                           ELSE IF IsCommand(steps[i]) THEN Append(h[i - 1], Command(steps[i]))
                           ELSE h[i - 1]
             g == [i \in 0 .. k |-> next(f, i)]
  <2>3. ASSUME NEW i \in 0 .. k, i # 0
        PROVE  g[i - 1] = f[i - 1]
    <3>1. i - 1 \in 0 .. k /\ i - 1 \in 0 .. (k - 1)
      BY <2>3
    <3>2. f[i - 1] = next(f, i - 1)
      BY <2>2, <3>1 DEF Collected
    <3> HIDE DEF next
    <3> QED BY <3>1, <3>2
  <2>4. \A i \in 0 .. k : next(f, i) = next(g, i)
    <3> HIDE DEF g
    <3> QED BY <2>3
  <2>5. g = [i \in 0 .. k |-> next(g, i)]
    <3> DEFINE h == [i \in 0 .. k |-> next(g, i)]
    <3> HIDE DEF next
    <3>1. \A i \in 0 .. k : g[i] = h[i]
      BY <2>4
    <3> QED BY <3>1
  <2>6. Collected(g, steps, k)
    <3> HIDE DEF g
    <3> QED BY <2>5 DEF Collected
  <2> QED BY <2>6
<1> QED BY <1>2, <1>3

LEMMA CommandsOfSteps ==
  ASSUME NEW steps \in Seq(StepTypes)
  PROVE  /\ CommandsUpTo(steps)[0] = <<>>
         /\ \A n \in 1 .. Len(steps) :
              CommandsUpTo(steps)[n] = IF IsCommand(steps[n])
                                       THEN Append(CommandsUpTo(steps)[n - 1], Command(steps[n]))
                                       ELSE CommandsUpTo(steps)[n - 1]
<1> DEFINE f == CHOOSE f : Collected(f, steps, Len(steps))
<1>1. Len(steps) \in Nat
  OBVIOUS
<1>2. Collected(f, steps, Len(steps))
  BY <1>1, CollectedExists
<1>3. CommandsUpTo(steps) = f
  BY DEF CommandsUpTo, Collected
<1> HIDE DEF f
<1>4. ASSUME NEW n \in 0 .. Len(steps)
      PROVE  f[n] = IF n = 0 THEN <<>>
                    ELSE IF IsCommand(steps[n]) THEN Append(f[n - 1], Command(steps[n])) ELSE f[n - 1]
  BY <1>2, <1>4 DEF Collected
<1> QED BY <1>1, <1>3, <1>4

\* They are commands, but none is "close".
LEMMA CommandsType ==
  ASSUME NEW steps \in Seq(StepTypes), NEW n \in 0 .. Len(steps)
  PROVE  CommandsUpTo(steps)[n] \in Seq(InteractiveMessage \ {"close"})
<1> DEFINE M == InteractiveMessage \ {"close"}
           Bad == {k \in 0 .. Len(steps) : CommandsUpTo(steps)[k] \notin Seq(M)}
<1> SUFFICES ASSUME Bad # {} PROVE FALSE
  OBVIOUS
<1>1. Bad \subseteq Nat
  OBVIOUS
<1>2. PICK k \in Bad : \A m \in Bad : k <= m
  BY <1>1, SmallestNumber
<1>3. ASSUME NEW c \in M, NEW s \in Seq(M)
      PROVE  Append(s, c) \in Seq(M)
  <2> HIDE DEF M
  <2> QED BY <1>3
<1>4. IsCommand(steps[k]) /\ k # 0 => Command(steps[k]) \in M
  <2>1. k # 0 => steps[k] \in StepTypes
    BY ElementOfSeq
  <2> QED BY <2>1 DEF StepTypes, IsCommand, Local, Command, InteractiveMessage
<1> HIDE DEF M
<1>5. <<>> \in Seq(M)
  OBVIOUS
<1>6. k # 0
  BY <1>5, CommandsOfSteps
<1>7. k \in 1 .. Len(steps) /\ k - 1 \in 0 .. Len(steps) /\ ~(k <= k - 1)
  BY <1>6
<1>8. CommandsUpTo(steps)[k - 1] \in Seq(M)
  BY <1>2, <1>7
<1>9. CommandsUpTo(steps)[k] = IF IsCommand(steps[k])
                               THEN Append(CommandsUpTo(steps)[k - 1], Command(steps[k]))
                               ELSE CommandsUpTo(steps)[k - 1]
  BY <1>7, CommandsOfSteps
<1>10. CommandsUpTo(steps)[k] \in Seq(M)
  BY <1>3, <1>4, <1>7, <1>8, <1>9
<1> QED BY <1>10

\* Steps without commands add none.
LEMMA StepsWithoutCommands ==
  ASSUME NEW steps \in Seq(StepTypes), NEW m \in 0 .. Len(steps), NEW n \in m .. Len(steps),
         \A k \in m + 1 .. n : ~IsCommand(steps[k])
  PROVE  CommandsUpTo(steps)[n] = CommandsUpTo(steps)[m]
<1> DEFINE Bad == {k \in m .. n : CommandsUpTo(steps)[k] # CommandsUpTo(steps)[m]}
<1> SUFFICES ASSUME Bad # {} PROVE FALSE
  OBVIOUS
<1>1. Bad \subseteq Nat
  OBVIOUS
<1>2. PICK k \in Bad : \A i \in Bad : k <= i
  BY <1>1, SmallestNumber
<1>3. k \in 1 .. Len(steps) /\ k \in m + 1 .. n /\ k - 1 \in m .. n /\ ~(k <= k - 1)
  BY <1>2
<1>4. CommandsUpTo(steps)[k - 1] = CommandsUpTo(steps)[m]
  BY <1>2, <1>3
<1> QED BY <1>3, <1>4, CommandsOfSteps

\* Those of the first steps come first.
LEMMA CommandsArePrefixes ==
  ASSUME NEW steps \in Seq(StepTypes), NEW m \in 0 .. Len(steps)
  PROVE  IsPrefix(CommandsUpTo(steps)[m], CommandsUpTo(steps)[Len(steps)])
<1> DEFINE c(i) == CommandsUpTo(steps)[i]
           Bad == {k \in m .. Len(steps) : ~IsPrefix(c(m), c(k))}
<1> SUFFICES ASSUME Bad # {} PROVE FALSE
  OBVIOUS
<1>1. Bad \subseteq Nat
  OBVIOUS
<1>2. PICK k \in Bad : \A i \in Bad : k <= i
  BY <1>1, SmallestNumber
<1>3. c(m) \in Seq(InteractiveMessage) /\ c(k) \in Seq(InteractiveMessage)
  BY CommandsType
<1>4. k # m
  BY <1>2, <1>3 DEF IsPrefix
<1>5. k \in 1 .. Len(steps) /\ k - 1 \in m .. Len(steps) /\ ~(k <= k - 1)
  BY <1>4
<1>6. IsPrefix(c(m), c(k - 1))
  BY <1>2, <1>5
<1>7. c(k - 1) \in Seq(InteractiveMessage)
  BY <1>5, CommandsType
<1>8. c(k) = c(k - 1) \/ \E x : c(k) = Append(c(k - 1), x)
  BY <1>5, CommandsOfSteps
<1> HIDE DEF c
<1>9. ASSUME NEW x, c(k) = Append(c(k - 1), x)
      PROVE  IsPrefix(c(m), c(k))
  <2>1. /\ Len(c(m)) <= Len(c(k - 1)) /\ Len(c(k)) = Len(c(k - 1)) + 1
        /\ Len(c(m)) \in Nat /\ Len(c(k - 1)) \in Nat
    BY <1>3, <1>6, <1>7, <1>9 DEF IsPrefix
  <2>2. \A i \in 1 .. Len(c(m)) : c(k)[i] = c(k - 1)[i]
    BY <1>7, <1>9, <2>1
  <2>3. SubSeq(c(k), 1, Len(c(m))) = SubSeq(c(k - 1), 1, Len(c(m)))
    BY <1>3, <1>7, <2>1, <2>2
  <2> QED BY <1>6, <2>1, <2>3 DEF IsPrefix
<1> QED BY <1>2, <1>6, <1>8, <1>9

-----------------------------------------------------------------------------
(* The rendering: what the Worker does *)

\* The variables of the Worker as a record, and what it sends.
WorkerRecord ==
  [done : {"none", "pending", "resolved", "rejected"}, held : BOOLEAN,
   ws : {"none", "connecting", "open", "gone"}, index : Nat,
   waiting : InteractiveMessage \union {"none"}, timer : BOOLEAN,
   pause : {"no", "sleep", "request", "end"}, sent : Seq(InteractiveMessage), kills : BOOLEAN]

\* A rendering that is under way, and its steps.
Rendering == RendererInv /\ version # "none"

LEMMA StepsOfTemplate == htmlTemplateGetSteps("casparCG") \in Seq(StepTypes)
<1> DEFINE s == <<"waitForLoad", "takeScreenshot", "startRecording", "executeJs", "executeJs",
                  "sleep", "takeScreenshot", "executeJs", "sleep", "takeScreenshot",
                  "stopRecording", "cropRecording">>
<1>1. Len(s) = 12 /\ s = [i \in 1 .. 12 |-> s[i]]
  OBVIOUS
<1>2. \A i \in 1 .. 12 : s[i] \in StepTypes
  BY DEF StepTypes
<1>3. htmlTemplateGetSteps("casparCG") = s
  BY DEF htmlTemplateGetSteps
<1> HIDE DEF s
<1>4. s \in [1 .. 12 -> StepTypes]
  BY <1>1, <1>2
<1>5. s \in Seq(StepTypes)
  BY <1>4, SeqDef
<1> QED BY <1>3, <1>5

LEMMA StepsTypeOf ==
  ASSUME version = "casparCG" \/ version \in Seq(StepTypes)
  PROVE  Steps \in Seq(StepTypes) /\ Len(Steps) \in Nat
<1>1. CASE version = "casparCG"
  BY <1>1, StepsOfTemplate DEF Steps
<1>2. CASE version # "casparCG"
  <2>1. Steps = version /\ version \in Seq(StepTypes)
    BY <1>2 DEF Steps, htmlTemplateGetSteps
  <2> QED BY <2>1
<1> QED BY <1>1, <1>2

LEMMA StepsType ==
  ASSUME Rendering
  PROVE  Steps \in Seq(StepTypes) /\ Len(Steps) \in Nat
BY StepsTypeOf DEF Rendering, RendererInv

LEMMA WorkerFacts ==
  ASSUME RendererInv
  PROVE  /\ W \in WorkerRecord
         /\ W.done = done /\ W.held = held /\ W.ws = ws /\ W.index = index /\ W.waiting = waiting
         /\ W.timer = timer /\ W.pause = pause /\ W.sent = <<>> /\ ~W.kills
<1>1. /\ done \in {"none", "pending", "resolved", "rejected"} /\ held \in BOOLEAN
      /\ ws \in {"none", "connecting", "open", "gone"} /\ index \in Nat
      /\ waiting \in InteractiveMessage \union {"none"} /\ timer \in BOOLEAN
      /\ pause \in {"no", "sleep", "request", "end"}
  BY DEF RendererInv, TypeOKOfRenderer
<1>2. <<>> \in Seq(InteractiveMessage)
  OBVIOUS
<1> QED BY <1>1, <1>2 DEF W, WorkerRecord

\* An error rejects the promise, if it is pending, and kills the process.
LEMMA OnErrorFacts ==
  ASSUME NEW w \in WorkerRecord
  PROVE  /\ onError(w) \in WorkerRecord
         /\ onError(w).done = IF w.done = "pending" THEN "rejected" ELSE w.done
         /\ onError(w).ws = w.ws /\ onError(w).index = w.index /\ onError(w).waiting = w.waiting
         /\ onError(w).pause = w.pause /\ onError(w).sent = w.sent
BY DEF onError, cancel, SettledAs, WorkerRecord

\* What it comes to next: the end, a step that can not be executed, one that takes time, or a
\* command.
NextStepIs(w, r) ==
  \/ /\ r.index = Len(Steps) /\ (r.index > 0 => ~IsWrong(r.index))
     /\ CommandsUpTo(Steps)[r.index] = CommandsUpTo(Steps)[w.index]
     /\ r.sent = <<"close">> /\ r.waiting = "none" /\ r.pause = "end"
  \/ /\ r.index > 0 /\ IsWrong(r.index)
     /\ CommandsUpTo(Steps)[r.index - 1] = CommandsUpTo(Steps)[w.index]
     /\ r.sent = <<>> /\ r.waiting = "none" /\ r.pause = w.pause
  \/ /\ r.index > 0 /\ ~IsWrong(r.index)
     /\ CommandsUpTo(Steps)[r.index] = CommandsUpTo(Steps)[w.index]
     /\ r.sent = <<>> /\ r.waiting = "none" /\ r.pause \in {"sleep", "request"}
  \/ /\ r.index > 0 /\ ~IsWrong(r.index) /\ IsCommand(Steps[r.index])
     /\ CommandsUpTo(Steps)[r.index - 1] = CommandsUpTo(Steps)[w.index]
     /\ r.waiting = Command(Steps[r.index]) /\ r.sent = <<r.waiting>> /\ r.pause = w.pause

NextIs(w, r) ==
  /\ r \in WorkerRecord /\ r.ws = w.ws /\ r.index \in 0 .. Len(Steps)
  /\ r.done = IF r.index > 0 /\ IsWrong(r.index) /\ w.done = "pending" THEN "rejected" ELSE w.done
  /\ NextStepIs(w, r)

LEMMA DoesNextCommand ==
  ASSUME Rendering, NEW w \in WorkerRecord, w.index \in 0 .. Len(Steps), w.index > 0 => ~IsWrong(w.index),
         w.sent = <<>>, w.waiting = "none"
  PROVE  NextIs(w, doNextCommand(w))
<1> DEFINE u == [w EXCEPT !.timer = FALSE]
           taken == {j \in u.index + 1 .. Len(Steps) : IsWrong(j) \/ Steps[j] \notin Local}
           i == CHOOSE j \in taken : \A k \in taken : j <= k
           v == [u EXCEPT !.index = i]
           r == doNextCommand(w)
<1> SUFFICES NextIs(w, r)
  OBVIOUS
<1>1. Steps \in Seq(StepTypes) /\ Len(Steps) \in Nat
  BY StepsType
<1>2. /\ u \in WorkerRecord /\ u.index = w.index /\ u.done = w.done /\ u.ws = w.ws
      /\ u.waiting = w.waiting /\ u.pause = w.pause /\ u.sent = w.sent
  BY DEF WorkerRecord
<1>3. taken \subseteq w.index + 1 .. Len(Steps)
  BY <1>2
<1>4. \A j \in w.index + 1 .. Len(Steps) : j \notin taken => ~IsWrong(j) /\ Steps[j] \in Local
  BY <1>2
<1>5. \A j \in taken : ~IsWrong(j) => Steps[j] \notin Local
  OBVIOUS
<1>6. r = IF taken = {}
          THEN [u EXCEPT !.index = Len(Steps), !.sent = Append(@, "close"), !.pause = "end"]
          ELSE CASE IsWrong(i) -> onError(v)
                 [] ~IsWrong(i) /\ Steps[i] = "sleep" -> [v EXCEPT !.pause = "sleep"]
                 [] ~IsWrong(i) /\ Steps[i] = "sendHTTPCommand" -> [v EXCEPT !.pause = "request"]
                 [] OTHER -> setCommandToRenderer(v, Command(Steps[i]))
  BY DEF doNextCommand
<1>7. \A s : s \in Local => ~IsCommand(s)
  BY DEF IsCommand
<1> HIDE DEF u, taken
<1>8. CASE taken = {}
  <2>1. r = [u EXCEPT !.index = Len(Steps), !.sent = Append(@, "close"), !.pause = "end"]
    BY <1>6, <1>8
  <2>2. Append(u.sent, "close") = <<"close">> /\ <<"close">> \in Seq(InteractiveMessage)
    BY <1>2 DEF InteractiveMessage
  <2> HIDE DEF r
  <2>3. /\ r \in WorkerRecord /\ r.ws = w.ws /\ r.index = Len(Steps) /\ r.done = w.done
        /\ r.sent = <<"close">> /\ r.waiting = "none" /\ r.pause = "end"
    <3> DEFINE c == <<"close">>
    <3>1. r = [u EXCEPT !.index = Len(Steps), !.sent = c, !.pause = "end"] /\ c \in Seq(InteractiveMessage)
      BY <2>1, <2>2
    <3> HIDE DEF c
    <3>2. /\ r \in WorkerRecord /\ r.ws = w.ws /\ r.index = Len(Steps) /\ r.done = w.done
          /\ r.sent = c /\ r.waiting = "none" /\ r.pause = "end"
      BY <1>1, <1>2, <3>1 DEF WorkerRecord
    <3> QED BY <3>2 DEF c
  <2>4. CommandsUpTo(Steps)[Len(Steps)] = CommandsUpTo(Steps)[w.index]
    BY <1>1, <1>4, <1>7, <1>8, StepsWithoutCommands
  <2>5. Len(Steps) > 0 => ~IsWrong(Len(Steps))
    BY <1>1, <1>4, <1>8
  <2>6. NextStepIs(w, r)
    BY <2>3, <2>4, <2>5 DEF NextStepIs
  <2>7. r.index \in 0 .. Len(Steps)
    BY <1>1, <2>3
  <2> QED BY <2>3, <2>5, <2>6, <2>7 DEF NextIs
<1>9. CASE taken # {}
  <2>1. /\ i \in w.index + 1 .. Len(Steps) /\ i > 0 /\ i - 1 \in w.index .. Len(Steps)
        /\ i \in taken /\ \A j \in w.index + 1 .. i - 1 : j \notin taken
    <3>1. taken \subseteq Nat
      BY <1>1, <1>3
    <3>2. \E j \in taken : \A k \in taken : j <= k
      BY <1>9, <3>1, SmallestNumber
    <3>3. i \in taken /\ \A k \in taken : i <= k
      BY <3>2
    <3> HIDE DEF i
    <3> QED BY <1>1, <1>3, <3>3
  <2> HIDE DEF i
  <2>2. CommandsUpTo(Steps)[i - 1] = CommandsUpTo(Steps)[w.index]
    <3>1. \A j \in w.index + 1 .. i - 1 : ~IsCommand(Steps[j])
      BY <1>1, <1>4, <1>7, <2>1
    <3> QED BY <1>1, <2>1, <3>1, StepsWithoutCommands
  <2>3. /\ v \in WorkerRecord /\ v.index = i /\ v.done = w.done /\ v.ws = w.ws
        /\ v.waiting = "none" /\ v.pause = w.pause /\ v.sent = <<>>
    BY <1>2, <2>1 DEF WorkerRecord
  <2>4. Steps[i] \in StepTypes
    BY <1>1, <2>1, ElementOfSeq
  <2>5. i \in 0 .. Len(Steps)
    BY <1>1, <2>1
  <2> HIDE DEF v
  <2>6. CASE IsWrong(i)
    <3>1. r = onError(v)
      BY <1>6, <1>9, <2>6
    <3> HIDE DEF r
    <3>2. /\ r \in WorkerRecord /\ r.ws = w.ws /\ r.index = i /\ r.sent = <<>>
          /\ r.done = (IF w.done = "pending" THEN "rejected" ELSE w.done)
          /\ r.waiting = "none" /\ r.pause = w.pause
      BY <2>3, <3>1, OnErrorFacts
    <3>3. NextStepIs(w, r)
      BY <2>1, <2>2, <2>6, <3>2 DEF NextStepIs
    <3> QED BY <2>1, <2>5, <2>6, <3>2, <3>3 DEF NextIs
  <2>7. ASSUME ~IsWrong(i), NEW p \in {"sleep", "request"}, r = [v EXCEPT !.pause = p],
               ~IsCommand(Steps[i])
        PROVE  NextIs(w, r)
    <3> HIDE DEF r
    <3>1. /\ r \in WorkerRecord /\ r.ws = w.ws /\ r.index = i /\ r.done = w.done
          /\ r.sent = <<>> /\ r.waiting = "none" /\ r.pause = p
      BY <2>3, <2>7 DEF WorkerRecord
    <3>2. CommandsUpTo(Steps)[i] = CommandsUpTo(Steps)[i - 1]
      BY <1>1, <2>1, <2>7, CommandsOfSteps
    <3>3. NextStepIs(w, r)
      BY <2>1, <2>2, <2>7, <3>1, <3>2 DEF NextStepIs
    <3> QED BY <2>5, <2>7, <3>1, <3>3 DEF NextIs
  <2>8. CASE ~IsWrong(i) /\ Steps[i] = "sleep"
    <3>1. r = [v EXCEPT !.pause = "sleep"]
      BY <1>6, <1>9, <2>8
    <3>2. ~IsCommand(Steps[i])
      BY <2>8 DEF IsCommand
    <3> QED BY <2>7, <2>8, <3>1, <3>2
  <2>9. CASE ~IsWrong(i) /\ Steps[i] = "sendHTTPCommand"
    <3>1. r = [v EXCEPT !.pause = "request"]
      BY <1>6, <1>9, <2>9
    <3>2. ~IsCommand(Steps[i])
      BY <2>9 DEF IsCommand
    <3> QED BY <2>7, <2>9, <3>1, <3>2
  <2>10. CASE ~IsWrong(i) /\ Steps[i] \notin {"sleep", "sendHTTPCommand"}
    <3> DEFINE c == Command(Steps[i])
    <3>1. r = setCommandToRenderer(v, c)
      BY <1>6, <1>9, <2>10
    <3>2. IsCommand(Steps[i])
      BY <1>5, <2>1, <2>10 DEF IsCommand
    <3>3. c \in InteractiveMessage
      BY <2>4, <3>2 DEF StepTypes, IsCommand, Local, Command, InteractiveMessage
    <3> HIDE DEF r, c
    <3>4. Append(<<>>, c) = <<c>> /\ <<c>> \in Seq(InteractiveMessage)
      BY <3>3
    <3>5. /\ r \in WorkerRecord /\ r.ws = w.ws /\ r.index = i /\ r.done = w.done
          /\ r.sent = <<c>> /\ r.waiting = c /\ r.pause = w.pause
      BY <2>3, <3>1, <3>3, <3>4 DEF setCommandToRenderer, WorkerRecord
    <3>6. NextStepIs(w, r)
      BY <2>1, <2>2, <2>10, <3>2, <3>5 DEF NextStepIs, c
    <3> QED BY <2>5, <2>10, <3>5, <3>6 DEF NextIs
  <2> QED BY <2>6, <2>8, <2>9, <2>10
<1> QED BY <1>8, <1>9
-----------------------------------------------------------------------------
(* The rendering: its steps *)

LEMMA SameSteps ==
  ASSUME UNCHANGED version
  PROVE  /\ Steps' = Steps
         /\ AtWrongStep' <=> index' > 0 /\ IsWrong(index')
         /\ Asked' = CommandsUpTo(Steps)[IF AtWrongStep' THEN index' - 1 ELSE index']
<1>1. Steps' = Steps
  BY DEF Steps
<1>2. AtWrongStep' <=> index' > 0 /\ IsWrong(index')
  BY <1>1 DEF AtWrongStep, IsWrong, IsStored
<1> QED BY <1>1, <1>2 DEF Asked

\* The messages on their way.
LEMMA CommandsFacts ==
  ASSUME Rendering
  PROVE  /\ commands \in {<<>>, <<"close">>, <<waiting>>}
         /\ commands \in Seq(InteractiveMessage) /\ commands \o <<>> = commands
         /\ waiting \in InteractiveMessage \union {"none"} /\ (waiting = "none" => commands # <<waiting>>)
<1>1. waiting \in InteractiveMessage \union {"none"}
  BY DEF Rendering, RendererInv, TypeOKOfRenderer
<1>2. \/ waiting = "none" /\ commands \in {<<>>, <<"close">>}
      \/ waiting # "none" /\ commands \in {<<>>, <<waiting>>}
  BY DEF Rendering, RendererInv, OneCommand
<1>3. "close" \in InteractiveMessage
  BY DEF InteractiveMessage
<1>4. commands \in Seq(InteractiveMessage)
  <2> DEFINE M == InteractiveMessage
  <2>1. commands = <<>> \/ \E c \in M : commands = <<c>>
    BY <1>1, <1>2, <1>3
  <2> HIDE DEF M
  <2>2. <<>> \in Seq(M) /\ \A c \in M : <<c>> \in Seq(M)
    OBVIOUS
  <2>3. commands \in Seq(M)
    BY <2>1, <2>2
  <2> QED BY <2>3 DEF M
<1>5. commands # <<waiting>> \/ waiting # "none"
  BY <1>2
<1> QED BY <1>1, <1>2, <1>4, <1>5

LEMMA RendererInvAfter ==
  ASSUME Rendering, UNCHANGED version, TypeOKOfRenderer', index' <= Len(Steps),
         OneCommand', NoStepBeforeItListens', OnePause'
  PROVE  RendererInv'
BY SameSteps DEF Rendering, RendererInv

Dying == {"closing", "failing", "exited"}

\* The command that is under way has failed, with the process.
HasFailed ==
  /\ waiting # "none" /\ rendered = CommandsUpTo(Steps)[index - 1]
  /\ busy = "none" /\ commands = <<>> /\ process \in Dying

\* What is not about commands leaves the one that is under way alone, but for news of its failure.
LEMMA OneCommandStays ==
  ASSUME Rendering, UNCHANGED <<version, index, waiting, rendered, busy, commands>>,
         replies' = replies \/ (HasFailed /\ replies' = <<>>),
         process \in Dying => process' \in Dying
  PROVE  OneCommand' /\ (AtWrongStep' <=> AtWrongStep)
<1>1. AtWrongStep' <=> AtWrongStep
  BY SameSteps DEF AtWrongStep
<1>2. Asked' = Asked /\ Steps' = Steps
  BY <1>1, SameSteps DEF Asked
<1>3. OneCommand
  BY DEF Rendering, RendererInv
<1>4. CASE replies' = replies
  BY <1>1, <1>2, <1>3, <1>4 DEF OneCommand, Dying
<1>5. CASE HasFailed /\ replies' = <<>>
  BY <1>1, <1>2, <1>3, <1>5 DEF OneCommand, Dying, HasFailed
<1> QED BY <1>1, <1>4, <1>5

\* The types of what the Worker sets.
LEMMA WorkerTypes ==
  ASSUME Rendering, NEW w \in WorkerRecord, WorkerDoes(w), stopped' \in BOOLEAN, upsets' \in 0 .. MaxUpsets,
         UNCHANGED <<version, stdout, browser>>, commands' \in Seq(InteractiveMessage)
  PROVE  TypeOKOfRenderer'
<1>1. /\ done' = w.done /\ held' = w.held /\ ws' = w.ws /\ index' = w.index
      /\ waiting' = w.waiting /\ timer' = w.timer /\ pause' = w.pause
  BY DEF WorkerDoes
<1>2. /\ done' \in {"none", "pending", "resolved", "rejected"}
      /\ held' \in BOOLEAN /\ timer' \in BOOLEAN
      /\ ws' \in {"none", "connecting", "open", "gone"}
      /\ index' \in Nat /\ pause' \in {"no", "sleep", "request", "end"}
      /\ waiting' \in InteractiveMessage \union {"none"}
  BY <1>1 DEF WorkerRecord
<1>3. process' \in {process, "exited"} /\ exitCode' \in {exitCode, "error"}
  BY DEF WorkerDoes
<1>4. \A c \in ToSet(commands') : c \in InteractiveMessage
  BY DEF ToSet
<1>5. busy' = busy /\ busy \in InteractiveMessage \union {"none"}
  BY DEF Rendering, RendererInv, TypeOKOfRenderer, browser
<1>6. \A c \in {waiting', busy'} \union ToSet(commands') : c \in InteractiveMessage \union {"none"}
  BY <1>2, <1>4, <1>5
<1>7. /\ process' \in {"none", "starting", "listening", "closing", "failing", "exited"}
      /\ exitCode' \in {"none", "success", "error", "seen"}
      /\ page' \in {"loading", "loaded", "failed"} /\ recording' \in {"none", "recording", "stopped"}
  BY <1>3 DEF Rendering, RendererInv, TypeOKOfRenderer, browser
<1>8. stdout' \in BOOLEAN
  BY DEF Rendering, RendererInv, TypeOKOfRenderer
<1> QED BY <1>2, <1>6, <1>7, <1>8 DEF TypeOKOfRenderer

\* The Worker goes on without a command: it has been cancelled, is in error, or at the end.
LEMMA WithoutCommand ==
  ASSUME Rendering, NEW w \in WorkerRecord, WorkerDoes(w), stopped' \in BOOLEAN, upsets' \in 0 .. MaxUpsets,
         UNCHANGED <<version, stdout, browser>>,
         replies' = replies \/ (HasFailed /\ replies' = <<>>),
         w.index = index, w.waiting = waiting, w.sent = <<>>,
         w.ws = ws \/ (ws # "none" /\ w.ws = "gone"),
         w.pause \in {pause, "no"}, pause = "end" => w.pause = "end" \/ w.ws = "gone",
         w.done = "none" <=> done = "none",
         w.done = "resolved" => done = "resolved" \/ (pause = "end" /\ w.pause = "no" /\ w.ws = "gone")
  PROVE  RendererInv'
<1>1. /\ done' = w.done /\ ws' = w.ws /\ index' = index /\ waiting' = waiting /\ pause' = w.pause
  BY DEF WorkerDoes
<1>2. commands' = commands
  BY CommandsFacts DEF WorkerDoes
<1>3. process' = process \/ (process # "none" /\ process' = "exited")
  BY DEF WorkerDoes, Alive
<1>4. OneCommand' /\ (AtWrongStep' <=> AtWrongStep)
  BY <1>1, <1>2, <1>3, OneCommandStays DEF browser, Dying
<1>5. TypeOKOfRenderer'
  BY <1>2, WorkerTypes, CommandsFacts
<1>6. index \in Nat /\ index <= Len(Steps) /\ NoStepBeforeItListens /\ OnePause
  BY DEF Rendering, RendererInv, TypeOKOfRenderer
<1>7. NoStepBeforeItListens'
  BY <1>1, <1>2, <1>3, <1>6 DEF NoStepBeforeItListens, OnePause
<1>8. OnePause'
  <2>1. done' = "resolved" => index = Len(Steps) /\ waiting = "none" /\ pause' = "no" /\ ws' = "gone" /\ ~AtWrongStep
    BY <1>1, <1>6 DEF OnePause
  <2> QED BY <1>1, <1>2, <1>4, <1>6, <2>1, SameSteps DEF OnePause
<1> QED BY <1>1, <1>4, <1>5, <1>6, <1>7, <1>8, RendererInvAfter

\* The Worker takes the next steps, up to one that takes time.
LEMMA TakesNextSteps ==
  ASSUME Rendering, NEW w \in WorkerRecord, WorkerDoes(doNextCommand(w)), upsets' \in 0 .. MaxUpsets,
         UNCHANGED <<version, stopped, stdout, browser>>, replies' = <<>>,
         w.index = index, w.waiting = "none", w.sent = <<>>, w.ws = "open", w.pause = "no",
         w.done = done, done \notin {"none", "resolved"},
         ~AtWrongStep, rendered = CommandsUpTo(Steps)[index], busy = "none", commands = <<>>,
         ~stdout, process \notin {"none", "starting"}
  PROVE  RendererInv'
<1> DEFINE r == doNextCommand(w)
           U == CommandsUpTo(Steps)
<1>1. index \in 0 .. Len(Steps) /\ Len(Steps) \in Nat
  BY StepsType DEF Rendering, RendererInv, TypeOKOfRenderer
<1>2. NextIs(w, r)
  BY <1>1, DoesNextCommand DEF AtWrongStep
<1> HIDE DEF r
<1>3. /\ r \in WorkerRecord /\ r.ws = "open" /\ r.index \in 0 .. Len(Steps)
      /\ r.done = IF r.index > 0 /\ IsWrong(r.index) /\ done = "pending" THEN "rejected" ELSE done
      /\ NextStepIs(w, r)
  BY <1>2 DEF NextIs
<1>4. WorkerDoes(r)
  BY DEF r
<1>5. done' = r.done /\ ws' = "open" /\ index' = r.index /\ waiting' = r.waiting /\ pause' = r.pause
  BY <1>3, <1>4 DEF WorkerDoes
<1>6. process' \notin {"none", "starting"}
  BY <1>4 DEF WorkerDoes
<1>7. rendered' = rendered /\ busy' = "none" /\ ~stdout'
  BY DEF browser
<1>8. commands' = IF Alive THEN <<>> \o r.sent ELSE <<>>
  BY <1>4 DEF WorkerDoes
<1>9. r.sent \in Seq(InteractiveMessage)
  BY <1>3 DEF WorkerRecord
<1>10. commands' = IF Alive THEN r.sent ELSE <<>>
  BY <1>8, <1>9
<1>11. TypeOKOfRenderer'
  <2>1. commands' \in Seq(InteractiveMessage)
    BY <1>9, <1>10
  <2>2. stopped' \in BOOLEAN
    BY DEF Rendering, RendererInv, TypeOKOfRenderer
  <2> QED BY <1>3, <1>4, <2>1, <2>2, WorkerTypes
<1>12. /\ Steps' = Steps /\ (AtWrongStep' <=> r.index > 0 /\ IsWrong(r.index))
       /\ Asked' = U[IF AtWrongStep' THEN r.index - 1 ELSE r.index]
  BY <1>5, SameSteps
<1>13. done' \notin {"none", "resolved"}
  BY <1>3, <1>5
<1> HIDE DEF U
<1>14. OneCommand' /\ OnePause' /\ (index' = 0 => waiting' = "none" /\ (commands' = <<>> \/ pause' = "end"))
  <2>1. CASE /\ r.index = Len(Steps) /\ (r.index > 0 => ~IsWrong(r.index)) /\ U[r.index] = U[w.index]
             /\ r.sent = <<"close">> /\ r.waiting = "none" /\ r.pause = "end"
    <3>1. ~AtWrongStep' /\ waiting' = "none" /\ rendered' = Asked'
      BY <1>5, <1>7, <1>12, <2>1 DEF U
    <3>2. commands' \in {<<>>, <<"close">>}
      BY <1>10, <2>1
    <3>3. OneCommand'
      BY <1>7, <3>1, <3>2 DEF OneCommand
    <3> QED BY <1>5, <1>12, <1>13, <2>1, <3>1, <3>3 DEF OnePause
  <2>2. CASE /\ r.index > 0 /\ IsWrong(r.index) /\ U[r.index - 1] = U[w.index]
             /\ r.sent = <<>> /\ r.waiting = "none" /\ r.pause = w.pause
    <3>1. AtWrongStep' /\ waiting' = "none" /\ rendered' = Asked' /\ pause' = "no"
      BY <1>5, <1>7, <1>12, <2>2 DEF U
    <3>2. commands' = <<>>
      BY <1>10, <2>2
    <3>3. OneCommand'
      BY <1>7, <3>1, <3>2 DEF OneCommand
    <3> QED BY <1>5, <1>12, <1>13, <2>2, <3>1, <3>2, <3>3 DEF OnePause
  <2>3. CASE /\ r.index > 0 /\ ~IsWrong(r.index) /\ U[r.index] = U[w.index]
             /\ r.sent = <<>> /\ r.waiting = "none" /\ r.pause \in {"sleep", "request"}
    <3>1. ~AtWrongStep' /\ waiting' = "none" /\ rendered' = Asked'
      BY <1>5, <1>7, <1>12, <2>3 DEF U
    <3>2. commands' = <<>>
      BY <1>10, <2>3
    <3>3. OneCommand'
      BY <1>7, <3>1, <3>2 DEF OneCommand
    <3> QED BY <1>5, <1>12, <1>13, <2>3, <3>1, <3>2, <3>3 DEF OnePause
  <2>4. CASE /\ r.index > 0 /\ ~IsWrong(r.index) /\ IsCommand(Steps[r.index])
             /\ U[r.index - 1] = U[w.index]
             /\ r.waiting = Command(Steps[r.index]) /\ r.sent = <<r.waiting>> /\ r.pause = w.pause
    <3>1. ~AtWrongStep' /\ rendered' = U[index' - 1] /\ pause' = "no" /\ index' > 0
      BY <1>5, <1>7, <1>12, <2>4 DEF U
    <3>2. IF Alive THEN commands' = <<waiting'>> ELSE commands' = <<>> /\ process' \in Dying
      <4>1. ~Alive => process' = "exited"
        BY <1>4 DEF Alive, WorkerDoes
      <4> QED BY <1>5, <1>10, <2>4, <4>1 DEF Dying
    <3>3. waiting' # "none"
      <4>1. Steps[r.index] \in StepTypes
        BY <1>1, <1>3, <2>4, StepsType, ElementOfSeq
      <4> QED BY <1>5, <2>4, <4>1 DEF StepTypes, Command
    <3>4. OneCommand'
      BY <1>5, <1>7, <1>12, <2>4, <3>1, <3>2, <3>3 DEF OneCommand, Dying, U
    <3> QED BY <1>5, <1>13, <2>4, <3>1, <3>4 DEF OnePause
  <2> QED BY <1>3, <2>1, <2>2, <2>3, <2>4 DEF NextStepIs, U
<1>15. NoStepBeforeItListens'
  BY <1>5, <1>6, <1>7, <1>13, <1>14 DEF NoStepBeforeItListens
<1> QED BY <1>3, <1>5, <1>11, <1>14, <1>15, RendererInvAfter

LEMMA UpsetsType ==
  ASSUME RendererInv, Smooth \/ Upset
  PROVE  upsets' \in 0 .. MaxUpsets
BY MaxUpsetsAssumption DEF RendererInv, TypeOKOfRenderer, Smooth, Upset

LEMMA CancelsStep ==
  ASSUME Rendering, Cancels
  PROVE  RendererInv'
<1> DEFINE w == cancel(W)
<1>1. /\ w \in WorkerRecord /\ w.done = done /\ w.ws = ws /\ w.index = index /\ w.waiting = waiting
      /\ w.pause = pause /\ w.sent = <<>>
  BY WorkerFacts DEF Rendering, cancel, WorkerRecord
<1>2. WorkerDoes(w) /\ stopped' \in BOOLEAN /\ UNCHANGED <<version, stdout, replies, browser>>
  BY DEF Cancels
<1>3. upsets' \in 0 .. MaxUpsets
  BY UpsetsType DEF Cancels, Rendering
<1> HIDE DEF w
<1> QED BY <1>1, <1>2, <1>3, WithoutCommand

LEMMA CommandTimeoutStep ==
  ASSUME Rendering, CommandTimeout
  PROVE  RendererInv'
<1> DEFINE u == [W EXCEPT !.timer = FALSE]
           w == onError(u)
<1>1. /\ u \in WorkerRecord /\ u.done = done /\ u.ws = ws /\ u.index = index /\ u.waiting = waiting
      /\ u.pause = pause /\ u.sent = <<>>
  BY WorkerFacts DEF Rendering, WorkerRecord
<1>2. WorkerDoes(w) /\ UNCHANGED <<version, stopped, stdout, replies, browser>>
  BY DEF CommandTimeout
<1>3. upsets' \in 0 .. MaxUpsets /\ stopped' \in BOOLEAN
  BY <1>2, UpsetsType DEF CommandTimeout, Rendering, RendererInv, TypeOKOfRenderer
<1> HIDE DEF u
<1>4. /\ w \in WorkerRecord /\ w.done = (IF done = "pending" THEN "rejected" ELSE done) /\ w.ws = ws
      /\ w.index = index /\ w.waiting = waiting /\ w.pause = pause /\ w.sent = <<>>
  BY <1>1, OnErrorFacts
<1> HIDE DEF w
<1> QED BY <1>2, <1>3, <1>4, WithoutCommand

LEMMA OnCompleteStep ==
  ASSUME Rendering, onComplete
  PROVE  RendererInv'
<1> DEFINE w == SettledAs([W EXCEPT !.pause = "no", !.ws = "gone"], "resolved")
<1>1. /\ w \in WorkerRecord /\ w.done = (IF done = "pending" THEN "resolved" ELSE done)
      /\ w.ws = "gone" /\ w.index = index /\ w.waiting = waiting /\ w.pause = "no" /\ w.sent = <<>>
  BY WorkerFacts DEF Rendering, SettledAs, WorkerRecord
<1>2. pause = "end" /\ WorkerDoes(w) /\ UNCHANGED <<version, stopped, stdout, replies, browser>>
  BY DEF onComplete
<1>3. upsets' \in 0 .. MaxUpsets /\ stopped' \in BOOLEAN
  BY <1>2, UpsetsType DEF onComplete, Rendering, RendererInv, TypeOKOfRenderer
<1>4. ws # "none"
  BY <1>2 DEF Rendering, RendererInv, NoStepBeforeItListens
<1> HIDE DEF w
<1> QED BY <1>1, <1>2, <1>3, <1>4, WithoutCommand

\* A pause in which nothing is under way, with the connection there.
LEMMA NothingUnderWay ==
  ASSUME Rendering, ws = "open", waiting = "none", commands = <<>>, pause \in {"no", "sleep", "request"},
         ~AtWrongStep
  PROVE  /\ done \notin {"none", "resolved"} /\ ~stdout /\ process \notin {"none", "starting"}
         /\ rendered = CommandsUpTo(Steps)[index] /\ busy = "none" /\ replies = <<>>
<1>1. /\ done \notin {"none", "resolved"} /\ ~stdout /\ process \notin {"none", "starting"}
  BY DEF Rendering, RendererInv, NoStepBeforeItListens, OnePause
<1>2. rendered = CommandsUpTo(Steps)[index] /\ busy = "none" /\ replies = <<>>
  BY DEF Rendering, RendererInv, OneCommand, Asked
<1> QED BY <1>1, <1>2

\* What has been waited for is over: the next steps, or no connection to send a command to.
LEMMA PauseIsOver ==
  ASSUME Rendering, pause \in {"sleep", "request"}, UNCHANGED <<version, stopped, stdout, replies, browser>>,
         upsets' \in 0 .. MaxUpsets,
         LET w == [W EXCEPT !.pause = "no"]
         IN  \/ ws = "open" /\ WorkerDoes(doNextCommand(w))
             \/ WorkerDoes(w)
             \/ WorkerDoes(onError(w))
  PROVE  RendererInv'
<1> DEFINE w == [W EXCEPT !.pause = "no"]
<1>1. /\ w \in WorkerRecord /\ w.done = done /\ w.ws = ws /\ w.index = index /\ w.waiting = waiting
      /\ w.pause = "no" /\ w.sent = <<>>
  BY WorkerFacts DEF Rendering, WorkerRecord
<1>2. stopped' \in BOOLEAN
  BY DEF Rendering, RendererInv, TypeOKOfRenderer
<1>3. \/ ws = "open" /\ WorkerDoes(doNextCommand(w))
      \/ WorkerDoes(w)
      \/ WorkerDoes(onError(w))
  OBVIOUS
<1>4. waiting = "none" /\ commands = <<>> /\ ~AtWrongStep /\ done # "resolved"
  BY DEF Rendering, RendererInv, OnePause
<1> HIDE DEF w
<1>5. CASE WorkerDoes(w)
  BY <1>1, <1>2, <1>4, <1>5, WithoutCommand
<1>6. CASE WorkerDoes(onError(w))
  <2> DEFINE r == onError(w)
  <2>1. /\ r \in WorkerRecord /\ r.done = (IF done = "pending" THEN "rejected" ELSE done) /\ r.ws = ws
        /\ r.index = index /\ r.waiting = waiting /\ r.pause = "no" /\ r.sent = <<>>
    BY <1>1, OnErrorFacts
  <2>2. WorkerDoes(r)
    BY <1>6
  <2> HIDE DEF r
  <2> QED BY <1>2, <1>4, <2>1, <2>2, WithoutCommand
<1>7. CASE ws = "open" /\ WorkerDoes(doNextCommand(w))
  <2>1. /\ done \notin {"none", "resolved"} /\ ~stdout /\ process \notin {"none", "starting"}
        /\ rendered = CommandsUpTo(Steps)[index] /\ busy = "none" /\ replies = <<>>
    BY <1>4, <1>7, NothingUnderWay
  <2> QED BY <1>1, <1>4, <1>7, <2>1, TakesNextSteps
<1> QED BY <1>3, <1>5, <1>6, <1>7

LEMMA SleepIsOverStep ==
  ASSUME Rendering, SleepIsOver
  PROVE  RendererInv'
<1>1. upsets' \in 0 .. MaxUpsets
  BY UpsetsType DEF SleepIsOver, Rendering
<1> QED BY <1>1, PauseIsOver DEF SleepIsOver

LEMMA RequestEndsStep ==
  ASSUME Rendering, RequestEnds
  PROVE  RendererInv'
<1>1. upsets' \in 0 .. MaxUpsets
  BY UpsetsType DEF RequestEnds, Rendering
<1> QED BY <1>1, PauseIsOver DEF RequestEnds

LEMMA ConnectedStep ==
  ASSUME Rendering, Connected
  PROVE  RendererInv'
<1>1. /\ upsets' \in 0 .. MaxUpsets /\ stopped' \in BOOLEAN
      /\ ws = "connecting" /\ UNCHANGED <<version, stopped, stdout, replies, browser>>
  BY UpsetsType DEF Connected, Rendering, RendererInv, TypeOKOfRenderer
<1>2. /\ done # "none" /\ done # "resolved" /\ ~stdout /\ process \notin {"none", "starting"}
      /\ index = 0 /\ pause = "no" /\ waiting = "none" /\ commands = <<>>
  BY <1>1 DEF Rendering, RendererInv, NoStepBeforeItListens, OnePause
<1>3. ~AtWrongStep
  BY <1>2 DEF AtWrongStep
<1>4. rendered = CommandsUpTo(Steps)[index] /\ busy = "none" /\ replies = <<>>
  BY <1>2, <1>3 DEF Rendering, RendererInv, OneCommand, Asked
<1>5. CASE Alive
  <2> DEFINE w == [W EXCEPT !.ws = "open"]
  <2>1. /\ w \in WorkerRecord /\ w.done = done /\ w.ws = "open" /\ w.index = index
        /\ w.waiting = waiting /\ w.pause = pause /\ w.sent = <<>>
    BY WorkerFacts DEF Rendering, WorkerRecord
  <2>2. WorkerDoes(doNextCommand(w))
    BY <1>5 DEF Connected
  <2> HIDE DEF w
  <2> QED BY <1>1, <1>2, <1>3, <1>4, <2>1, <2>2, TakesNextSteps
<1>6. CASE ~Alive
  <2> DEFINE w == [W EXCEPT !.ws = "gone"]
             r == onError(w)
  <2>1. /\ w \in WorkerRecord /\ w.done = done /\ w.ws = "gone" /\ w.index = index
        /\ w.waiting = waiting /\ w.pause = pause /\ w.sent = <<>>
    BY WorkerFacts DEF Rendering, WorkerRecord
  <2>2. WorkerDoes(r)
    BY <1>6 DEF Connected
  <2> HIDE DEF w
  <2>3. /\ r \in WorkerRecord /\ r.done = (IF done = "pending" THEN "rejected" ELSE done)
        /\ r.ws = "gone" /\ r.index = index /\ r.waiting = waiting /\ r.pause = pause /\ r.sent = <<>>
    BY <2>1, OnErrorFacts
  <2> HIDE DEF r
  <2> QED BY <1>1, <1>2, <2>2, <2>3, WithoutCommand
<1> QED BY <1>5, <1>6

LEMMA OnMessageStep ==
  ASSUME Rendering, OnMessage
  PROVE  RendererInv'
<1> DEFINE m == Head(replies)
           u == [W EXCEPT !.waiting = "none"]
           e == onError(W)
<1>1. /\ ws = "open" /\ replies # <<>> /\ replies' = Tail(replies) /\ WorkerDoes(OnReply(W, m))
      /\ UNCHANGED <<version, stopped, stdout, browser>>
  BY DEF OnMessage
<1>2. upsets' \in 0 .. MaxUpsets /\ stopped' \in BOOLEAN
  BY <1>1, UpsetsType DEF OnMessage, Rendering, RendererInv, TypeOKOfRenderer
<1>3. /\ W.waiting = waiting
      /\ u \in WorkerRecord /\ u.done = done /\ u.ws = ws /\ u.index = index
      /\ u.waiting = "none" /\ u.pause = pause /\ u.sent = <<>>
  BY WorkerFacts DEF Rendering, WorkerRecord
<1>4. /\ e \in WorkerRecord /\ e.done = (IF done = "pending" THEN "rejected" ELSE done) /\ e.ws = ws
      /\ e.index = index /\ e.waiting = waiting /\ e.pause = pause /\ e.sent = <<>>
  BY WorkerFacts, OnErrorFacts DEF Rendering
<1>5. OnReply(W, m) = IF m.error \/ m.reply # waiting THEN e ELSE doNextCommand(u)
  BY <1>3 DEF OnReply
<1> HIDE DEF u, e
<1>6. OneCommand /\ waiting # "none"
  BY <1>1 DEF Rendering, RendererInv, OneCommand
<1>7. pause = "no" /\ ~AtWrongStep /\ done # "resolved"
  BY <1>6 DEF Rendering, RendererInv, OnePause
<1>8. done # "none" /\ ~stdout /\ process \notin {"none", "starting"}
  BY <1>1 DEF Rendering, RendererInv, NoStepBeforeItListens
<1>9. CASE /\ rendered = Asked /\ busy = "none" /\ commands = <<>>
           /\ replies = <<[reply |-> waiting, error |-> FALSE]>>
  <2>1. m.reply = waiting /\ m.error = FALSE /\ replies' = <<>>
    BY <1>1, <1>9
  <2>2. WorkerDoes(doNextCommand(u))
    BY <1>1, <1>5, <2>1
  <2>3. rendered = CommandsUpTo(Steps)[index]
    BY <1>7, <1>9 DEF Asked
  <2> QED BY <1>1, <1>2, <1>3, <1>7, <1>8, <1>9, <2>1, <2>2, <2>3, TakesNextSteps
<1>10. CASE /\ rendered = CommandsUpTo(Steps)[index - 1] /\ busy = "none" /\ commands = <<>>
            /\ replies \in {<<>>, <<[reply |-> waiting, error |-> TRUE]>>} /\ process \in Dying
  <2>1. m.error = TRUE /\ replies' = <<>>
    <3>1. replies = <<[reply |-> waiting, error |-> TRUE]>>
      BY <1>1, <1>10
    <3> QED BY <1>1, <3>1
  <2>2. WorkerDoes(e)
    BY <1>1, <1>5, <2>1
  <2>3. HasFailed
    BY <1>6, <1>10 DEF HasFailed
  <2> QED BY <1>1, <1>2, <1>4, <1>7, <1>8, <2>1, <2>2, <2>3, WithoutCommand
<1> QED BY <1>1, <1>6, <1>9, <1>10 DEF OneCommand, Dying

\* Steps that change nothing of a command nor of what the Worker waits for.
LEMMA Besides ==
  ASSUME Rendering, TypeOKOfRenderer',
         UNCHANGED <<version, index, waiting, pause, commands, replies, busy, rendered>>,
         process \in Dying => process' \in Dying,
         ws' = ws \/ (ws = "open" /\ ws' = "gone") \/ (stdout /\ ws' = "connecting"),
         done' = "resolved" => done = "resolved",
         NoStepBeforeItListens'
  PROVE  RendererInv'
<1>1. OneCommand' /\ (AtWrongStep' <=> AtWrongStep) /\ Steps' = Steps
  BY OneCommandStays, SameSteps
<1>2. index' <= Len(Steps) /\ OnePause /\ NoStepBeforeItListens
  BY DEF Rendering, RendererInv
<1>3. OnePause'
  <2>1. done = "resolved" => ws' = "gone"
    BY <1>2 DEF OnePause, NoStepBeforeItListens
  <2> QED BY <1>1, <1>2, <2>1 DEF OnePause
<1> QED BY <1>1, <1>2, <1>3, RendererInvAfter

LEMMA SpawnStep ==
  ASSUME Rendering, spawnHTMLRendererProcess
  PROVE  RendererInv'
<1>1. /\ done = "none" /\ done' = "pending" /\ held' = TRUE /\ process' = "starting"
      /\ UNCHANGED <<version, ws, index, waiting, timer, pause, stopped, exitCode, channels, browser>>
  BY DEF spawnHTMLRendererProcess
<1>2. upsets' \in 0 .. MaxUpsets
  BY UpsetsType DEF spawnHTMLRendererProcess, Rendering
<1>3. TypeOKOfRenderer'
  BY <1>1, <1>2 DEF Rendering, RendererInv, TypeOKOfRenderer, channels, browser
<1>4. process = "none" /\ NoStepBeforeItListens
  BY <1>1 DEF Rendering, RendererInv, NoStepBeforeItListens
<1>5. NoStepBeforeItListens'
  BY <1>1, <1>4 DEF NoStepBeforeItListens, channels
<1> QED BY <1>1, <1>3, <1>4, <1>5, Besides DEF channels, browser, Dying

LEMMA SetupStep ==
  ASSUME Rendering, setupWebSocketConnection
  PROVE  RendererInv'
<1>1. /\ stdout /\ stdout' = FALSE /\ ws' = "connecting"
      /\ UNCHANGED <<version, done, held, index, waiting, timer, pause, stopped, process, exitCode,
                     commands, replies, browser>>
  BY DEF setupWebSocketConnection
<1>2. upsets' \in 0 .. MaxUpsets
  BY UpsetsType DEF setupWebSocketConnection, Rendering
<1>3. TypeOKOfRenderer'
  <2>1. UNCHANGED <<busy, page, recording>> /\ TypeOKOfRenderer /\ stdout' \in BOOLEAN
    BY <1>1 DEF Rendering, RendererInv, browser
  <2> QED BY <1>1, <1>2, <2>1 DEF TypeOKOfRenderer
<1>4. NoStepBeforeItListens'
  BY <1>1 DEF Rendering, RendererInv, NoStepBeforeItListens
<1> QED BY <1>1, <1>3, <1>4, Besides DEF browser

LEMMA ClosesStep ==
  ASSUME Rendering, WebSocketCloses
  PROVE  RendererInv'
<1>1. /\ ws = "open" /\ ws' = "gone"
      /\ UNCHANGED <<version, done, held, index, waiting, timer, pause, stopped, process, exitCode,
                     channels, browser>>
  BY DEF WebSocketCloses
<1>2. upsets' \in 0 .. MaxUpsets
  BY UpsetsType DEF WebSocketCloses, Rendering
<1>3. TypeOKOfRenderer'
  BY <1>1, <1>2 DEF Rendering, RendererInv, TypeOKOfRenderer, channels, browser
<1>4. NoStepBeforeItListens'
  BY <1>1 DEF Rendering, RendererInv, NoStepBeforeItListens, channels
<1> QED BY <1>1, <1>3, <1>4, Besides DEF channels, browser

LEMMA OnCloseStep ==
  ASSUME Rendering, onClose
  PROVE  RendererInv'
<1> DEFINE w == [W EXCEPT !.held = FALSE]
<1>1. w \in WorkerRecord /\ w.done = done
  BY WorkerFacts DEF Rendering, WorkerRecord
<1>2. /\ process = "exited" /\ done' \in {done, onError(w).done} /\ held' = FALSE /\ exitCode' = "seen"
      /\ stdout' = (stdout /\ ~held)
      /\ UNCHANGED <<version, ws, index, waiting, timer, pause, stopped, process, commands, replies,
                     browser>>
  BY DEF onClose
<1> HIDE DEF w
<1>3. done' = done \/ (done = "pending" /\ done' = "rejected")
  BY <1>1, <1>2, OnErrorFacts
<1>4. upsets' \in 0 .. MaxUpsets
  BY UpsetsType DEF onClose, Rendering
<1>5. stdout' \in BOOLEAN /\ (stdout' => stdout)
  BY <1>2
<1>6. TypeOKOfRenderer'
  BY <1>2, <1>3, <1>4, <1>5 DEF Rendering, RendererInv, TypeOKOfRenderer, browser
<1>7. NoStepBeforeItListens'
  BY <1>2, <1>3, <1>5 DEF Rendering, RendererInv, NoStepBeforeItListens
<1> QED BY <1>2, <1>3, <1>6, <1>7, Besides DEF browser

LEMMA ListensStep ==
  ASSUME Rendering, Listens
  PROVE  RendererInv'
<1>1. /\ process = "starting"
      /\ \/ process' = "listening" /\ stdout' = TRUE
         \/ process' = "failing" /\ UNCHANGED stdout
      /\ UNCHANGED <<version, worker, exitCode, commands, replies, browser>>
  BY DEF Listens
<1>2. upsets' \in 0 .. MaxUpsets
  BY UpsetsType DEF Listens, Rendering
<1>3. TypeOKOfRenderer'
  <2>1. /\ TypeOKOfRenderer /\ stdout' \in BOOLEAN /\ process' \in {"listening", "failing"}
        /\ UNCHANGED <<done, held, ws, index, waiting, timer, pause, stopped, busy, page, recording>>
    BY <1>1 DEF Rendering, RendererInv, TypeOKOfRenderer, worker, browser
  <2> QED BY <1>1, <1>2, <2>1 DEF TypeOKOfRenderer
<1>4. NoStepBeforeItListens'
  BY <1>1 DEF Rendering, RendererInv, NoStepBeforeItListens, worker
<1> QED BY <1>1, <1>3, <1>4, Besides DEF worker, browser, Dying

LEMMA PageLoadsStep ==
  ASSUME Rendering, PageLoads
  PROVE  RendererInv'
<1>1. /\ page' \in {"loaded", "failed"}
      /\ UNCHANGED <<version, worker, process, exitCode, channels, busy, recording, rendered>>
  BY DEF PageLoads
<1>2. upsets' \in 0 .. MaxUpsets
  BY UpsetsType DEF PageLoads, Rendering
<1>3. TypeOKOfRenderer'
  BY <1>1, <1>2 DEF Rendering, RendererInv, TypeOKOfRenderer, worker, channels
<1>4. NoStepBeforeItListens'
  BY <1>1 DEF Rendering, RendererInv, NoStepBeforeItListens, worker, channels
<1> QED BY <1>1, <1>3, <1>4, Besides DEF worker, channels

LEMMA ProcessEndsRendering ==
  ASSUME Rendering, Exits \/ Crashes
  PROVE  RendererInv'
<1>1. /\ process # "none" /\ process' = "exited" /\ exitCode' \in {"success", "error"}
      /\ UNCHANGED <<version, worker, channels, browser>>
  BY DEF Exits, Crashes, Alive
<1>2. upsets' \in 0 .. MaxUpsets
  BY UpsetsType DEF Exits, Crashes, Rendering
<1>3. TypeOKOfRenderer'
  BY <1>1, <1>2 DEF Rendering, RendererInv, TypeOKOfRenderer, worker, channels, browser
<1>4. NoStepBeforeItListens'
  BY <1>1 DEF Rendering, RendererInv, NoStepBeforeItListens, worker, channels
<1> QED BY <1>1, <1>3, <1>4, Besides DEF worker, channels, browser, Dying

\* The command that is waited for is one of the steps'.
LEMMA WaitsForACommand ==
  ASSUME Rendering, waiting # "none"
  PROVE  /\ waiting \in InteractiveMessage \ {"close"} /\ index \in 1 .. Len(Steps)
         /\ CommandsUpTo(Steps)[index] = Append(CommandsUpTo(Steps)[index - 1], waiting)
         /\ Asked = CommandsUpTo(Steps)[index]
<1>1. /\ index > 0 /\ IsCommand(Steps[index]) /\ ~AtWrongStep /\ waiting = Command(Steps[index])
  BY DEF Rendering, RendererInv, OneCommand
<1>2. index \in 1 .. Len(Steps) /\ Steps \in Seq(StepTypes)
  BY <1>1, StepsType DEF Rendering, RendererInv, TypeOKOfRenderer
<1>3. Steps[index] \in StepTypes
  BY <1>2, ElementOfSeq
<1>4. waiting \in InteractiveMessage \ {"close"}
  BY <1>1, <1>3 DEF StepTypes, IsCommand, Local, Command, InteractiveMessage
<1> QED BY <1>1, <1>2, <1>4, CommandsOfSteps DEF Asked

\* The process does something about the command that is under way.
LEMMA ProcessDoes ==
  ASSUME Rendering, process = "listening", UNCHANGED <<version, worker, exitCode, stdout>>,
         process' \in {"listening", "closing", "failing"},
         commands' \in {commands, <<>>}, busy' \in InteractiveMessage \union {"none"},
         page' = page, recording' \in {"none", "recording", "stopped"}, upsets' \in 0 .. MaxUpsets,
         OneCommand'
  PROVE  RendererInv'
<1>1. /\ UNCHANGED <<done, held, ws, index, waiting, timer, pause, stopped>>
      /\ TypeOKOfRenderer /\ NoStepBeforeItListens /\ OnePause /\ index <= Len(Steps)
  BY DEF Rendering, RendererInv, worker
<1>2. AtWrongStep' <=> AtWrongStep
  BY <1>1, SameSteps DEF AtWrongStep
<1>3. TypeOKOfRenderer'
  <2>1. \A c \in {waiting', busy'} \union ToSet(commands') : c \in InteractiveMessage \union {"none"}
    <3>1. ToSet(<<>>) = {}
      BY DEF ToSet
    <3> QED BY <1>1, <3>1 DEF TypeOKOfRenderer
  <2> QED BY <1>1, <2>1 DEF TypeOKOfRenderer
<1>4. NoStepBeforeItListens'
  BY <1>1 DEF NoStepBeforeItListens
<1>5. OnePause'
  BY <1>1, <1>2, SameSteps DEF OnePause
<1> QED BY <1>1, <1>3, <1>4, <1>5, RendererInvAfter

\* A command on its way is alone: the "close" at the end, or the one that is waited for.
LEMMA CommandUnderWay ==
  ASSUME Rendering, process = "listening", commands # <<>>
  PROVE  /\ busy = "none" /\ replies = <<>> /\ Tail(commands) = <<>>
         /\ \/ waiting = "none" /\ Head(commands) = "close" /\ rendered = Asked
            \/ /\ waiting # "none" /\ Head(commands) = waiting
               /\ rendered = CommandsUpTo(Steps)[index - 1]
<1>1. CASE waiting = "none"
  <2>1. commands = <<"close">> /\ rendered = Asked /\ busy = "none" /\ replies = <<>>
    BY <1>1 DEF Rendering, RendererInv, OneCommand
  <2> QED BY <1>1, <2>1
<1>2. CASE waiting # "none"
  <2>1. /\ commands = <<waiting>> /\ rendered = CommandsUpTo(Steps)[index - 1]
        /\ busy = "none" /\ replies = <<>>
    BY <1>2 DEF Rendering, RendererInv, OneCommand
  <2> QED BY <1>2, <2>1
<1> QED BY <1>1, <1>2

LEMMA CommandBeingExecuted ==
  ASSUME Rendering, busy # "none"
  PROVE  /\ waiting # "none" /\ busy = waiting /\ commands = <<>> /\ replies = <<>>
         /\ rendered = CommandsUpTo(Steps)[index - 1]
<1>1. waiting # "none"
  BY DEF Rendering, RendererInv, OneCommand
<1> QED BY <1>1 DEF Rendering, RendererInv, OneCommand

\* What is kept of OneCommand when the Worker does nothing.
LEMMA OneCommandNext ==
  ASSUME Rendering, waiting # "none", UNCHANGED <<version, worker>>,
         \/ /\ rendered' = CommandsUpTo(Steps)[index - 1] /\ replies' = <<>>
            /\ commands' = <<>> /\ busy' = waiting
         \/ /\ rendered' = CommandsUpTo(Steps)[index] /\ busy' = "none" /\ commands' = <<>>
            /\ replies' = <<[reply |-> waiting, error |-> FALSE]>>
         \/ /\ rendered' = CommandsUpTo(Steps)[index - 1] /\ busy' = "none" /\ commands' = <<>>
            /\ replies' = <<[reply |-> waiting, error |-> TRUE]>> /\ process' = "failing"
  PROVE  OneCommand'
<1>1. index' = index /\ waiting' = waiting
  BY DEF worker
<1>2. Steps' = Steps /\ (AtWrongStep' <=> AtWrongStep)
  BY <1>1, SameSteps DEF AtWrongStep
<1>3. /\ index > 0 /\ IsCommand(Steps[index]) /\ ~AtWrongStep /\ waiting = Command(Steps[index])
  BY DEF Rendering, RendererInv, OneCommand
<1>4. Asked' = CommandsUpTo(Steps)[index]
  BY <1>1, <1>2, <1>3, SameSteps
<1> QED BY <1>1, <1>2, <1>3, <1>4 DEF OneCommand

LEMMA OnCommandStep ==
  ASSUME Rendering, OnCommand
  PROVE  RendererInv'
<1>1. /\ process = "listening" /\ commands # <<>> /\ commands' = Tail(commands)
      /\ IF Head(commands) = "close"
         THEN process' = "closing" /\ UNCHANGED busy
         ELSE busy' = Head(commands) /\ UNCHANGED process
      /\ UNCHANGED <<version, worker, exitCode, stdout, replies, page, recording, rendered>>
  BY DEF OnCommand
<1>2. upsets' \in 0 .. MaxUpsets
  BY UpsetsType DEF OnCommand, Rendering
<1>3. /\ busy = "none" /\ replies = <<>> /\ Tail(commands) = <<>>
      /\ \/ waiting = "none" /\ Head(commands) = "close" /\ rendered = Asked
         \/ /\ waiting # "none" /\ Head(commands) = waiting
            /\ rendered = CommandsUpTo(Steps)[index - 1]
  BY <1>1, CommandUnderWay
<1>4. recording' \in {"none", "recording", "stopped"}
  BY <1>1 DEF Rendering, RendererInv, TypeOKOfRenderer
<1>5. CASE waiting = "none"
  <2>1. process' = "closing" /\ busy' = "none" /\ commands' = <<>>
    BY <1>1, <1>3, <1>5
  <2>2. index' = index /\ waiting' = waiting
    BY <1>1 DEF worker
  <2>3. Asked' = Asked
    BY <1>1, <2>2, SameSteps DEF Asked, AtWrongStep
  <2>4. OneCommand'
    BY <1>1, <1>3, <1>5, <2>1, <2>2, <2>3 DEF OneCommand
  <2> QED BY <1>1, <1>2, <1>4, <2>1, <2>4, ProcessDoes
<1>6. CASE waiting # "none"
  <2>1. waiting \in InteractiveMessage \ {"close"}
    BY <1>6, WaitsForACommand
  <2>2. process' = "listening" /\ busy' = waiting /\ commands' = <<>>
    BY <1>1, <1>3, <1>6, <2>1
  <2>3. OneCommand'
    BY <1>1, <1>3, <1>6, <2>2, OneCommandNext
  <2> QED BY <1>1, <1>2, <1>4, <2>1, <2>2, <2>3, ProcessDoes
<1> QED BY <1>5, <1>6

LEMMA LoadHasFailedStep ==
  ASSUME Rendering, LoadHasFailed
  PROVE  RendererInv'
<1>1. /\ process = "listening" /\ commands # <<>> /\ Head(commands) = "waitForLoad"
      /\ commands' = Tail(commands) /\ process' = "failing"
      /\ replies' = Append(replies, [reply |-> "waitForLoad", error |-> TRUE])
      /\ UNCHANGED <<version, worker, exitCode, stdout, busy, page, recording, rendered>>
  BY DEF LoadHasFailed, browser
<1>2. upsets' \in 0 .. MaxUpsets
  BY UpsetsType DEF LoadHasFailed, Rendering
<1>3. /\ busy = "none" /\ replies = <<>> /\ Tail(commands) = <<>> /\ waiting = "waitForLoad"
      /\ rendered = CommandsUpTo(Steps)[index - 1]
  BY <1>1, CommandUnderWay
<1>4. /\ recording' \in {"none", "recording", "stopped"}
      /\ commands' = <<>> /\ busy' = "none"
      /\ replies' = <<[reply |-> waiting, error |-> TRUE]>>
  BY <1>1, <1>3 DEF Rendering, RendererInv, TypeOKOfRenderer
<1>5. OneCommand'
  BY <1>1, <1>3, <1>4, OneCommandNext
<1> QED BY <1>1, <1>2, <1>4, <1>5, ProcessDoes

LEMMA ExecutesStep ==
  ASSUME Rendering, Executes
  PROVE  RendererInv'
<1>1. /\ process = "listening" /\ rendered' = Append(rendered, busy)
      /\ replies' = Append(replies, [reply |-> busy, error |-> FALSE]) /\ busy' = "none"
      /\ UNCHANGED <<version, worker, process, exitCode, stdout, commands, page>>
  BY DEF Executes
<1>2. upsets' \in 0 .. MaxUpsets
  BY UpsetsType DEF Executes, Rendering
<1>3. busy # "none" /\ recording' \in {recording, "recording", "stopped"}
  BY DEF Executes, waitForLoad, takeScreenshot, executeJs, startRecording, stopRecording, cropRecording
<1>4. /\ waiting # "none" /\ busy = waiting /\ commands = <<>> /\ replies = <<>>
      /\ rendered = CommandsUpTo(Steps)[index - 1]
  BY <1>3, CommandBeingExecuted
<1>5. CommandsUpTo(Steps)[index] = Append(CommandsUpTo(Steps)[index - 1], waiting)
  BY <1>4, WaitsForACommand
<1>6. /\ replies' = <<[reply |-> waiting, error |-> FALSE]>>
      /\ rendered' = CommandsUpTo(Steps)[index]
      /\ recording' \in {"none", "recording", "stopped"}
  BY <1>1, <1>3, <1>4, <1>5 DEF Rendering, RendererInv, TypeOKOfRenderer
<1>7. OneCommand'
  BY <1>1, <1>4, <1>6, OneCommandNext
<1> QED BY <1>1, <1>2, <1>6, <1>7, ProcessDoes

LEMMA FailsCommandStep ==
  ASSUME Rendering, FailsCommand
  PROVE  RendererInv'
<1>1. /\ process = "listening" /\ busy # "none" /\ recording' \in {recording, "stopped"}
      /\ replies' = Append(replies, [reply |-> busy, error |-> TRUE])
      /\ process' = "failing" /\ busy' = "none"
      /\ UNCHANGED <<version, worker, exitCode, stdout, commands, page, rendered>>
  BY DEF FailsCommand
<1>2. upsets' \in 0 .. MaxUpsets
  BY UpsetsType DEF FailsCommand, Rendering
<1>3. /\ waiting # "none" /\ busy = waiting /\ commands = <<>> /\ replies = <<>>
      /\ rendered = CommandsUpTo(Steps)[index - 1]
  BY <1>1, CommandBeingExecuted
<1>4. /\ replies' = <<[reply |-> waiting, error |-> TRUE]>>
      /\ recording' \in {"none", "recording", "stopped"}
  BY <1>1, <1>3 DEF Rendering, RendererInv, TypeOKOfRenderer
<1>5. OneCommand'
  BY <1>1, <1>3, <1>4, OneCommandNext
<1> QED BY <1>1, <1>2, <1>4, <1>5, ProcessDoes

-----------------------------------------------------------------------------
(* The rendering: its invariant *)

LEMMA InitRendererInv == InitToolUse => RendererInv
<1>1. ASSUME InitToolUse
      PROVE  NoRendering /\ (version = "none" \/ version = "casparCG" \/ version \in Seq(StepTypes))
  BY <1>1, VersionsAssumption DEF InitToolUse, InitRenderer
<1>2. ASSUME InitToolUse
      PROVE  TypeOKOfRenderer
  <2>1. ToSet(commands) = {}
    BY <1>1, <1>2 DEF NoRendering, ToSet
  <2> QED BY <1>1, <1>2, <2>1, MaxUpsetsAssumption DEF NoRendering, TypeOKOfRenderer
<1>3. ASSUME InitToolUse, version # "none"
      PROVE  index <= Len(Steps) /\ OneCommand /\ NoStepBeforeItListens /\ OnePause
  <2>1. Steps \in Seq(StepTypes) /\ Len(Steps) \in Nat
    BY <1>1, <1>3, StepsTypeOf
  <2>2. ~AtWrongStep /\ rendered = Asked
    BY <1>1, <1>3, <2>1, CommandsOfSteps DEF NoRendering, AtWrongStep, Asked
  <2> QED BY <1>1, <1>3, <2>1, <2>2 DEF NoRendering, OneCommand, NoStepBeforeItListens, OnePause
<1>4. ASSUME InitToolUse, version = "none"
      PROVE  done = "none"
  BY <1>1, <1>4 DEF NoRendering
<1> QED BY <1>1, <1>2, <1>3, <1>4 DEF RendererInv

LEMMA RendererUnchanged ==
  ASSUME RendererInv, UNCHANGED rendererVars
  PROVE  RendererInv'
<1>1. UNCHANGED <<version, done, held, ws, index, waiting, timer, pause, stopped, process, exitCode,
                  stdout, commands, replies, busy, page, recording, rendered, upsets>>
  BY DEF rendererVars, worker, channels, browser
<1>2. Steps' = Steps
  BY <1>1 DEF Steps
<1>3. TypeOKOfRenderer'
  BY <1>1 DEF RendererInv, TypeOKOfRenderer
<1>4. AtWrongStep' <=> AtWrongStep
  BY <1>1, SameSteps DEF AtWrongStep
<1>5. Asked' = Asked
  BY <1>1, <1>4, SameSteps DEF Asked
<1>6. /\ OneCommand' <=> OneCommand
      /\ NoStepBeforeItListens' <=> NoStepBeforeItListens
      /\ OnePause' <=> OnePause
  BY <1>1, <1>2, <1>4, <1>5 DEF OneCommand, NoStepBeforeItListens, OnePause
<1> QED BY <1>1, <1>2, <1>3, <1>6 DEF RendererInv

LEMMA RendererStep ==
  ASSUME RendererInv, [NextToolUse]_toolUseVars
  PROVE  RendererInv'
<1>1. CASE UNCHANGED rendererVars
  BY <1>1, RendererUnchanged
<1>2. CASE version # "none" /\ NextRenderer
  <2> USE <1>2 DEF Rendering
  <2>1. CASE NextOfWorker
    BY <2>1, SpawnStep, CancelsStep, SetupStep, ConnectedStep, OnMessageStep, ClosesStep,
       SleepIsOverStep, RequestEndsStep, CommandTimeoutStep, OnCompleteStep, OnCloseStep
       DEF NextOfWorker
  <2>2. CASE NextOfProcess
    BY <2>2, ListensStep, PageLoadsStep, OnCommandStep, LoadHasFailedStep, ExecutesStep,
       FailsCommandStep, ProcessEndsRendering
       DEF NextOfProcess
  <2> QED BY <2>1, <2>2 DEF NextRenderer
<1> QED BY <1>1, <1>2 DEF NextToolUse, toolUseVars

LEMMA RendererInvHolds == ToolUseSpec => []RendererInv
<1>1. RendererInv /\ [NextToolUse]_toolUseVars => RendererInv'
  BY RendererStep
<1> QED BY <1>1, InitRendererInv, PTL DEF ToolUseSpec

LEMMA InOrder ==
  ASSUME RendererInv
  PROVE  RendersInOrder
<1>1. version = "none" => done = "none"
  BY DEF RendererInv
<1>2. ASSUME version # "none"
      PROVE  IsPrefix(rendered, Commands) /\ (done = "resolved" => rendered = Commands)
  <2>1. Steps \in Seq(StepTypes) /\ index \in 0 .. Len(Steps) /\ Rendering
    BY <1>2, StepsType DEF Rendering, RendererInv, TypeOKOfRenderer
  <2>2. \E k \in 0 .. Len(Steps) : rendered = CommandsUpTo(Steps)[k]
    <3>1. CASE waiting = "none"
      <4>1. rendered = Asked
        BY <2>1, <3>1 DEF Rendering, RendererInv, OneCommand
      <4> QED BY <2>1, <4>1 DEF Asked, AtWrongStep
    <3>2. CASE waiting # "none"
      <4>1. index - 1 \in 0 .. Len(Steps) /\ Asked = CommandsUpTo(Steps)[index]
        BY <2>1, <3>2, WaitsForACommand
      <4>2. rendered \in {Asked, CommandsUpTo(Steps)[index - 1]}
        BY <2>1, <3>2 DEF Rendering, RendererInv, OneCommand
      <4> QED BY <2>1, <4>1, <4>2
    <3> QED BY <3>1, <3>2
  <2>3. IsPrefix(rendered, Commands)
    BY <2>1, <2>2, CommandsArePrefixes DEF Commands
  <2>4. ASSUME done = "resolved"
        PROVE  rendered = Commands
    <3>1. index = Len(Steps) /\ waiting = "none" /\ ~AtWrongStep
      BY <2>1, <2>4 DEF Rendering, RendererInv, OnePause
    <3>2. rendered = Asked
      BY <2>1, <3>1 DEF Rendering, RendererInv, OneCommand
    <3> QED BY <3>1, <3>2 DEF Asked, Commands
  <2> QED BY <2>3, <2>4
<1> QED BY <1>1, <1>2 DEF RendersInOrder

\* Whatever the steps are, and whatever fails: the html-renderer process executes their commands in
\* their order, none of them twice, and all of them before the rendering is done.
THEOREM CommandsAreInOrder == ToolUseSpec => []ToolUseInv
<1>1. ToolsInv /\ RendererInv => ToolUseInv
  BY InOrder DEF ToolUseInv, ToolUseTypeOK, ToolsInv, RendererInv
<1> QED BY <1>1, ToolsInvHolds, RendererInvHolds, PTL
=============================================================================
