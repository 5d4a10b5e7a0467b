-------------------------------- MODULE Tools --------------------------------
(***************************************************************************)
(* What the work of a Worker waits for: a promise around a process it has  *)
(* started (ffprobe, ffmpeg, robocopy) or a job it has asked a server for  *)
(* (Quantel Fileflow), with a way to cancel it.                            *)
(*                                                                         *)
(* A tool makes one call that starts a process, except a deep scan, which  *)
(* has a second try, and a loudness scan, which measures one channel after *)
(* the other.  The job in Fileflow is modelled as a process as well.       *)
(***************************************************************************)
EXTENDS Naturals, Sequences

CONSTANTS
  MaxChannels, \* the channels a loudness scan measures
  MaxFailures  \* bound: what goes wrong by itself: processes, uploads, requests

ASSUME ToolsAssumption == MaxChannels \in Nat \ {0} /\ MaxFailures \in Nat

VARIABLES
  tool,      \* what is waited for, or "none"
  call,      \* the calls: each a process, and the result of the call
  promise,   \* "pending", "resolved" or "rejected"
  left,      \* the channels left to measure; what is left to do with a copied file
  progress,  \* hasGottenProgress
  secondTry, \* the timer of the second try: "set", "run" or "none"
  cancelled, \* (history) a call of cancel() has returned
  put,       \* the request to cancel a job: "none", "sent" or "failed"
  failures   \* how much of MaxFailures is used

others == <<tool, progress, secondTry, cancelled, put>>
toolVars == <<tool, call, promise, left, progress, secondTry, cancelled, put, failures>>

Calls == {1, 2}
Ended == {"succeeded", "failed"}

Call ==
  [process : {"none", "input", "running", "dying", "gone"} \union Ended,
   held    : BOOLEAN,   \* the call still has its process, or asks about its job
   listens : {"no", "late", "yes"}, \* to the end of its process; "late": it had ended by then
   ignores : BOOLEAN,   \* the call's own "cancelled"
   read    : BOOLEAN,   \* all that the process puts out has been read
   whole   : BOOLEAN,   \* (history) and it had succeeded when that was used
   result  : {"pending", "resolved", "rejected"}]

NoCall == [process |-> "none", held |-> FALSE, listens |-> "no", ignores |-> FALSE, read |-> FALSE,
           whole |-> FALSE, result |-> "pending"]

-----------------------------------------------------------------------------
(* The tools.  input: something is awaited before there is a process;       *)
(* reads: the end of a process is only heeded when all its output has been  *)
(* read; wrong: its output may turn out to be of no use; cancel: what the   *)
(* handler of onCancel does; after: what is done with a copied file.        *)

scanWithFFProbe == [input |-> TRUE, reads |-> TRUE, wrong |-> TRUE,
                    cancel |-> {"kill", "reject"}, after |-> <<>>]
scanFieldOrder == [scanWithFFProbe EXCEPT !.wrong = FALSE]
scanLoudnessStream == scanWithFFProbe

scanMoreInfo == [input |-> TRUE, reads |-> FALSE, wrong |-> FALSE,
                 cancel |-> {"ignore", "kill", "reject"}, after |-> <<>>]
scanIframes == scanMoreInfo

\* onDone, which is called when both the process and the upload are done, can fail.
spawnFFMpeg == [input |-> TRUE, reads |-> FALSE, wrong |-> TRUE,
                cancel |-> {"drop", "kill", "reject"}, after |-> <<>>]

roboCopyFile == [input |-> FALSE, reads |-> FALSE, wrong |-> FALSE,
                 cancel |-> {"ignore", "drop", "kill"}, after |-> <<"rename", "utimes">>]

quantelFileflowCopy == [input |-> TRUE, reads |-> FALSE, wrong |-> FALSE,
                        cancel |-> {"put"}, after |-> <<>>]

Tool ==
  CASE tool = "scanWithFFProbe"     -> scanWithFFProbe
    [] tool = "scanFieldOrder"      -> scanFieldOrder
    [] tool = "deepScan"            -> scanMoreInfo
    [] tool = "scanLoudness"        -> scanLoudnessStream
    [] tool = "scanIframes"         -> scanIframes
    [] tool \in {"spawnFFMpeg", "uploadFFMpeg"} -> spawnFFMpeg
    [] tool = "roboCopyFile"        -> roboCopyFile
    [] tool = "quantelFileflowCopy" -> quantelFileflowCopy

ToolNames == {"scanWithFFProbe", "scanFieldOrder", "deepScan", "scanLoudness", "scanIframes",
              "spawnFFMpeg", "uploadFFMpeg", "roboCopyFile", "quantelFileflowCopy"}
Scans == {"deepScan", "scanIframes"}

-----------------------------------------------------------------------------
NoTool ==
  /\ tool = "none"
  /\ call = [i \in Calls |-> NoCall]
  /\ promise = "pending"
  /\ left = <<>>
  /\ progress = FALSE
  /\ secondTry = "none"
  /\ cancelled = FALSE
  /\ put = "none"
  /\ failures = 0

Started == [NoCall EXCEPT !.process = IF Tool.input THEN "input" ELSE "running", !.held = ~Tool.input,
                          !.listens = IF Tool.input THEN "no" ELSE "yes"]

InitTools ==
  /\ tool \in ToolNames
  /\ call = [i \in Calls |-> IF i = 1 THEN Started ELSE NoCall]
  /\ promise = "pending"
  /\ left = IF tool = "scanLoudness" THEN [n \in 1 .. MaxChannels |-> "channel"] ELSE Tool.after
  /\ progress = FALSE
  /\ secondTry = IF tool = "deepScan" THEN "set" ELSE "none"
  /\ cancelled = FALSE
  /\ put = "none"
  /\ failures = 0

Fault == failures < MaxFailures /\ failures' = failures + 1
NoFault == UNCHANGED failures

\* A promise stays as it was settled first.
SettleWith(was, r) == IF was = "pending" THEN r ELSE was

\* Call i ends with r, from its new state c.  Of a loudness scan, the result of the channel is
\* recorded, whatever it is, and the next one is measured.  (A killed process is then not followed
\* any further, and the extra measurements of a channel are left out.)
Settle(i, c, r) ==
  IF tool = "scanLoudness" /\ c.result = "pending"
  THEN /\ left' = Tail(left)
       /\ call' = [call EXCEPT ![i] = IF left' = <<>> THEN [c EXCEPT !.result = r] ELSE Started]
       /\ promise' = IF left' = <<>> THEN "resolved" ELSE promise
  ELSE /\ call' = [call EXCEPT ![i] = [c EXCEPT !.result = SettleWith(@, r)]]
       /\ promise' = IF c.result = "pending" THEN SettleWith(promise, r) ELSE promise
       /\ UNCHANGED left

Becomes(i, c) ==
  /\ call' = [call EXCEPT ![i] = c]
  /\ UNCHANGED <<promise, left>>

-----------------------------------------------------------------------------
(* getFFMpegInputArgsFromAccessorHandle, the target of spawnFFMpeg, the      *)
(* request for a job: what is awaited before there is a process.            *)

InputIsReady(i) ==
  /\ call[i].process = "input"
  /\ Becomes(i, [call[i] EXCEPT !.process = "running", !.held = TRUE,
                                !.listens = IF tool = "uploadFFMpeg" THEN "no" ELSE "yes"])
  /\ NoFault
  /\ UNCHANGED others

\* An async executor that throws rejects the promise.  The answer to the request for a job may be
\* all that fails: then there is a job, of which nobody knows.
InputFails(i) ==
  /\ call[i].process = "input"
  /\ Fault
  /\ \E p \in {"none"} \union (IF tool = "quantelFileflowCopy" THEN {"running"} ELSE {}) :
       Settle(i, [call[i] EXCEPT !.process = p, !.held = FALSE], "rejected")
  /\ UNCHANGED others

\* The process of an upload is running before putPackageStream is awaited, and only listened to
\* after that.  By then its "exit" may have been missed; its "close" may be yet to come, and part
\* of its output be lost.  If the upload is refused, nobody ever listens.
putPackageStream(i) ==
  /\ tool = "uploadFFMpeg"
  /\ call[i].process \notin {"none", "input"}
  /\ call[i].listens = "no" /\ call[i].result = "pending"
  /\ \/ /\ NoFault
        /\ \/ /\ call[i].process = "running"
              /\ Becomes(i, [call[i] EXCEPT !.listens = "yes"])
           \/ /\ call[i].process \in Ended
              /\ \E p \in {call[i].process, "gone"} :
                   Becomes(i, [call[i] EXCEPT !.process = p, !.listens = "late"])
     \/ /\ Fault
        /\ Settle(i, call[i], "rejected")
  /\ UNCHANGED others

\* Nothing needs to be scanned, or there is only a clip to ask about.
NeedsNoProcess(i) ==
  /\ tool \in {"scanFieldOrder", "scanWithFFProbe"}
  /\ call[i].process = "input"
  /\ Settle(i, [call[i] EXCEPT !.process = "none", !.whole = TRUE], "resolved")
  /\ NoFault
  /\ UNCHANGED others

(* The process. *)

ProcessEnds(i) ==
  /\ call[i].process \in {"running", "dying"}
  /\ \E how \in Ended :
       /\ IF how = "failed" /\ call[i].process = "running" THEN Fault ELSE NoFault
       /\ Becomes(i, [call[i] EXCEPT !.process = how])
  /\ UNCHANGED others

ReportsProgress(i) ==
  /\ tool = "deepScan"
  /\ call[i].process = "running"
  /\ ~progress
  /\ progress' = TRUE
  /\ NoFault
  /\ UNCHANGED <<tool, call, promise, left, secondTry, cancelled, put>>

(* Its end, as the call gets to know of it. *)

HasEnded(i) ==
  /\ call[i].process \in Ended /\ call[i].listens # "no"
  /\ Tool.reads => call[i].read

Gone(i) ==
  [call[i] EXCEPT !.process = "gone", !.held = FALSE,
                  !.whole = call[i].process = "succeeded" /\ (call[i].read \/ ~Tool.reads)]

\* The callback of execFile.  When the output of ffprobe is no JSON it throws, to nobody.
CallbackOfExecFile(i) ==
  /\ Tool.reads
  /\ HasEnded(i)
  /\ \/ \E r \in IF call[i].process = "failed" THEN {"rejected"}
                 ELSE IF Tool.wrong THEN {"resolved", "rejected"} ELSE {"resolved"} :
          Settle(i, Gone(i), r)
     \/ /\ tool = "scanWithFFProbe" /\ call[i].process = "succeeded"
        /\ Becomes(i, Gone(i))
  /\ NoFault
  /\ UNCHANGED others

\* onClose of a scan: "exit" comes first, and the output need not have been read by then.
onCloseOfScan(i) ==
  /\ tool \in Scans
  /\ HasEnded(i)
  /\ IF call[i].ignores \/ ~call[i].held
     THEN Becomes(i, [call[i] EXCEPT !.process = "gone"])
     ELSE Settle(i, Gone(i), IF call[i].process = "succeeded" THEN "resolved" ELSE "rejected")
  /\ NoFault
  /\ UNCHANGED others

maybeDone_Either(i, c) ==
  IF c.whole \/ (tool = "uploadFFMpeg" /\ c.read)
  THEN \E r \in {"resolved", "rejected"} : Settle(i, c, r)
  ELSE Becomes(i, c)

\* maybeDone: onDone is called, which may fail.
maybeDone(i, c) ==
  IF c.whole /\ (tool = "uploadFFMpeg" => c.read)
  THEN \E r \in {"resolved", "rejected"} : Settle(i, c, r)
  ELSE Becomes(i, c)

\* onClose of spawnFFMpeg: nothing is done about a process that was killed.
onCloseOfFFMpeg(i) ==
  /\ tool \in {"spawnFFMpeg", "uploadFFMpeg"}
  /\ HasEnded(i)
  /\ CASE ~call[i].held -> Becomes(i, [call[i] EXCEPT !.process = "gone"])
       [] call[i].held /\ call[i].process = "succeeded" -> maybeDone(i, Gone(i))
       [] call[i].held /\ call[i].process = "failed" -> Settle(i, Gone(i), "rejected")
  /\ NoFault
  /\ UNCHANGED others

\* onRobocopyExit, up to the file operations; a cancelled one resolves.
onRobocopyExit(i) ==
  /\ tool = "roboCopyFile"
  /\ HasEnded(i)
  /\ CASE call[i].ignores -> Settle(i, Gone(i), "resolved")
       [] ~call[i].ignores /\ call[i].process = "succeeded" -> Becomes(i, Gone(i))
       [] ~call[i].ignores /\ call[i].process = "failed" -> Settle(i, Gone(i), "rejected")
  /\ NoFault
  /\ UNCHANGED others

\* The rest of onRobocopyExit: the file gets its name, and a time.
FileIsPutInPlace(i) ==
  /\ tool = "roboCopyFile"
  /\ call[i].whole /\ call[i].result = "pending" /\ left # <<>>
  /\ \/ /\ NoFault
        /\ left' = IF call[i].ignores THEN <<>> ELSE Tail(left)
        /\ call' = [call EXCEPT ![i].result = IF left' = <<>> THEN "resolved" ELSE @]
        /\ promise' = IF left' = <<>> THEN SettleWith(promise, "resolved") ELSE promise
     \/ Fault /\ Settle(i, call[i], "rejected")
  /\ UNCHANGED others

\* getJobStatus shows that the job has come to its end.  (As long as it does not, or the response
\* is not ok, it is asked for again after 3 seconds.)
getJobStatus(i) ==
  /\ tool = "quantelFileflowCopy"
  /\ HasEnded(i) /\ call[i].held
  /\ Settle(i, Gone(i), IF call[i].process = "succeeded" THEN "resolved" ELSE "rejected")
  /\ NoFault
  /\ UNCHANGED others

\* A request for it that fails or times out ends the promise, and not the job.
getJobStatusThrows(i) ==
  /\ tool = "quantelFileflowCopy"
  /\ call[i].listens = "yes" /\ call[i].held /\ call[i].result = "pending"
  /\ Fault
  /\ Settle(i, [call[i] EXCEPT !.held = FALSE], "rejected")
  /\ UNCHANGED others

\* All of the output has been read; of an upload: it has been answered.
OutputIsRead(i) ==
  /\ Tool.reads \/ tool \in Scans \union {"uploadFFMpeg"}
  /\ call[i].process \in Ended \union {"gone"} /\ call[i].listens # "no" /\ ~call[i].read
  /\ LET c == [call[i] EXCEPT !.read = TRUE]
     IN IF tool = "uploadFFMpeg" THEN maybeDone(i, c) ELSE Becomes(i, c)
  /\ NoFault
  /\ UNCHANGED others

Killed(c) == IF c.process = "running" /\ c.held THEN [c EXCEPT !.process = "dying"] ELSE c

\* onError of a scan: its output can not be parsed.
onErrorOfScan(i) ==
  /\ tool \in Scans
  /\ call[i].process = "running" /\ call[i].held /\ ~call[i].ignores
  /\ Fault
  /\ Settle(i, Killed(call[i]), "rejected")
  /\ UNCHANGED others

UploadFails_NotKilled(i) ==
  /\ tool = "uploadFFMpeg"
  /\ call[i].listens # "no" /\ ~call[i].read /\ call[i].result = "pending"
  /\ Fault
  /\ Settle(i, [call[i] EXCEPT !.held = FALSE], "rejected")
  /\ UNCHANGED others

UploadFails(i) ==
  /\ tool = "uploadFFMpeg"
  /\ call[i].listens # "no" /\ ~call[i].read /\ call[i].result = "pending"
  /\ Fault
  /\ Settle(i, [Killed(call[i]) EXCEPT !.held = FALSE], "rejected")
  /\ UNCHANGED others

-----------------------------------------------------------------------------
(* CancelablePromise.cancel, and that of an FFMpegProcess.                  *)

\* The handler is there when the process has been started (that of an upload: and is listened
\* to); until then cancel() throws, or there is nothing yet to be cancelled, and the work goes on.
HandlerIsSet(c) == c.listens # "no"

Cancelled(c) ==
  LET k == IF "kill" \in Tool.cancel THEN Killed(c) ELSE c
  IN [k EXCEPT !.ignores = @ \/ "ignore" \in Tool.cancel,
               !.held = @ /\ "drop" \notin Tool.cancel]

Cancel ==
  /\ tool # "none" /\ promise = "pending" /\ ~cancelled
  /\ HandlerIsSet(call[1])
  /\ cancelled' = TRUE
  /\ IF "reject" \in Tool.cancel
     THEN Settle(1, Cancelled(call[1]), "rejected")
     ELSE Becomes(1, Cancelled(call[1]))
  /\ put' = IF "put" \in Tool.cancel THEN "sent" ELSE put
  /\ NoFault
  /\ UNCHANGED <<tool, progress, secondTry>>

Aborted(c) == IF c.process = "running" THEN [c EXCEPT !.process = "dying"] ELSE c

\* Fileflow answers the request to cancel the job, or does not.
CancelIsAnswered ==
  /\ put = "sent"
  /\ \/ /\ NoFault /\ put' = "none"
        /\ Settle(1, Aborted(call[1]), "rejected")
     \/ /\ Fault /\ put' = "failed"
        /\ Settle(1, call[1], "rejected")
  /\ UNCHANGED <<tool, progress, secondTry, cancelled>>

\* A deep scan without progress is cancelled, its rejection is ignored, and it is tried again
\* without the scenes.  (If there is nothing to cancel yet the timer throws.)
SecondTry ==
  /\ secondTry = "set"
  /\ IF call[1].result # "resolved" /\ ~progress /\ HandlerIsSet(call[1])
     THEN /\ secondTry' = "run"
          /\ LET c == Cancelled(call[1])
             IN call' = [call EXCEPT ![1] = [c EXCEPT !.result = SettleWith(c.result, "rejected")],
                                     ![2] = Started]
     ELSE secondTry' = "none" /\ UNCHANGED call
  /\ NoFault
  /\ UNCHANGED <<tool, promise, left, progress, cancelled, put>>

-----------------------------------------------------------------------------
Heeded(i) ==
  \/ CallbackOfExecFile(i) \/ onCloseOfScan(i) \/ onCloseOfFFMpeg(i) \/ onRobocopyExit(i)
  \/ FileIsPutInPlace(i) \/ getJobStatus(i) \/ getJobStatusThrows(i)

NextOfCall(i) ==
  \/ InputIsReady(i) \/ InputFails(i) \/ NeedsNoProcess(i) \/ putPackageStream(i)
  \/ ProcessEnds(i) \/ ReportsProgress(i) \/ OutputIsRead(i)
  \/ onErrorOfScan(i) \/ UploadFails(i)
  \/ Heeded(i)

NextTools ==
  /\ tool # "none"
  /\ \/ \E i \in Calls : NextOfCall(i)
     \/ Cancel \/ CancelIsAnswered \/ SecondTry

\* A process that is waited for comes to an end, and what it has put out is read; the promises
\* around it are the event loop's to go on with.  Nothing is assumed of a process that has been
\* left behind, of the second try, or of anyone cancelling.
FairnessOfTools ==
  /\ \A i \in Calls :
       /\ WF_toolVars(tool # "none" /\ (InputIsReady(i) \/ InputFails(i) \/ NeedsNoProcess(i)))
       /\ WF_toolVars(tool # "none" /\ putPackageStream(i))
       /\ WF_toolVars(tool # "none" /\ call[i].result = "pending" /\ ProcessEnds(i))
       /\ WF_toolVars(tool # "none" /\ (OutputIsRead(i) \/ UploadFails(i)))
       /\ WF_toolVars(tool # "none" /\ Heeded(i))
  /\ WF_toolVars(tool # "none" /\ CancelIsAnswered)

-----------------------------------------------------------------------------
\* The variables have their types.
TypeOKOfTools ==
  /\ tool \in ToolNames \union {"none"}
  /\ call \in [Calls -> Call]
  /\ promise \in {"pending", "resolved", "rejected"}
  /\ left \in Seq({"channel", "rename", "utimes"})
  /\ progress \in BOOLEAN /\ cancelled \in BOOLEAN
  /\ secondTry \in {"set", "run", "none"}
  /\ put \in {"none", "sent", "failed"}
  /\ failures \in 0 .. MaxFailures

\* What a promise resolves with is all there is: the process has succeeded and what it put out
\* has been read or uploaded; the copied file has its name.  Except that a cancelled copy by
\* robocopy resolves, a loudness scan resolves whatever became of its channels, a deep scan and a
\* scan for I-frames resolve on "exit", when part of the output may still be unread, and ffmpeg
\* may have ended, and lost output, before its upload was ready for it.
ResolvedIsWhole ==
  promise = "resolved" =>
    \/ tool = "scanLoudness"
    \/ tool = "roboCopyFile" /\ cancelled
    \/ tool = "uploadFFMpeg" /\ call[1].listens = "late"
    \/ /\ \E i \in Calls : call[i].whole /\ (tool = "uploadFFMpeg" => call[i].read)
       /\ left = <<>>

\* What is left behind running: an ffmpeg of which the upload was refused before anyone listened
\* to it, and a job, when a request about it (to make it, for its status) has failed.
IsLeftBehind(c) ==
  /\ c.process = "running"
  /\ \/ tool = "uploadFFMpeg" /\ c.listens = "no"
     \/ tool = "quantelFileflowCopy" /\ ~c.held

\* When a promise is settled, no process is left that nobody is killing.  Except for those just
\* named, the second try of a deep scan, and a job of which the cancellation has failed.
LeavesNothingRunning ==
  promise # "pending" =>
    \A i \in Calls :
      call[i].process \in {"input", "running"} =>
        (tool = "deepScan" /\ i = 2) \/ put = "failed" \/ IsLeftBehind(call[i])

\* Once cancel() has returned no process is started.  Except that a loudness scan goes on with its
\* next channel, and a deep scan with its second try.
NothingStartsAfterCancel ==
  [][cancelled /\ tool \notin {"scanLoudness", "deepScan"} =>
       \A i \in Calls : call'[i].process = "running" => call[i].process = "running"]_toolVars

\* An end that nobody hears of: the callback of ffprobe threw, or ffmpeg ended before its upload
\* was ready.
EndIsMissed ==
  /\ call[1].process = "gone" /\ call[1].result = "pending"
  /\ tool = "scanWithFFProbe" \/ (tool = "uploadFFMpeg" /\ call[1].held)

\* Every promise is settled in the end, cancelled or not, whatever fails, unless the end of its
\* process was missed.
EveryPromiseSettles == promise = "pending" /\ tool # "none" ~> promise # "pending" \/ EndIsMissed
-----------------------------------------------------------------------------
(* The inductive invariant.                                                 *)

\* There is a second call only when a deep scan is tried again.
OneCall == secondTry # "run" => call[2] = NoCall

\* Only a deep scan is tried again, and then its first call has been settled.
SecondTryIsOfDeepScan ==
  /\ secondTry # "none" => tool = "deepScan"
  /\ secondTry = "run" => call[1].result # "pending"

\* The request to cancel a job is one to Fileflow, about a job that it has.
PutIsOfAJob == put # "none" => tool = "quantelFileflowCopy" /\ HandlerIsSet(call[1])

\* A process is held as long as it runs, there is one before it is listened to, and what is whole
\* has ended.  (A job may be one nobody knows of any more.)
CallsAreWatched ==
  \A i \in Calls :
    /\ call[i].process = "running" => call[i].held \/ tool = "quantelFileflowCopy"
    /\ call[i].listens # "no" => call[i].process \notin {"none", "input"}
    /\ call[i].whole => call[i].process \in {"none", "gone"}

\* A call that is settled runs no more, unless it was left behind.
SettledHasEnded ==
  \A i \in Calls :
    call[i].result # "pending" =>
      call[i].process \notin {"input", "running"} \/ put = "failed" \/ IsLeftBehind(call[i])

\* The promise is settled by its call; that of a loudness scan when all channels are measured.
PromiseIsOfItsCall ==
  /\ promise # "pending" => call[1].result # "pending"
  /\ tool # "deepScan" /\ call[1].result # "pending" => promise # "pending"
  /\ tool = "scanLoudness" => (promise = "pending" <=> left # <<>>)
  /\ tool \notin {"scanLoudness", "roboCopyFile"} => left = <<>>

\* A cancelled call has a process, and only such a copy is taken for done without its file.
CancelledHasAProcess ==
  /\ cancelled /\ tool \notin {"scanLoudness", "deepScan"} => HandlerIsSet(call[1])
  /\ tool = "roboCopyFile" /\ (\E i \in Calls : call[i].ignores) => cancelled

ToolsInv ==
  /\ TypeOKOfTools
  /\ OneCall /\ SecondTryIsOfDeepScan /\ PutIsOfAJob
  /\ CallsAreWatched /\ SettledHasEnded /\ PromiseIsOfItsCall /\ CancelledHasAProcess
  /\ ResolvedIsWhole
=============================================================================
