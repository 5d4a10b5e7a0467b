----------------------------- MODULE HTMLRenderer -----------------------------
(***************************************************************************)
(* The rendering of an HTML page: the HTMLRenderer of a Worker spawns an   *)
(* html-renderer process, is told on its stdout that it listens, connects  *)
(* to its WebSocket, and has it execute the steps of the Expectation one   *)
(* by one: each command is sent when the previous one has been answered.   *)
(*                                                                         *)
(* On one side the HTMLRenderer (done, held, ws, ...), on the other the    *)
(* process with its BrowserRenderer (process, busy, page, recording), and  *)
(* between them the stdout, the WebSocket's two directions and the exit    *)
(* code of the process.                                                    *)
(***************************************************************************)
EXTENDS Naturals, Sequences, SequencesExt

CONSTANTS
  Versions,  \* the versions of the Expectations: "casparCG", or the steps
  MaxUpsets  \* bound: crashes, commands and requests that fail

\* What a step can do.
StepTypes ==
  {"waitForLoad", "sleep", "sendHTTPCommand", "takeScreenshot", "startRecording", "stopRecording",
   "cropRecording", "executeJs", "storeObject", "modifyObject", "injectObject"}

ASSUME MaxUpsetsAssumption == MaxUpsets \in Nat

ASSUME VersionsAssumption == \A v \in Versions : v = "casparCG" \/ v \in Seq(StepTypes)

VARIABLES
  version,   \* exp.endRequirement.version, or "none"
  done,      \* the promise: "none", "pending", "resolved" or "rejected"
  held,      \* htmlRendererProcess is set
  ws,        \* "none", "connecting", "open" or "gone"
  index,     \* commandStepIndex: the steps that have been taken
  waiting,   \* waitingForCommand
  timer,     \* the timer of COMMAND_TIMEOUT is running
  pause,     \* what else is waited for: a "sleep", a "request", the "end", or "no"
  stopped,   \* (history) cancel() has been called by the work
  process,   \* "none", "starting", "listening", "closing", "failing" or "exited"
  exitCode,  \* how it has exited: "success" or "error"; "seen" when that is known
  stdout,    \* "listening" is in it
  commands,  \* the commands on their way to the process
  replies,   \* the replies on their way back: [reply, error]
  busy,      \* the command the process is executing
  page,      \* "loading", "loaded" or "failed"
  recording, \* "none", "recording" or "stopped"
  rendered,  \* (history) the commands it has executed
  upsets     \* how much of MaxUpsets is used

worker == <<done, held, ws, index, waiting, timer, pause, stopped>>
browser == <<busy, page, recording, rendered>>
channels == <<stdout, commands, replies>>
rendererVars == <<version, worker, process, exitCode, channels, browser, upsets>>

-----------------------------------------------------------------------------
(* The steps.                                                              *)

\* htmlTemplateGetSteps: the steps for a CasparCG template, or those of the Expectation.
htmlTemplateGetSteps(v) ==
  IF v = "casparCG"
  THEN <<"waitForLoad", "takeScreenshot", "startRecording", "executeJs", "executeJs", "sleep",
         "takeScreenshot", "executeJs", "sleep", "takeScreenshot", "stopRecording",
         "cropRecording">>
  ELSE v

Steps == htmlTemplateGetSteps(version)

\* Objects are kept in the Worker: storeObject and modifyObject take no time.
Local == {"storeObject", "modifyObject"}

\* An object has to be stored before it is modified or injected.
IsStored(i) == \E j \in 1 .. i - 1 : Steps[j] = "storeObject"
IsWrong(i) == Steps[i] \in {"modifyObject", "injectObject"} /\ ~IsStored(i)

\* The commands the process knows.
InteractiveMessage ==
  {"waitForLoad", "takeScreenshot", "startRecording", "stopRecording", "cropRecording",
   "executeJs", "close"}

\* The command a step sends: injectObject executes javascript that posts the object.
Command(step) == IF step = "injectObject" THEN "executeJs" ELSE step
IsCommand(step) == step \notin Local \union {"sleep", "sendHTTPCommand"}

\* The commands of the first n steps, and of all of them.
CommandsUpTo(steps) ==
  LET f[n \in 0 .. Len(steps)] ==
        IF n = 0 THEN <<>>
        ELSE IF IsCommand(steps[n]) THEN Append(f[n - 1], Command(steps[n])) ELSE f[n - 1]
  IN f

Commands == CommandsUpTo(Steps)[Len(Steps)]

-----------------------------------------------------------------------------
NoRendering ==
  /\ done = "none" /\ held = FALSE /\ ws = "none" /\ index = 0
  /\ waiting = "none" /\ timer = FALSE /\ pause = "no" /\ stopped = FALSE
  /\ process = "none" /\ exitCode = "none"
  /\ stdout = FALSE /\ commands = <<>> /\ replies = <<>>
  /\ busy = "none" /\ page = "loading" /\ recording = "none" /\ rendered = <<>>
  /\ upsets = 0

InitRenderer == version \in Versions /\ NoRendering

Upset == upsets < MaxUpsets /\ upsets' = upsets + 1
Smooth == UNCHANGED upsets

Alive == process \notin {"none", "exited"}

-----------------------------------------------------------------------------
(* The HTMLRenderer.  A handler changes w, the record of its variables.    *)

W == [done |-> done, held |-> held, ws |-> ws, index |-> index, waiting |-> waiting,
      timer |-> timer, pause |-> pause, sent |-> <<>>, kills |-> FALSE]

\* What becomes of the variables: w, what it sends, and the process it kills (at once: what it may
\* still do until it is gone is left out).
WorkerDoes(w) ==
  /\ done' = w.done /\ held' = w.held /\ ws' = w.ws /\ index' = w.index
  /\ waiting' = w.waiting /\ timer' = w.timer /\ pause' = w.pause
  /\ commands' = IF Alive THEN commands \o w.sent ELSE commands
  /\ IF w.kills /\ Alive
     THEN process' = "exited" /\ exitCode' = "error"
     ELSE UNCHANGED <<process, exitCode>>

cancel(w) == [w EXCEPT !.held = FALSE, !.kills = @ \/ w.held]

SettledAs(w, r) == [w EXCEPT !.done = IF @ = "pending" THEN r ELSE @]

onError(w) == cancel(SettledAs(w, "rejected"))

setCommandToRenderer_WithoutTimeout(w, command) ==
  [w EXCEPT !.sent = Append(@, command), !.waiting = command]

setCommandToRenderer(w, command) ==
  [w EXCEPT !.sent = Append(@, command), !.waiting = command, !.timer = TRUE]

\* doNextCommand: the steps that take no time, up to one that does or that is wrong.
doNextCommand(w) ==
  LET u == [w EXCEPT !.timer = FALSE]
      taken == {j \in u.index + 1 .. Len(Steps) : IsWrong(j) \/ Steps[j] \notin Local}
      i == CHOOSE j \in taken : \A k \in taken : j <= k
      v == [u EXCEPT !.index = i]
  IN IF taken = {}
     THEN [u EXCEPT !.index = Len(Steps), !.sent = Append(@, "close"), !.pause = "end"]
     ELSE CASE IsWrong(i) -> onError(v)
            [] ~IsWrong(i) /\ Steps[i] = "sleep" -> [v EXCEPT !.pause = "sleep"]
            [] ~IsWrong(i) /\ Steps[i] = "sendHTTPCommand" -> [v EXCEPT !.pause = "request"]
            [] OTHER -> setCommandToRenderer(v, Command(Steps[i]))

\* constructor, spawnHTMLRendererProcess.  The work may have been cancelled before.
spawnHTMLRendererProcess ==
  /\ done = "none" /\ version # "none"
  /\ done' = "pending" /\ held' = TRUE
  /\ process' = "starting"
  /\ Smooth
  /\ UNCHANGED <<version, ws, index, waiting, timer, pause, stopped, exitCode, channels, browser>>

\* HTMLRenderHandler.cancel: nothing settles the promise now, except a timer that is running.
Cancels ==
  /\ done \in {"none", "pending"} /\ version # "none" /\ ~stopped
  /\ stopped' = TRUE
  /\ WorkerDoes(cancel(W))
  /\ Smooth
  /\ UNCHANGED <<version, stdout, replies, browser>>

\* "listening" on stdout: setupWebSocketConnection.
setupWebSocketConnection ==
  /\ stdout
  /\ stdout' = FALSE
  /\ ws' = "connecting"
  /\ Smooth
  /\ UNCHANGED <<version, done, held, index, waiting, timer, pause, stopped, process, exitCode,
                 commands, replies, browser>>

\* The connection is there, or it fails since the process is not.
Connected ==
  /\ ws = "connecting"
  /\ IF Alive THEN WorkerDoes(doNextCommand([W EXCEPT !.ws = "open"]))
              ELSE WorkerDoes(onError([W EXCEPT !.ws = "gone"]))
  /\ Smooth
  /\ UNCHANGED <<version, stopped, stdout, replies, browser>>

OnReply_IgnoresErrors(w, message) ==
  IF message.reply # w.waiting THEN onError(w) ELSE doNextCommand([w EXCEPT !.waiting = "none"])

\* A reply: only one to the command that is waited for has the next one sent.
OnReply(w, message) ==
  IF message.error \/ message.reply # w.waiting
  THEN onError(w)
  ELSE doNextCommand([w EXCEPT !.waiting = "none"])

OnMessage ==
  /\ ws = "open" /\ replies # <<>>
  /\ WorkerDoes(OnReply(W, Head(replies)))
  /\ replies' = Tail(replies)
  /\ Smooth
  /\ UNCHANGED <<version, stopped, stdout, browser>>

\* The WebSocket closes with the process, after what it had sent.
WebSocketCloses ==
  /\ ws = "open" /\ process = "exited" /\ replies = <<>>
  /\ ws' = "gone"
  /\ Smooth
  /\ UNCHANGED <<version, done, held, index, waiting, timer, pause, stopped, process, exitCode,
                 channels, browser>>

\* A sleep is over.  Without a WebSocket doNextCommand throws, in a timer: nobody is told.
SleepIsOver ==
  /\ pause = "sleep"
  /\ LET w == [W EXCEPT !.pause = "no"] IN WorkerDoes(IF ws = "open" THEN doNextCommand(w) ELSE w)
  /\ Smooth
  /\ UNCHANGED <<version, stopped, stdout, replies, browser>>

\* An HTTP request of a step is answered or fails; what doNextCommand throws is caught.
RequestEnds ==
  /\ pause = "request"
  /\ LET w == [W EXCEPT !.pause = "no"]
     IN \/ Smooth /\ WorkerDoes(IF ws = "open" THEN doNextCommand(w) ELSE onError(w))
        \/ Upset /\ WorkerDoes(onError(w))
  /\ UNCHANGED <<version, stopped, stdout, replies, browser>>

CommandTimeout ==
  /\ timer
  /\ WorkerDoes(onError([W EXCEPT !.timer = FALSE]))
  /\ Smooth
  /\ UNCHANGED <<version, stopped, stdout, replies, browser>>

\* 500 ms after the "close" command.
onComplete ==
  /\ pause = "end"
  /\ WorkerDoes(SettledAs([W EXCEPT !.pause = "no", !.ws = "gone"], "resolved"))
  /\ Smooth
  /\ UNCHANGED <<version, stopped, stdout, replies, browser>>

\* onClose: an exit without an error is not reacted to, nor that of a process that was killed.
onClose ==
  /\ process = "exited" /\ exitCode # "seen"
  /\ LET w == [W EXCEPT !.held = FALSE]
     IN /\ done' = IF held /\ exitCode = "error" THEN onError(w).done ELSE done
        /\ held' = FALSE
  /\ exitCode' = "seen"
  /\ stdout' = (stdout /\ ~held)      \* removeAllListeners
  /\ Smooth
  /\ UNCHANGED <<version, ws, index, waiting, timer, pause, stopped, process, commands, replies,
                 browser>>

-----------------------------------------------------------------------------
(* The html-renderer process.                                              *)

\* renderHTML, up to the call of interactive: ffmpeg is there, the window is; then the
\* WebSocketServer listens.
Listens ==
  /\ process = "starting"
  /\ \/ Smooth /\ process' = "listening" /\ stdout' = TRUE
     \/ Upset /\ process' = "failing" /\ UNCHANGED stdout
  /\ UNCHANGED <<version, worker, exitCode, commands, replies, browser>>

\* The events did-finish-load and did-fail-load.
PageLoads ==
  /\ Alive /\ page = "loading"
  /\ \/ Smooth /\ page' = "loaded"
     \/ Upset /\ page' = "failed"
  /\ UNCHANGED <<version, worker, process, exitCode, channels, busy, recording, rendered>>

\* A command arrives; interactive() is done with "close".  waitForLoad is refused when the page has
\* failed to load by now.
OnCommand ==
  /\ process = "listening" /\ commands # <<>>
  /\ ~(Head(commands) = "waitForLoad" /\ page = "failed")
  /\ commands' = Tail(commands)
  /\ IF Head(commands) = "close"
     THEN process' = "closing" /\ UNCHANGED busy
     ELSE busy' = Head(commands) /\ UNCHANGED process
  /\ Smooth
  /\ UNCHANGED <<version, worker, exitCode, stdout, replies, page, recording, rendered>>

LoadHasFailed ==
  /\ process = "listening" /\ commands # <<>>
  /\ Head(commands) = "waitForLoad" /\ page = "failed"
  /\ commands' = Tail(commands)
  /\ replies' = Append(replies, [reply |-> "waitForLoad", error |-> TRUE])
  /\ process' = "failing"
  /\ Smooth
  /\ UNCHANGED <<version, worker, exitCode, stdout, browser>>

\* waitForLoad waits until the page has loaded; that it fails to load is not noticed any more.
waitForLoad == busy = "waitForLoad" /\ page = "loaded" /\ UNCHANGED recording

takeScreenshot == busy = "takeScreenshot" /\ UNCHANGED recording
executeJs == busy = "executeJs" /\ UNCHANGED recording

\* A stopped recording makes way for a new one.
startRecording ==
  busy = "startRecording" /\ recording # "recording" /\ recording' = "recording"

stopRecording ==
  busy = "stopRecording" /\ recording = "recording" /\ recording' = "stopped"

cropRecording == busy = "cropRecording" /\ recording = "stopped" /\ UNCHANGED recording

Executes ==
  /\ process = "listening"
  /\ waitForLoad \/ takeScreenshot \/ executeJs \/ startRecording \/ stopRecording \/ cropRecording
  /\ rendered' = Append(rendered, busy)
  /\ replies' = Append(replies, [reply |-> busy, error |-> FALSE])
  /\ busy' = "none"
  /\ Smooth
  /\ UNCHANGED <<version, worker, process, exitCode, stdout, commands, page>>

\* What a command can not do in the state the recording is in.
Refused ==
  \/ busy = "startRecording" /\ recording = "recording"
  \/ busy = "stopRecording" /\ recording # "recording"
  \/ busy = "cropRecording" /\ recording # "stopped"

\* It is refused, or ffmpeg, the file system or the page fails it: there is an error reply, and the
\* process is done with an error.
FailsCommand ==
  /\ process = "listening" /\ busy # "none"
  /\ \/ Refused /\ Smooth
     \/ ~Refused /\ busy # "waitForLoad" /\ Upset
  /\ recording' = IF busy = "stopRecording" THEN "stopped" ELSE recording
  /\ replies' = Append(replies, [reply |-> busy, error |-> TRUE])
  /\ process' = "failing"
  /\ busy' = "none"
  /\ UNCHANGED <<version, worker, exitCode, stdout, commands, page, rendered>>

\* main: app.exit(exitCode).
Exits ==
  /\ process \in {"closing", "failing"}
  /\ process' = "exited"
  /\ exitCode' = IF process = "closing" THEN "success" ELSE "error"
  /\ Smooth
  /\ UNCHANGED <<version, worker, channels, browser>>

Crashes ==
  /\ Alive
  /\ Upset
  /\ process' = "exited" /\ exitCode' = "error"
  /\ UNCHANGED <<version, worker, channels, browser>>

-----------------------------------------------------------------------------
NextOfWorker ==
  \/ spawnHTMLRendererProcess \/ Cancels \/ setupWebSocketConnection \/ Connected \/ OnMessage
  \/ WebSocketCloses \/ SleepIsOver \/ RequestEnds \/ CommandTimeout \/ onComplete \/ onClose

NextOfProcess ==
  Listens \/ PageLoads \/ OnCommand \/ LoadHasFailed \/ Executes \/ FailsCommand \/ Exits \/ Crashes

NextRenderer == NextOfWorker \/ NextOfProcess

\* The Worker's callbacks and timers come, and the process goes on; the page need not load, no
\* command need be executed in time, and nobody need cancel or crash.
FairnessOfRenderer ==
  /\ WF_rendererVars(spawnHTMLRendererProcess)
  /\ WF_rendererVars(setupWebSocketConnection)
  /\ WF_rendererVars(Connected)
  /\ WF_rendererVars(OnMessage)
  /\ WF_rendererVars(WebSocketCloses)
  /\ WF_rendererVars(SleepIsOver)
  /\ WF_rendererVars(RequestEnds)
  /\ WF_rendererVars(CommandTimeout)
  /\ WF_rendererVars(onComplete)
  /\ WF_rendererVars(onClose)
  /\ WF_rendererVars(Listens)
  /\ WF_rendererVars(OnCommand \/ LoadHasFailed)
  /\ WF_rendererVars(Exits)

-----------------------------------------------------------------------------
\* The variables have their types.
TypeOKOfRenderer ==
  /\ done \in {"none", "pending", "resolved", "rejected"}
  /\ held \in BOOLEAN /\ timer \in BOOLEAN /\ stopped \in BOOLEAN /\ stdout \in BOOLEAN
  /\ ws \in {"none", "connecting", "open", "gone"}
  /\ index \in Nat /\ upsets \in 0 .. MaxUpsets
  /\ \A command \in {waiting, busy} \union ToSet(commands) :
       command \in InteractiveMessage \union {"none"}
  /\ pause \in {"no", "sleep", "request", "end"}
  /\ process \in {"none", "starting", "listening", "closing", "failing", "exited"}
  /\ exitCode \in {"none", "success", "error", "seen"}
  /\ page \in {"loading", "loaded", "failed"}
  /\ recording \in {"none", "recording", "stopped"}

\* The process executes the commands of the steps in their order, none of them twice, and when the
\* rendering is done it has executed all of them: every file is there to be copied to the target.
RendersInOrder ==
  /\ version # "none" => IsPrefix(rendered, Commands)
  /\ done = "resolved" => rendered = Commands

\* A rendering comes to its end whatever fails, even when the page never loads, unless it is
\* cancelled: then its promise may stay pending.
EveryRenderingSettles == done = "pending" /\ ~stopped ~> done # "pending" \/ stopped

\* No html-renderer process is left behind by a rendering that has ended.
NoProcessIsLeft == done \in {"resolved", "rejected"} ~> process = "exited"

-----------------------------------------------------------------------------
(* The inductive invariant.                                                 *)

\* The rendering has come to a step that can not be executed.
AtWrongStep == index > 0 /\ IsWrong(index)

\* The commands of the steps that have been taken.
Asked == CommandsUpTo(Steps)[IF AtWrongStep THEN index - 1 ELSE index]

\* One command is under way at a time, from the Worker to the process and back again, or it is
\* lost with the process.
OneCommand ==
  IF waiting = "none"
  THEN /\ rendered = Asked /\ busy = "none" /\ replies = <<>>
       /\ commands \in {<<>>, <<"close">>}
  ELSE /\ index > 0 /\ IsCommand(Steps[index]) /\ ~AtWrongStep
       /\ waiting = Command(Steps[index])
       /\ \/ /\ rendered = CommandsUpTo(Steps)[index - 1] /\ replies = <<>>
             /\ <<commands, busy>> \in {<<<<waiting>>, "none">>, <<<<>>, waiting>>}
          \/ /\ rendered = Asked /\ busy = "none" /\ commands = <<>>
             /\ replies = <<[reply |-> waiting, error |-> FALSE]>>
          \/ /\ rendered = CommandsUpTo(Steps)[index - 1] /\ busy = "none" /\ commands = <<>>
             /\ replies \in {<<>>, <<[reply |-> waiting, error |-> TRUE]>>}
             /\ process \in {"closing", "failing", "exited"}

\* Steps are only taken once there is a connection, which is made once and not before the process
\* listens.
NoStepBeforeItListens ==
  /\ done = "none" => process = "none"
  /\ process \in {"none", "starting"} => ~stdout /\ ws = "none"
  /\ stdout => ws = "none"
  /\ ws \in {"none", "connecting"} => index = 0 /\ pause = "no"
  /\ index = 0 => waiting = "none" /\ (commands = <<>> \/ pause = "end" \/ ws = "gone")

\* What is waited for is either a reply or something else, and nothing after a wrong step; the
\* end comes when all steps have been taken.
OnePause ==
  /\ pause # "no" => waiting = "none" /\ ~AtWrongStep
  /\ AtWrongStep => waiting = "none"
  /\ pause \in {"sleep", "request"} => commands = <<>>
  /\ pause = "end" => index = Len(Steps)
  /\ done = "resolved" =>
       index = Len(Steps) /\ waiting = "none" /\ pause = "no" /\ ws = "gone" /\ ~AtWrongStep

RendererInv ==
  /\ version = "none" \/ version = "casparCG" \/ version \in Seq(StepTypes)
  /\ TypeOKOfRenderer
  /\ IF version = "none" THEN done = "none"
     ELSE index <= Len(Steps) /\ OneCommand /\ NoStepBeforeItListens /\ OnePause
===============================================================================
