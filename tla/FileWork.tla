------------------------------ MODULE FileWork ------------------------------
(***************************************************************************)
(* The work of a Worker on one Expectation, down to the files: the steps   *)
(* each ExpectationHandler awaits one after the other, what they do to the *)
(* package in its Accessor (the file, the temporary file beside it, its    *)
(* metadata, and the list of packages to remove later), and what happens   *)
(* when the work is cancelled, fails, or the Worker goes down in between.  *)
(*                                                                         *)
(* The ExpectationManager is there as far as it uses the handlers: it asks *)
(* whether the Expectation is fulfilled, has it worked on, cancels that,   *)
(* and has the package removed when it is not wanted any more.             *)
(*                                                                         *)
(* A package's content is the version of the source it was made from, None *)
(* (there is none), Torn (not all of it) or Mixed (of two versions).  What  *)
(* the PackageInfo in Core holds is modelled as a file, its hash as the     *)
(* metadata.                                                               *)
(***************************************************************************)
EXTENDS Naturals, Sequences, FiniteSets

CONSTANTS
  Works,       \* calls of workOnExpectation that can be under way
  Expectations,\* the kinds of Expectation: [handler, store, temporary, delay]
  MaxVersion,  \* bound: how often the source package changes
  MaxUpsets    \* bound: failures, crashes, cancellations, losses, changes of mind

Handlers == {"FileCopyUsingRobocopy", "FileCopyUsingFileflow", "FileCopyUsingStreams", "JsonDataCopy",
             "JsonDataCopyToCore", "MediaFilePreview", "MediaFileThumbnail", "QuantelClipPreview",
             "QuantelClipThumbnail", "FileCopyProxy", "QuantelClipCopy", "RenderHTML", "PackageScan",
             "PackageDeepScan", "PackageLoudnessScan", "PackageIframesScan"}

\* What is scanned, and some JSON data, goes to Core, and nothing else does.
ToCore == {"JsonDataCopyToCore", "PackageScan", "PackageDeepScan", "PackageLoudnessScan",
           "PackageIframesScan"}

ASSUME WorksAssumption ==
  Works \subseteq Nat \ {0} /\ MaxVersion \in Nat \ {0} /\ MaxUpsets \in Nat

ASSUME ExpectationsAssumption ==
  \A e \in Expectations :
    /\ e \in [handler : Handlers, store : {"localFolder", "fileShare", "httpProxy", "core", "quantel"},
              temporary : BOOLEAN, delay : BOOLEAN]
    /\ e.store = "core" <=> e.handler \in ToCore
    /\ e.handler = "QuantelClipCopy" => e.store = "quantel"

VARIABLES
  exp,        \* the Expectation
  source,     \* the actual version of the source package
  target,     \* what is in the target: a Package
  cron,       \* removeDuePackages: "idle", "listed", "half" or "removed"
  reachable,  \* the target can be accessed
  work,       \* the works, with their cancellations
  active,     \* the work the manager has under way, or None
  wanted,     \* the manager has the Expectation
  status,     \* what the manager knows of it: "new", "fulfilled" or "removed"
  removing,   \* what removeExpectation has left to do
  upsets,     \* how much of MaxUpsets is used
  mishaps     \* (history) a work "overran" the removal or the end of its cancellation; a
              \* copy that failed was "finalized"; a removal was "forgotten", or passed
              \* over what it could not access: "unremoved"

manager == <<active, wanted, status, removing>>
vars == <<exp, source, target, cron, reachable, work, manager, upsets, mishaps>>

None == 0
Torn == MaxVersion + 1
Mixed == MaxVersion + 2

Package ==
  [file : None .. Mixed,
   temp : None .. Mixed,               \* the temporary file
   meta : None .. MaxVersion,         \* the version in its metadata
   due  : {"no", "later", "now"},     \* its entry in the list of packages to remove
   left : BOOLEAN]                    \* (history) the metadata outlived a file that was lost,
                                      \* or a removal that could not access it

-----------------------------------------------------------------------------
(* The Accessors.  stream: where putPackageStream writes, given a temporary *)
(* file to write to; renames: whether finalizePackage puts that in place;   *)
(* abort: what comes of aborting a write; fails: what comes after the error *)
(* of one; removes: whether removePackage removes anything; ignores:        *)
(* whether what cannot be accessed is taken for removed.                    *)

LocalFolder == [stream |-> "temp", renames |-> TRUE, abort |-> "closes", fails |-> "closes",
                removes |-> TRUE, ignores |-> TRUE]
FileShare == [stream |-> "file", renames |-> TRUE, abort |-> "ignored", fails |-> "closes",
              removes |-> TRUE, ignores |-> TRUE]
HTTPProxy == [stream |-> "file", renames |-> FALSE, abort |-> "fails", fails |-> "ends",
              removes |-> TRUE, ignores |-> FALSE]
CorePackageInfo == [stream |-> "file", renames |-> FALSE, abort |-> "ignored", fails |-> "ends",
                    removes |-> TRUE, ignores |-> FALSE]
Quantel == [stream |-> "file", renames |-> FALSE, abort |-> "ignored", fails |-> "ends",
            removes |-> FALSE, ignores |-> FALSE]

Store(e) ==
  CASE e.store = "localFolder" -> LocalFolder
    [] e.store = "fileShare"   -> FileShare
    [] e.store = "httpProxy"   -> HTTPProxy
    [] e.store = "core"        -> CorePackageInfo
    [] e.store = "quantel"     -> Quantel

Renames(e) == e.temporary /\ Store(e).renames

\* removePackage: only an entry in the list when the removal is to be delayed, otherwise
\* the metadata and then the file.  The temporary file stays.
removePackage_FileFirst(e) ==
  CASE ~Store(e).removes          -> <<>>
    [] Store(e).removes /\ e.delay -> <<"schedule">>
    [] OTHER                      -> <<"unlink", "removeMetadata">>

removePackage(e) ==
  CASE ~Store(e).removes          -> <<>>
    [] Store(e).removes /\ e.delay -> <<"schedule">>
    [] OTHER                      -> <<"removeMetadata", "unlink">>

finalizePackage_UnlinksLast(e) == IF Renames(e) THEN <<"rename", "unlink">> ELSE <<>>

\* finalizePackage: the file makes way for the temporary one.
finalizePackage(e) == IF Renames(e) THEN <<"unlink", "rename">> ELSE <<>>

-----------------------------------------------------------------------------
(* The ExpectationHandlers: what their work awaits, in order.  write/copy:  *)
(* the target is opened, and closed when all has been written; probe: a     *)
(* tool is waited for that reads the source.                                *)

doFileCopyExpectation(e) ==
  <<"version", "prepare", "write", "copy">> \o finalizePackage(e) \o <<"updateMetadata">>

FileCopyUsingRobocopy(e) == doFileCopyExpectation(e)
FileCopyUsingFileflow(e) == doFileCopyExpectation(e)
JsonDataCopy(e) == doFileCopyExpectation(e)

JsonDataCopyToCore(e) == <<"version", "probe", "updateMetadata">>

MediaFilePreview(e) ==
  <<"version">> \o removePackage(e) \o <<"probe", "prepare", "write", "copy">>
    \o finalizePackage(e) \o <<"updateMetadata">>

MediaFileThumbnail(e) ==
  <<"version">> \o removePackage(e) \o <<"probe", "prepare", "write", "copy">>
    \o finalizePackage(e) \o <<"updateMetadata">>

QuantelClipPreview(e) ==
  <<"version">> \o removePackage(e) \o <<"prepare", "write", "copy">>
    \o finalizePackage(e) \o <<"updateMetadata">>

QuantelClipThumbnail(e) ==
  <<"version">> \o removePackage(e) \o <<"prepare", "write", "copy">>
    \o finalizePackage(e) \o <<"updateMetadata">>

FileCopyProxy(e) ==
  <<"version">> \o removePackage(e) \o <<"prepare", "write", "copy">>
    \o finalizePackage(e) \o <<"updateMetadata">>

\* finalizePackage and updateMetadata do nothing for a clip.
QuantelClipCopy(e) == <<"version", "prepare", "write", "copy">>

RenderHTML(e) ==
  <<"version", "render", "prepare", "write", "copy">> \o finalizePackage(e) \o <<"updateMetadata">>

PackageScan(e) == <<"version", "probe", "updateMetadata">>
PackageDeepScan(e) == <<"version", "probe", "probe", "probe", "updateMetadata">>
PackageLoudnessScan(e) == <<"version", "probe", "probe", "updateMetadata">>
PackageIframesScan(e) == <<"version", "probe", "probe", "updateMetadata">>

Plan(e) ==
  CASE e.handler = "FileCopyUsingRobocopy" -> FileCopyUsingRobocopy(e)
    [] e.handler = "FileCopyUsingFileflow" -> FileCopyUsingFileflow(e)
    [] e.handler = "FileCopyUsingStreams"  -> doFileCopyExpectation(e)
    [] e.handler = "JsonDataCopy"          -> JsonDataCopy(e)
    [] e.handler = "JsonDataCopyToCore"    -> JsonDataCopyToCore(e)
    [] e.handler = "MediaFilePreview"      -> MediaFilePreview(e)
    [] e.handler = "MediaFileThumbnail"    -> MediaFileThumbnail(e)
    [] e.handler = "QuantelClipPreview"    -> QuantelClipPreview(e)
    [] e.handler = "QuantelClipThumbnail"  -> QuantelClipThumbnail(e)
    [] e.handler = "FileCopyProxy"         -> FileCopyProxy(e)
    [] e.handler = "QuantelClipCopy"       -> QuantelClipCopy(e)
    [] e.handler = "RenderHTML"            -> RenderHTML(e)
    [] e.handler = "PackageScan"           -> PackageScan(e)
    [] e.handler = "PackageDeepScan"       -> PackageDeepScan(e)
    [] e.handler = "PackageLoudnessScan"   -> PackageLoudnessScan(e)
    [] e.handler = "PackageIframesScan"    -> PackageIframesScan(e)

\* How the handlers are cancelled, and what they take for fulfilled: a file that has the
\* source's version in its metadata, a clip that is the same, or a PackageInfo in Core.
FileCopyHandler(e) ==
  [cancel |-> IF e.handler = "FileCopyUsingStreams" THEN "stream" ELSE "copy",
   fulfilled |-> "metadata"]
JsonDataCopyHandler(e) ==
  IF e.store = "core" THEN [cancel |-> "process", fulfilled |-> "info"]
  ELSE [cancel |-> "stream", fulfilled |-> "metadata"]
MediaFilePreviewHandler == [cancel |-> "process", fulfilled |-> "metadata"]
MediaFileThumbnailHandler == [cancel |-> "process", fulfilled |-> "metadata"]
QuantelClipPreviewHandler == [cancel |-> "process", fulfilled |-> "metadata"]
QuantelClipThumbnailHandler == [cancel |-> "stream", fulfilled |-> "metadata"]
FileCopyProxyHandler == [cancel |-> "process", fulfilled |-> "metadata"]
QuantelClipCopyHandler == [cancel |-> "clip", fulfilled |-> "version"]
RenderHTMLHandler == [cancel |-> "render", fulfilled |-> "metadata"]
PackageScanHandler == [cancel |-> "process", fulfilled |-> "info"]
PackageDeepScanHandler == [cancel |-> "process", fulfilled |-> "info"]
PackageLoudnessScanHandler == [cancel |-> "process", fulfilled |-> "info"]
PackageIframesScanHandler == [cancel |-> "process", fulfilled |-> "info"]

Handler(e) ==
  CASE e.handler \in {"JsonDataCopy", "JsonDataCopyToCore"} -> JsonDataCopyHandler(e)
    [] e.handler = "MediaFilePreview"     -> MediaFilePreviewHandler
    [] e.handler = "MediaFileThumbnail"   -> MediaFileThumbnailHandler
    [] e.handler = "QuantelClipPreview"   -> QuantelClipPreviewHandler
    [] e.handler = "QuantelClipThumbnail" -> QuantelClipThumbnailHandler
    [] e.handler = "FileCopyProxy"        -> FileCopyProxyHandler
    [] e.handler = "QuantelClipCopy"      -> QuantelClipCopyHandler
    [] e.handler = "RenderHTML"           -> RenderHTMLHandler
    [] e.handler = "PackageScan"          -> PackageScanHandler
    [] e.handler = "PackageDeepScan"      -> PackageDeepScanHandler
    [] e.handler = "PackageLoudnessScan"  -> PackageLoudnessScanHandler
    [] e.handler = "PackageIframesScan"   -> PackageIframesScanHandler
    [] OTHER -> FileCopyHandler(e)

WritesTo_NotFromTools(e) ==
  IF Renames(e) /\ Handler(e).cancel \in {"stream", "render"} /\ Store(e).stream = "temp"
  THEN "temp" ELSE "file"

\* Only a copy, and a stream to a LocalFolder, heeds the temporary file.
WritesTo(e) ==
  IF Renames(e) /\ (\/ Handler(e).cancel = "copy"
                    \/ (Handler(e).cancel \in {"stream", "render"} /\ Store(e).stream = "temp"))
  THEN "temp" ELSE "file"

-----------------------------------------------------------------------------
(* A step of a work, or of a removal, and what it does to the target.       *)

Steps == {"version", "probe", "render", "prepare", "write", "copy", "unlink", "rename",
          "removeMetadata", "updateMetadata", "schedule"}

\* done: what is left to do; undo: what is left of the removal after a cancellation.
WorkInProgress ==
  [todo : Seq(Steps), ver : None .. MaxVersion, read : None .. MaxVersion, cancelled : BOOLEAN,
   cancel : {"no", "undoes", "waits", "hangs", "over"}, undo : Seq(Steps)]

NoWork == [todo |-> <<>>, ver |-> None, read |-> None, cancelled |-> FALSE, cancel |-> "no", undo |-> <<>>]

Init ==
  /\ exp \in Expectations
  /\ source = 1
  /\ target = [file |-> None, temp |-> None, meta |-> None, due |-> "no", left |-> FALSE]
  /\ cron = "idle"
  /\ reachable = TRUE
  /\ work = [w \in Works |-> NoWork]
  /\ active = None /\ wanted = TRUE /\ status = "new" /\ removing = <<>>
  /\ upsets = 0
  /\ mishaps = {}

Runs(w) == work[w].todo # <<>>
Doing(w, step) == Runs(w) /\ Head(work[w].todo) = step
Copies(w) == Doing(w, "copy")

\* The file goes, and leaves its metadata behind.
lose(t) == [t EXCEPT !.file = None, !.left = t.meta # None]

\* What a file holds that version v was copied to: not all of it when another work is
\* still writing; nothing when the file has been removed meanwhile.
Copied(w, old, v) ==
  CASE old = None -> None
    [] old # None /\ \E o \in Works \ {w} : Copies(o) -> Torn
    [] OTHER -> IF source = v THEN v ELSE Mixed

After(w, step, t) ==
  LET r == work[w] d == WritesTo(exp)
  IN CASE step = "prepare"        -> [t EXCEPT !.due = "no"]
       [] step = "schedule"       -> [t EXCEPT !.due = "later"]
       [] step = "write"          -> [t EXCEPT ![d] = Torn, !.due = "no"]
       [] step = "copy"           -> [t EXCEPT ![d] = Copied(w, @, r.read)]
       [] step = "unlink"         -> [t EXCEPT !.file = None]
       [] step = "rename"         -> [t EXCEPT !.file = t.temp, !.temp = None]
       [] step = "removeMetadata" -> [t EXCEPT !.meta = None, !.left = FALSE]
       [] step = "updateMetadata" /\ exp.store = "core" ->
            [t EXCEPT !.file = r.read, !.meta = r.ver]
       [] step = "updateMetadata" /\ exp.store # "core" ->
            [t EXCEPT !.meta = r.ver, !.left = t.file = None]
       [] OTHER                   -> t

Read(r, step) ==
  CASE step = "version" -> [r EXCEPT !.ver = source]
    [] step \in {"probe", "write", "render"} -> [r EXCEPT !.read = source]
    [] OTHER -> r

\* A cancelled copy ends when it would be finalized; the page's files are put in place,
\* without metadata.
Remaining(r) ==
  IF r.cancelled /\ (\/ Head(r.todo) = "copy" /\ exp.handler # "RenderHTML"
                     \/ Head(r.todo) = "probe" /\ exp.handler = "JsonDataCopyToCore")
  THEN <<>> ELSE Tail(r.todo)

Skipped(r) == exp.handler = "RenderHTML" /\ r.cancelled /\ Head(r.todo) = "updateMetadata"

\* There is a file, and its metadata has the version that the source has now.
isFileFulfilled == target.file # None /\ target.meta = source

\* Core has the PackageInfo, with the hash of the source as it is now.
findUnUpdatedPackageInfo == target.meta # source

Fulfilled ==
  LET how == Handler(exp).fulfilled
  IN CASE how = "metadata" -> isFileFulfilled
       [] how = "info"     -> ~findUnUpdatedPackageInfo
       [] how = "version"  -> target.file = source

-----------------------------------------------------------------------------
(* The work.                                                               *)

\* The manager is told how the work ended, unless it has been cancelled.
Tell(w, ended) ==
  IF ended /\ active = w /\ work[w].cancel = "no"
  THEN active' = None ELSE UNCHANGED active

Ended(r) == r.todo = <<>> /\ r.cancel \in {"no", "over"}
Put(w, r) == work' = [work EXCEPT ![w] = IF Ended(r) THEN NoWork ELSE r]

Needs(step) == step \notin {"version", "probe", "render"}

UndoHasBegun(w) == work[w].cancel = "undoes" /\ work[w].undo # removePackage(exp)

\* unlinkIfExists takes what it cannot access for removed.
Skips(step) == ~reachable /\ Store(exp).ignores /\ step \in {"unlink", "removeMetadata"}
Can(step) == (Needs(step) => reachable) \/ Skips(step)

Does(w, step, t) ==
  CASE ~Skips(step) -> After(w, step, t)
    [] Skips(step) /\ step = "removeMetadata" -> [t EXCEPT !.left = @ \/ t.meta # None]
    [] OTHER -> t

\* What a removal that passes over the target leaves there.
Unremoved(step) ==
  IF Skips(step) /\ (IF step = "unlink" THEN target.file # None ELSE target.meta # None)
  THEN {"unremoved"} ELSE {}

Step(w) ==
  /\ Runs(w)
  /\ LET step == Head(work[w].todo)
         rest == Remaining(work[w])
     IN /\ Can(step)
        /\ step = "rename" => target.temp # None
        /\ target' = IF Skipped(work[w]) THEN target ELSE Does(w, step, target)
        /\ Put(w, [Read(work[w], step) EXCEPT !.todo = rest])
        /\ Tell(w, rest = <<>>)
  /\ mishaps' = IF UndoHasBegun(w) THEN mishaps \cup {"overran"} ELSE mishaps
  /\ UNCHANGED <<exp, source, cron, reachable, wanted, status, removing, upsets>>

\* A copy that nobody has cancelled, to a stream that closes after its error.
ClosesWhenFailing(w) ==
  /\ Copies(w) /\ work[w].cancel = "no"
  /\ Handler(exp).cancel = "stream" /\ Store(exp).fails = "closes"

\* A step throws: the target is not accessible, or there is nothing to rename.
Throws(w) ==
  /\ Runs(w) /\ ~ClosesWhenFailing(w)
  /\ \/ Needs(Head(work[w].todo)) /\ ~reachable
     \/ Doing(w, "rename") /\ target.temp = None
  /\ Put(w, [work[w] EXCEPT !.todo = <<>>])
  /\ Tell(w, TRUE)
  /\ UNCHANGED <<exp, source, target, cron, reachable, wanted, status, removing, upsets, mishaps>>

\* The write stream fails.  The manager is told so; then the stream closes, and what has been
\* written so far is finalized as if the copying were done.
WriteFails(w) ==
  /\ ClosesWhenFailing(w)
  /\ Put(w, [work[w] EXCEPT !.todo = Tail(@), !.cancel = "over"])
  /\ active' = None
  /\ mishaps' = mishaps \cup {"finalized"}
  /\ UNCHANGED <<exp, source, target, cron, reachable, wanted, status, removing>>

\* Anything else fails, the source that is read from among it: the work ends there.
Fails(w) ==
  /\ Runs(w) /\ upsets < MaxUpsets
  /\ upsets' = upsets + 1
  /\ Put(w, [work[w] EXCEPT !.todo = <<>>])
  /\ Tell(w, TRUE)
  /\ UNCHANGED <<exp, source, target, cron, reachable, wanted, status, removing, mishaps>>

-----------------------------------------------------------------------------
(* WorkInProgress.cancel(), per way of working.                            *)

Halted(r) == [r EXCEPT !.todo = <<>>]
At(r, steps) == Head(r.todo) \in steps

\* The copying is killed, and the target removed a second later.
CancelExternal(r) ==
  [IF At(r, {"copy"}) THEN Halted(r) ELSE r EXCEPT !.cancel = "undoes", !.undo = removePackage(exp)]

\* Only a write stream that is open, and says when it is closed, is removed.
CancelStreams(r) ==
  CASE At(r, {"copy"}) /\ Store(exp).abort = "closes" ->
         [Halted(r) EXCEPT !.cancel = "undoes", !.undo = removePackage(exp)]
    [] At(r, {"copy"}) /\ Store(exp).abort # "closes" -> [Halted(r) EXCEPT !.cancel = "hangs"]
    [] OTHER -> [r EXCEPT !.cancel = "hangs"]

\* Only the process that runs just now is killed.
CancelProcess(r) == [IF At(r, {"probe", "copy"}) THEN Halted(r) ELSE r EXCEPT !.cancel = "over"]

\* The copying inside Quantel goes on to its end, which is waited for.
CancelClip(r) == [r EXCEPT !.cancel = IF At(r, {"copy"}) THEN "waits" ELSE "hangs"]

CancelRender(r) ==
  CASE At(r, {"render"}) -> [Halted(r) EXCEPT !.cancel = "over"]
    [] At(r, {"copy"}) /\ Store(exp).abort # "closes" -> [Halted(r) EXCEPT !.cancel = "over"]
    [] At(r, {"copy"}) /\ Store(exp).abort = "closes" -> [r EXCEPT !.todo = Tail(@), !.cancel = "over"]
    [] OTHER -> [r EXCEPT !.cancel = "over"]

Cancelled(r) ==
  LET how == Handler(exp).cancel
  IN CASE how = "copy"    -> CancelExternal(r)
       [] how = "stream"  -> CancelStreams(r)
       [] how = "process" -> CancelProcess(r)
       [] how = "clip"    -> CancelClip(r)
       [] how = "render"  -> CancelRender(r)

Overruns(r) == r.cancel \in {"over", "hangs"} /\ r.todo # <<>>

\* The manager cancels the work it has under way, and waits for that.
Cancel(w) ==
  /\ active = w /\ work[w].cancel = "no" /\ Runs(w) /\ ~Doing(w, "version")
  /\ IF wanted THEN upsets < MaxUpsets /\ upsets' = upsets + 1 ELSE UNCHANGED upsets
  /\ LET r == Cancelled([work[w] EXCEPT !.cancelled = TRUE])
     IN /\ Put(w, r)
        /\ mishaps' = IF Overruns(r) THEN mishaps \cup {"overran"} ELSE mishaps
        /\ active' = IF r.cancel = "over" THEN None ELSE active
  /\ UNCHANGED <<exp, source, target, cron, reachable, wanted, status, removing>>

\* The removal after a cancellation.
Undo(w) ==
  /\ work[w].cancel = "undoes" /\ work[w].undo # <<>>
  /\ LET step == Head(work[w].undo)
     IN /\ Can(step)
        /\ target' = Does(w, step, target)
        /\ mishaps' = mishaps \cup Unremoved(step)
  /\ work' = [work EXCEPT ![w].undo = Tail(@)]
  /\ UNCHANGED <<exp, source, cron, reachable, manager, upsets>>

\* The cancellation ends, or is given up by the manager.
CancelEnds(w) ==
  /\ \/ work[w].cancel = "undoes" /\ (work[w].undo = <<>> \/ ~reachable)
     \/ work[w].cancel = "waits" /\ ~Runs(w)
     \/ work[w].cancel = "hangs"
  /\ LET r == [work[w] EXCEPT !.cancel = "over", !.undo = <<>>]
     IN Put(w, r) /\ mishaps' = IF Overruns(r) THEN mishaps \cup {"overran"} ELSE mishaps
  /\ active' = None
  /\ UNCHANGED <<exp, source, target, cron, reachable, wanted, status, removing, upsets>>

-----------------------------------------------------------------------------
(* What the manager asks for.                                              *)

Idle == wanted /\ active = None /\ reachable

FoundFulfilled ==
  /\ Idle /\ status = "new" /\ Fulfilled
  /\ status' = "fulfilled"
  /\ UNCHANGED <<exp, source, target, cron, reachable, work, active, wanted, removing, upsets, mishaps>>

\* What was fulfilled is not any more: an outdated PackageInfo is removed at once.
FoundUnfulfilled ==
  /\ Idle /\ status = "fulfilled" /\ ~Fulfilled
  /\ status' = "new"
  /\ target' = IF Handler(exp).fulfilled = "info" THEN [target EXCEPT !.file = None, !.meta = None] ELSE target
  /\ UNCHANGED <<exp, source, cron, reachable, work, active, wanted, removing, upsets, mishaps>>

workOnExpectation(w) ==
  /\ Idle /\ status = "new" /\ ~Fulfilled
  /\ work[w] = NoWork /\ \A o \in Works : o < w => work[o] # NoWork
  /\ active' = w
  /\ work' = [work EXCEPT ![w].todo = Plan(exp)]
  /\ UNCHANGED <<exp, source, target, cron, reachable, wanted, status, removing, upsets, mishaps>>

Unwanted ==
  /\ wanted /\ upsets < MaxUpsets
  /\ upsets' = upsets + 1
  /\ wanted' = FALSE
  /\ UNCHANGED <<exp, source, target, cron, reachable, work, active, status, removing, mishaps>>

removeExpectation ==
  /\ ~wanted /\ active = None /\ reachable /\ status \in {"new", "fulfilled"}
  /\ status' = "removing"
  /\ removing' = removePackage(exp)
  /\ UNCHANGED <<exp, source, target, cron, reachable, work, active, wanted, upsets, mishaps>>

RemoveStep ==
  /\ status = "removing" /\ removing # <<>>
  /\ LET step == Head(removing)
     IN /\ Can(step)
        /\ target' = Does(CHOOSE w \in Works : TRUE, step, target)
        /\ mishaps' = mishaps \cup Unremoved(step)
  /\ removing' = Tail(removing)
  /\ UNCHANGED <<exp, source, cron, reachable, work, active, wanted, status, upsets>>

IsRemoved ==
  /\ status = "removing" /\ removing = <<>>
  /\ status' = "removed"
  /\ UNCHANGED <<exp, source, target, cron, reachable, work, active, wanted, removing, upsets, mishaps>>

\* A step throws: the removal is tried again later.
RemoveThrows ==
  /\ status = "removing" /\ removing # <<>> /\ ~reachable
  /\ status' = "new" /\ removing' = <<>>
  /\ UNCHANGED <<exp, source, target, cron, reachable, work, active, wanted, upsets, mishaps>>

WantedAgain ==
  /\ ~wanted /\ status = "removed"
  /\ wanted' = TRUE /\ status' = "new"
  /\ UNCHANGED <<exp, source, target, cron, reachable, work, active, removing, upsets, mishaps>>

-----------------------------------------------------------------------------
(* removeDuePackages: the cronjob of the PackageContainer.                 *)

cronRest == <<exp, source, reachable, work, manager, upsets>>

\* The delay is longer than a run of the cronjob, than a removal, and than the time from
\* the start of a work until it prepares the target.
DueNow ==
  /\ target.due = "later"
  /\ cron = "idle" /\ status # "removing" /\ \A w \in Works : work[w] = NoWork
  /\ target' = [target EXCEPT !.due = "now"]
  /\ UNCHANGED <<cron, cronRest, mishaps>>

ListDue ==
  /\ cron = "idle" /\ target.due = "now" /\ reachable
  /\ cron' = "listed"
  /\ UNCHANGED <<target, cronRest, mishaps>>

\* Only over HTTP do the metadata go before the file.
DueOrder == IF exp.store = "httpProxy" THEN <<"removeMetadata", "unlink">> ELSE <<"unlink", "removeMetadata">>
DueStep ==
  CASE cron = "listed" -> DueOrder[1]
    [] cron = "half"   -> DueOrder[2]
    [] OTHER           -> "none"
CronGoesOn == cron' = IF cron = "listed" THEN "half" ELSE "removed"

UnlinkDue ==
  /\ DueStep = "unlink" /\ Can("unlink")
  /\ CronGoesOn
  /\ target' = IF Skips("unlink") THEN target ELSE lose(target)
  /\ mishaps' = mishaps \cup Unremoved("unlink")
  /\ UNCHANGED cronRest

RemoveDueMetadata ==
  /\ DueStep = "removeMetadata" /\ Can("removeMetadata")
  /\ CronGoesOn
  /\ target' = IF Skips("removeMetadata") THEN [target EXCEPT !.left = @ \/ target.meta # None]
               ELSE [target EXCEPT !.meta = None, !.left = FALSE]
  /\ mishaps' = mishaps \cup Unremoved("removeMetadata")
  /\ UNCHANGED cronRest

ForgetDue_EvenWhenNotRemoved ==
  /\ cron \in {"listed", "removed"} /\ reachable
  /\ cron' = "idle"
  /\ target' = [target EXCEPT !.due = "no"]
  /\ mishaps' = IF target.due = "later" THEN mishaps \cup {"forgotten"} ELSE mishaps
  /\ UNCHANGED cronRest

ForgetDue ==
  /\ cron = "removed" /\ reachable
  /\ cron' = "idle"
  /\ target' = [target EXCEPT !.due = "no"]
  /\ mishaps' = IF target.due = "later" THEN mishaps \cup {"forgotten"} ELSE mishaps
  /\ UNCHANGED cronRest

\* The removal of a file, or the update of the list, throws: the entry stays, for the next run.
DueThrows ==
  /\ cron # "idle" /\ ~reachable
  /\ cron' = "idle"
  /\ UNCHANGED <<target, cronRest, mishaps>>

-----------------------------------------------------------------------------
(* The world.                                                              *)

SourceChanges ==
  /\ source < MaxVersion
  /\ source' = source + 1
  /\ UNCHANGED <<exp, target, cron, reachable, work, manager, upsets, mishaps>>

\* The Worker goes down: a file that is being written stays as it is.
Crash ==
  /\ upsets < MaxUpsets /\ (\E w \in Works : work[w] # NoWork \/ cron # "idle" \/ removing # <<>>)
  /\ upsets' = upsets + 1
  /\ work' = [w \in Works |-> NoWork]
  /\ active' = None
  /\ cron' = "idle"
  /\ removing' = <<>>
  /\ status' = IF status = "removing" THEN "new" ELSE status
  /\ UNCHANGED <<exp, source, target, reachable, wanted, mishaps>>

\* Somebody else removes the file.
FileIsLost ==
  /\ upsets < MaxUpsets /\ target.file # None /\ exp.store # "core"
  /\ upsets' = upsets + 1
  /\ target' = lose(target)
  /\ UNCHANGED <<exp, source, cron, reachable, work, manager, mishaps>>

Unreachable ==
  /\ reachable /\ upsets < MaxUpsets
  /\ upsets' = upsets + 1
  /\ reachable' = FALSE
  /\ UNCHANGED <<exp, source, target, cron, work, manager, mishaps>>

ReachableAgain ==
  /\ ~reachable
  /\ reachable' = TRUE
  /\ UNCHANGED <<exp, source, target, cron, work, manager, upsets, mishaps>>

-----------------------------------------------------------------------------

Worker(w) ==
  \/ Step(w) \/ Throws(w) \/ Undo(w) \/ CancelEnds(w)
  \/ ~reachable /\ WriteFails(w) /\ UNCHANGED upsets
Manager ==
  \/ FoundFulfilled \/ FoundUnfulfilled
  \/ \E w \in Works : workOnExpectation(w) \/ (~wanted /\ Cancel(w))
  \/ removeExpectation \/ RemoveStep \/ IsRemoved \/ RemoveThrows
Cron == DueNow \/ ListDue \/ UnlinkDue \/ RemoveDueMetadata \/ ForgetDue \/ DueThrows

Next ==
  \/ Manager \/ Cron
  \/ \E w \in Works :
       \/ Worker(w) \/ Fails(w) \/ (wanted /\ Cancel(w))
       \/ reachable /\ WriteFails(w) /\ upsets < MaxUpsets /\ upsets' = upsets + 1
  \/ Unwanted \/ WantedAgain
  \/ SourceChanges \/ Crash \/ FileIsLost \/ Unreachable \/ ReachableAgain

\* The tools come to an end or fail, the manager evaluates what it has, the cronjob runs,
\* and the target is accessible again at some time.
Fairness ==
  /\ \A w \in Works : WF_vars(Worker(w))
  /\ WF_vars(Manager) /\ WF_vars(Cron) /\ WF_vars(ReachableAgain)

Spec == Init /\ [][Next]_vars /\ Fairness

-----------------------------------------------------------------------------
(* Properties.                                                             *)

\* Every variable has the values the code can give it; the work the manager has under way
\* runs, or is being cancelled.
TypeOK ==
  /\ exp \in Expectations
  /\ source \in 1 .. MaxVersion
  /\ target \in Package
  /\ cron \in {"idle", "listed", "half", "removed"}
  /\ reachable \in BOOLEAN /\ wanted \in BOOLEAN
  /\ mishaps \subseteq {"overran", "finalized", "forgotten", "unremoved"}
  /\ \A w \in Works : work[w].ver \in None .. MaxVersion /\ work[w].read \in None .. MaxVersion
  /\ active # None => active \in Works /\ work[active] # NoWork
  /\ status \in {"new", "fulfilled", "removing", "removed"}
  /\ upsets \in 0 .. MaxUpsets

\* A work has written to the target though it was over for the manager.
WentOn == "overran" \in mishaps \/ "finalized" \in mishaps

\* What is said to be fulfilled is a whole copy of the source as it is now.  With a temporary
\* file also when the metadata outlived the file they belong to; without one only when they
\* did not; and in both cases only while no work went on after its cancellation, nor after
\* its stream had failed.
FulfilledIsComplete ==
  Fulfilled /\ ~WentOn /\ (target.left => WritesTo(exp) = "temp") => target.file = source

\* FileShare streams, and the tools, write to the file itself though there is to be a
\* temporary one.
IgnoresTemporary(e) ==
  \/ e.store = "fileShare" /\ Handler(e).cancel \in {"stream", "render"}
  \/ Handler(e).cancel = "process"

\* With a temporary file that is used, the file in place is never one that is being written.
TemporaryFirst == Renames(exp) /\ ~IgnoresTemporary(exp) /\ ~WentOn => target.file # Torn

\* The work, the manager and the cronjob agree, and what is half written has another name.
FileWorkInv == TypeOK /\ TemporaryFirst

\* A wanted package comes to be in place, and known to be, whatever has failed, was lost
\* or was cancelled before; but not where finalizePackage waits for a temporary file that
\* nobody writes.
WantedIsFulfilled ==
  wanted ~> (status = "fulfilled" \/ ~wanted \/ (Renames(exp) /\ IgnoresTemporary(exp)))

\* A package that is no longer wanted goes away, with its metadata.  It may stay where
\* nothing can be removed, when a work went on after its cancellation or its failure, when
\* the entry for it was made while the cronjob removed an earlier one, or when it could not
\* be accessed just while it was removed.
UnwantedIsRemoved ==
  ~wanted ~> \/ wanted \/ mishaps # {} \/ ~Store(exp).removes
             \/ (target.file = None /\ target.meta = None)

-----------------------------------------------------------------------------
(* What the comments of the code say, and the code does not keep.          *)

\* "To be called after a .putPackageStream(), putPackageInfo() or other file operation (like a
\* write or copy) has completed": without a work that overran its cancellation, what has been
\* finalized and is said to be fulfilled is not half written.
FinalizedIsComplete ==
  Fulfilled /\ "overran" \notin mishaps /\ ~target.left => target.file # Torn

-----------------------------------------------------------------------------
(* The inductive invariant.                                                 *)

RestsOfRemoval == {<<>>, <<"schedule">>, <<"removeMetadata", "unlink">>, <<"unlink">>}

\* The manager waits for the work it has under way, and for the end of its cancellation; one that
\* is not over then has gone on.
WorksAreKnown ==
  /\ work \in [Works -> WorkInProgress]
  /\ active # None => work[active].cancel # "over"
  /\ \A w \in Works :
       work[w] # NoWork =>
         /\ active = w \/ (work[w].cancel = "over" /\ WentOn)
         /\ work[w].cancel \in {"no", "over"} => Runs(w)

RestOfPlan(todo) ==
  LET done == Len(Plan(exp)) - Len(todo)
  IN done >= 0 /\ \A k \in 1 .. Len(todo) : todo[k] = Plan(exp)[done + k]

\* What is left to do is the rest of the plan, and of a removal.
WorksGoOn ==
  /\ \A w \in Works :
       /\ RestOfPlan(work[w].todo)
       /\ work[w].undo \in RestsOfRemoval
       /\ work[w].undo # <<>> => work[w].cancel = "undoes"
  /\ removing \in RestsOfRemoval
  /\ removing # <<>> => status = "removing"
  /\ status = "removing" => active = None /\ ~wanted

\* No version is known before the source has it.  A temporary file is only there for who uses one.
NothingIsAhead ==
  /\ target.meta <= source
  /\ \A w \in Works : work[w].ver <= source /\ work[w].read <= source
  /\ WritesTo(exp) = "file" => target.temp = None

\* A file that is gone, but not its metadata, is known to be.
LostIsKnown ==
  Handler(exp).fulfilled = "metadata" /\ WritesTo(exp) = "file" =>
    (target.file = None /\ target.meta = source => target.left)

\* A file is only removed after its metadata, if those could be accessed.
MetadataGoesFirst ==
  \A rest \in {removing} \union {work[w].undo : w \in Works} :
    rest # <<>> /\ Head(rest) = "unlink" => target.meta = None \/ target.left

\* The step before the next one.
Before(r) == Plan(exp)[Len(Plan(exp)) - Len(r.todo)]

\* Without a temporary file, a work does not touch a file whose metadata is that of the source.
WorksOnTheUnfulfilled ==
  Handler(exp).fulfilled = "metadata" /\ WritesTo(exp) = "file" =>
    \A w \in Works : Runs(w) => target.meta # source \/ target.left

\* What a work has read is at least as new as the version it will note in the metadata, and that
\* as new as the version there.  If the source is still that version, so is what has been copied.
CopyIsOfItsVersion(w) ==
  LET r == work[w] IN
  Runs(w) /\ ~Doing(w, "version") =>
    /\ target.meta <= r.ver /\ r.ver # None
    /\ Before(r) \in {"write", "probe"} => r.ver <= r.read
    /\ WritesTo(exp) = "temp" =>
         /\ Copies(w) => target.temp # None
         /\ Before(r) = "copy" \/ Doing(w, "rename") =>
              /\ target.temp \notin {None, Torn}
              /\ r.ver = source => target.temp = source
    /\ Doing(w, "updateMetadata") /\ exp.store # "core" =>
         (r.ver = source => target.file \in {None, source})

CopiesAreOfTheirVersion == \A w \in Works : CopyIsOfItsVersion(w)

\* What is half written has another name, if it is written to the temporary file.
NothingTornInPlace == WritesTo(exp) = "temp" => target.file # Torn

IInv ==
  /\ TypeOK /\ WorksAreKnown /\ WorksGoOn /\ NothingIsAhead
  /\ ~WentOn =>
       /\ LostIsKnown /\ MetadataGoesFirst /\ WorksOnTheUnfulfilled /\ CopiesAreOfTheirVersion
       /\ NothingTornInPlace
  /\ FulfilledIsComplete
=============================================================================
