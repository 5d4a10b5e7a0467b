------------------------ MODULE GenerateExpectations ------------------------
(***************************************************************************)
(* Which expectations follow from a list of expected packages:             *)
(* generateExpectations/nrk (expectations.ts, expectations-lib.ts,         *)
(* smartbull.ts, packageContainerExpectations.ts).                         *)
(*                                                                         *)
(* Everything here is a function of its arguments.  A collection of        *)
(* expectations is a sequence, in the order in which the keys were added   *)
(* to the code's object, with one expectation for each id.  The id of an   *)
(* expectation is a sequence: what is hashed, and the suffixes after it.   *)
(*                                                                         *)
(* A package is a record: id, type, content, version (with the renderer of *)
(* an HTML template), hash (its contentVersionHash), sources and targets   *)
(* (sets of containers), accessors (whether any of them has an accessor),  *)
(* priority, rundown, external, smartbull ("no", "clip" for the original   *)
(* package, "source" for a file in the smartbull storage) and sideEffect,  *)
(* the set of its wanted side effects: <<"thumbnail", container>>,         *)
(* <<"preview", container>>, <<"loudness", None>> and <<"iframes", None>>. *)
(***************************************************************************)
EXTENDS Integers, Sequences, FiniteSets, SequencesExt

CONSTANTS
  None,
  CorePackageInfo,   \* the container __corePackageInfo
  TemporaryStorage,  \* TEMPORARY_STORAGE_ID
  SourceMonitor, Smartbull \* SOURCE_MONITOR_STORAGE_ID, SMARTBULL_STORAGE_ID

\* PriorityMagnitude and PriorityAdditions
PLAY_NOW == 0
OTHER_RUNDOWN == 10000
PriorityAdditions ==
  [COPY |-> 0, COPY_PROXY |-> 90, SCAN |-> 100, LOUDNESS_SCAN |-> 500, IFRAMES_SCAN |-> 501,
   THUMBNAIL |-> 1002, PREVIEW |-> 1003, DEEP_SCAN |-> 1004]

-----------------------------------------------------------------------------
(* Order *)

\* A finite set as a sequence: each element comes after as many as are before it.
InOrder(S, before) ==
  [n \in 1 .. Cardinality(S) |->
     CHOOSE x \in S : Cardinality({y \in S : <<y, x>> \in before}) = n - 1]

\* The elements of s that are in S, in their order (SelectSeq for a set instead of a test)
Within(s, S) ==
  LET places == {i \in DOMAIN s : s[i] \in S}
      order == InOrder(places, {e \in places \X places : e[1] < e[2]})
  IN  [n \in DOMAIN order |-> s[order[n]]]

\* A stable sort, the lowest priority first
ByPriority(packages) ==
  LET places == DOMAIN packages
      order == InOrder(places, {e \in places \X places :
                 LET p == packages[e[1]]
                     q == packages[e[2]]
                 IN  p.priority < q.priority \/ (p.priority = q.priority /\ e[1] < e[2])})
  IN  [n \in DOMAIN order |-> packages[order[n]]]

-----------------------------------------------------------------------------
(* The expectation of a package.  `end` is what its id is the hash of.        *)
Basic(p, type, end, addition) ==
  [id |-> <<end>>, type |-> type, priority |-> p.priority + addition,
   from |-> <<[id |-> p.id, hash |-> p.hash]>>,
   sources |-> p.sources, targets |-> p.targets, content |-> p.content,
   sendReport |-> ~p.external, external |-> p.external, sideEffect |-> p.sideEffect,
   required |-> TRUE, removeDelay |-> None, dependsOn |-> {},
   smartbull |-> FALSE, original |-> None]

generateMediaFileCopy(p) ==
  [Basic(p, "FILE_COPY", <<"FILE_ON_DISK", p.targets, p.content, p.version>>, PriorityAdditions.COPY)
     EXCEPT !.removeDelay = "delayRemoval"]
generateMediaFileVerify(p) ==
  [Basic(p, "FILE_VERIFY", <<"FILE_ON_DISK", p.targets, p.content, p.version>>, PriorityAdditions.COPY)
     EXCEPT !.sources = {}]
generateQuantelCopy(p) ==
  Basic(p, "QUANTEL_CLIP_COPY", <<"QUANTEL_CLIP", p.targets, p.content, p.version>>, PriorityAdditions.COPY)
generateJsonDataCopy(p) ==
  [Basic(p, "JSON_DATA_COPY", <<"JSON", p.targets, p.content, p.version>>, PriorityAdditions.COPY)
     EXCEPT !.removeDelay = "delayRemoval"]
\* Which template is rendered is not a part of the id, only how and where it is rendered to.
generateHTMLRender(p) ==
  [Basic(p, "RENDER_HTML", <<"HTML", p.targets, p.version>>, PriorityAdditions.PREVIEW)
     EXCEPT !.required = FALSE, !.removeDelay = "none"]

(* The side effects of an expectation: they start from its targets and depend on it.  *)
SideEffect(e, suffix, type, addition, targets) ==
  [e EXCEPT !.id = Append(@, suffix), !.type = type, !.priority = @ + addition,
            !.sources = e.targets, !.targets = targets, !.required = FALSE,
            !.sideEffect = {}, !.dependsOn = {e.id}, !.original = None]

InfoOf(e, suffix, type, addition) ==
  [SideEffect(e, suffix, type, addition, {CorePackageInfo})
     EXCEPT !.removeDelay = "delayRemovalPackageInfo"]

\* The smartbull's scan is needed in order to build the rundown.
generatePackageScan(e) ==
  [InfoOf(e, "_scan", "PACKAGE_SCAN", IF e.smartbull THEN 1 ELSE PriorityAdditions.SCAN)
     EXCEPT !.required = e.smartbull]
generatePackageDeepScan(e) ==
  InfoOf(e, "_deepscan", "PACKAGE_DEEP_SCAN", PriorityAdditions.DEEP_SCAN)
generatePackageLoudness(e) ==
  InfoOf(e, "_loudness", "PACKAGE_LOUDNESS_SCAN", PriorityAdditions.LOUDNESS_SCAN)
generatePackageIframes(e) ==
  InfoOf(e, "_iframes", "PACKAGE_IFRAMES_SCAN", PriorityAdditions.IFRAMES_SCAN)

FileIn(e, suffix, type, addition, container) ==
  [SideEffect(e, suffix, type, addition, {container}) EXCEPT !.removeDelay = "none"]

generateMediaFileThumbnail(e, container) ==
  FileIn(e, "_thumbnail", "MEDIA_FILE_THUMBNAIL", PriorityAdditions.THUMBNAIL, container)
generateMediaFilePreview(e, container) ==
  FileIn(e, "_preview", "MEDIA_FILE_PREVIEW", PriorityAdditions.PREVIEW, container)
generateQuantelClipThumbnail(e, container) ==
  FileIn(e, "_thumbnail", "QUANTEL_CLIP_THUMBNAIL", PriorityAdditions.THUMBNAIL, container)
generateQuantelClipPreview(e, container) ==
  FileIn(e, "_preview", "QUANTEL_CLIP_PREVIEW", PriorityAdditions.PREVIEW, container)

\* The copy in the temporary storage takes over the side effects.  (The code makes none
\* for an expectation whose content has no name at all; here, all have one.)
generatePackageCopyFileProxy(e) ==
  [SideEffect(e, "_proxy", "FILE_COPY_PROXY",
              IF e.smartbull THEN 1 ELSE PriorityAdditions.COPY_PROXY, {TemporaryStorage})
     EXCEPT !.required = e.smartbull, !.removeDelay = "delayRemovalPackageInfo",
            !.sideEffect = e.sideEffect, !.original = e, !.smartbull = FALSE]

-----------------------------------------------------------------------------
(* The basic expectations *)

shouldBeIgnored(p) == p.smartbull # "no"

BasicExpectation(p) ==
  CASE p.type = "MEDIA_FILE" /\ p.sources = {} -> generateMediaFileVerify(p)
    [] p.type = "MEDIA_FILE" /\ p.sources # {} -> generateMediaFileCopy(p)
    [] p.type = "QUANTEL_CLIP" -> generateQuantelCopy(p)
    [] p.type = "JSON_DATA" -> generateJsonDataCopy(p)
    [] p.type = "HTML_TEMPLATE" -> generateHTMLRender(p)

getBasicExpectations(packages) ==
  LET relevant == Within(packages, {p \in Range(packages) : ~shouldBeIgnored(p) /\ p.accessors})
  IN  [i \in DOMAIN relevant |-> [package |-> relevant[i], exp |-> BasicExpectation(relevant[i])]]

\* The original smartbull packages, with the content of the smartbull file whose name is
\* the last one.  What they are copied from are the sources of the original still: only
\* those of the expectedPackage inside, which nothing reads any more, are replaced.
getSmartbullExpectedPackages(packages) ==
  LET files == {p \in Range(packages) : p.smartbull = "source" /\ p.type = "MEDIA_FILE"}
      best == CHOOSE p \in files : \A q \in files :
                q.content < p.content \/ (q.content = p.content /\ q.priority <= p.priority)
      clips == Within(packages, {p \in Range(packages) : p.smartbull = "clip" /\ p.type = "MEDIA_FILE"})
  IN  IF files = {} THEN <<>>
      ELSE [i \in DOMAIN clips |->
              [clips[i] EXCEPT !.content = best.content, !.version = None]]

\* The earlier an active rundown is, the more urgent its packages are.
getPriority(activeRundowns, p, exp) ==
  IF p.rundown \in DOMAIN activeRundowns
    THEN exp.priority + activeRundowns[p.rundown] + PLAY_NOW
    ELSE exp.priority + OTHER_RUNDOWN

\* Two packages which are to be in the same place have one expectation.
addExpectation_KeepsThePriority(activeRundowns, expectations, p, exp) ==
  LET existing == {i \in DOMAIN expectations : expectations[i].id = exp.id}
      i == CHOOSE j \in existing : TRUE
  IN  IF existing = {}
        THEN Append(expectations, [exp EXCEPT !.priority = getPriority(activeRundowns, p, exp)])
        ELSE [expectations EXCEPT ![i].from =
                IF expectations[i].from[1].hash = p.hash THEN @ \o exp.from ELSE @]
addExpectation(activeRundowns, expectations, p, exp) ==
  LET priority == getPriority(activeRundowns, p, exp)
      existing == {i \in DOMAIN expectations : expectations[i].id = exp.id}
      i == CHOOSE j \in existing : TRUE
  IN  IF existing = {} THEN Append(expectations, [exp EXCEPT !.priority = priority])
      ELSE [expectations EXCEPT
              ![i].priority = IF priority < @ THEN priority ELSE @,
              ![i].from = IF expectations[i].from[1].hash = p.hash THEN @ \o exp.from ELSE @]

-----------------------------------------------------------------------------
(* The side effects *)

\* Several expectations for the same package have their side effects only once.
groupExpectations(expectations) ==
  LET handledBefore(i) == UNION {Range(expectations[j].from) : j \in 1 .. i - 1}
  IN  {expectations[i] : i \in {j \in DOMAIN expectations :
                                  Range(expectations[j].from) \cap handledBefore(j) = {}}}

\* The container of a wanted side effect, if there is such a container
ContainerFor(e, effect, containers) ==
  {c \in containers : <<effect, c>> \in e.sideEffect}
Wants(e, effect) == <<effect, None>> \in e.sideEffect

Scans(e, scanned, settings) ==
  IF e.external THEN {}
  ELSE {generatePackageScan(scanned)}
         \cup (IF settings.skipDeepScan THEN {} ELSE {generatePackageDeepScan(e)})

getSideEffectOfExpectation(containers, settings, e) ==
  CASE e.type \in {"FILE_COPY", "FILE_VERIFY", "FILE_COPY_PROXY"} ->
         LET \* of a Quantel clip, the original is scanned
             scanned == IF e.original # None /\ e.original.type = "QUANTEL_CLIP_COPY"
                          THEN e.original ELSE e
         IN  Scans(e, scanned, settings)
               \cup {generateMediaFileThumbnail(e, c) : c \in ContainerFor(e, "thumbnail", containers)}
               \cup {generateMediaFilePreview(e, c) : c \in ContainerFor(e, "preview", containers)}
               \cup (IF Wants(e, "loudness") THEN {generatePackageLoudness(e)} ELSE {})
               \cup (IF Wants(e, "iframes") THEN {generatePackageIframes(e)} ELSE {})
    [] e.type = "QUANTEL_CLIP_COPY" ->
         Scans(e, e, settings)
           \cup {generateQuantelClipThumbnail(e, c) : c \in ContainerFor(e, "thumbnail", containers)}
           \cup {generateQuantelClipPreview(e, c) : c \in ContainerFor(e, "preview", containers)}
           \cup (IF Wants(e, "loudness") THEN {generatePackageLoudness(e)} ELSE {})
    [] OTHER -> {}

\* With a temporary storage, the side effects are those of the copies there; a copy
\* without side effects is not made.
injectSideEffectExpectations_WithoutTheCopy(containers, settings, expectations) ==
  LET grouped == groupExpectations(expectations)
      effectsOf(e) == getSideEffectOfExpectation(containers, settings, e)
      sources == IF TemporaryStorage \notin containers THEN grouped
                 ELSE {generatePackageCopyFileProxy(e) : e \in
                         {g \in grouped : g.type \in {"FILE_COPY", "FILE_VERIFY"}}}
  IN  Range(expectations) \cup UNION {effectsOf(e) : e \in sources}
injectSideEffectExpectations(containers, settings, expectations) ==
  LET grouped == groupExpectations(expectations)
      effectsOf(e) == getSideEffectOfExpectation(containers, settings, e)
      proxies == {generatePackageCopyFileProxy(e) : e \in
                    {g \in grouped : g.type \in {"FILE_COPY", "FILE_VERIFY", "QUANTEL_CLIP_COPY"}}}
  IN  Range(expectations)
        \cup (IF TemporaryStorage \notin containers THEN UNION {effectsOf(e) : e \in grouped}
              ELSE UNION {{e} \cup effectsOf(e) : e \in {p \in proxies : effectsOf(p) # {}}})

\* The packages with their basic expectations, in the order in which they are added
Candidates(packages) ==
  LET sorted == ByPriority(packages)
      smartbulls == getSmartbullExpectedPackages(sorted)
  IN  getBasicExpectations(sorted)
        \o [i \in DOMAIN smartbulls |->
              [package |-> smartbulls[i],
               exp |-> [generateMediaFileCopy(smartbulls[i]) EXCEPT !.smartbull = TRUE]]]

\* What has been added, after each of the candidates
AddedExpectations(activeRundowns, candidates) ==
  LET added[n \in 0 .. Len(candidates)] ==
        IF n = 0 THEN <<>>
        ELSE addExpectation(activeRundowns, added[n - 1], candidates[n].package, candidates[n].exp)
  IN  added[Len(candidates)]

getExpectations(packages, containers, activeRundowns, settings) ==
  injectSideEffectExpectations(containers, settings,
    AddedExpectations(activeRundowns, Candidates(packages)))

\* What is expected of the containers themselves
getPackageContainerExpectations(containers) ==
  [c \in containers \cap {SourceMonitor, Smartbull, TemporaryStorage} |->
     [cleanup |-> c = TemporaryStorage, monitor |-> c # TemporaryStorage]]
=============================================================================
