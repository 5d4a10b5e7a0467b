--------------------------- MODULE FileWork_proofs ---------------------------
(***************************************************************************)
(* Proofs about FileWork: whatever is taken for fulfilled is a whole copy  *)
(* of the source as it is now, for every Expectation, any number of works, *)
(* versions and upsets.                                                    *)
(***************************************************************************)
EXTENDS FileWork, SequenceTheorems, TLAPS

Stores == {"localFolder", "fileShare", "httpProxy", "core", "quantel"}

-----------------------------------------------------------------------------
(* The Expectations, the handlers and the stores *)

LEMMA ExpectationTypes ==
  ASSUME NEW e \in Expectations
  PROVE  /\ e.handler \in Handlers /\ e.store \in Stores
         /\ e.temporary \in BOOLEAN /\ e.delay \in BOOLEAN
         /\ e.store = "core" <=> e.handler \in ToCore
         /\ e.handler = "QuantelClipCopy" => e.store = "quantel"
BY ExpectationsAssumption DEF Stores

LEMMA StoreFacts ==
  ASSUME NEW e \in Expectations
  PROVE  /\ Store(e).renames \in BOOLEAN /\ Store(e).removes \in BOOLEAN
         /\ Store(e).renames => e.store \in {"localFolder", "fileShare"}
         /\ Store(e).stream \in {"file", "temp"} /\ Store(e).abort \in {"closes", "ignored", "fails"}
<1>1. CASE e.store = "localFolder"
  BY <1>1 DEF Store, LocalFolder
<1>2. CASE e.store = "fileShare"
  BY <1>2 DEF Store, FileShare
<1>3. CASE e.store = "httpProxy"
  BY <1>3 DEF Store, HTTPProxy
<1>4. CASE e.store = "core"
  BY <1>4 DEF Store, CorePackageInfo
<1>5. CASE e.store = "quantel"
  BY <1>5 DEF Store, Quantel
<1> QED BY <1>1, <1>2, <1>3, <1>4, <1>5, ExpectationTypes DEF Stores

LEMMA RenamesFacts ==
  ASSUME NEW e \in Expectations
  PROVE  Renames(e) \in BOOLEAN /\ (Renames(e) => e.store # "core")
BY StoreFacts, ExpectationTypes DEF Renames

\* What is fulfilled by what is in Core goes to Core.
LEMMA HandlerFacts ==
  ASSUME NEW e \in Expectations
  PROVE  /\ Handler(e).fulfilled \in {"metadata", "info", "version"}
         /\ Handler(e).fulfilled = "info" <=> e.store = "core"
         /\ Handler(e).cancel \in {"copy", "stream", "process", "clip", "render"}
         /\ Handler(e).fulfilled # "metadata" => Handler(e).cancel \in {"process", "clip"}
         /\ Handler(e).cancel = "clip" => e.handler = "QuantelClipCopy"
<1> USE ExpectationTypes DEF ToCore
<1>1. CASE e.handler \in {"JsonDataCopy", "JsonDataCopyToCore"}
  BY <1>1 DEF Handler, JsonDataCopyHandler
<1>2. CASE e.handler = "MediaFilePreview"
  BY <1>2 DEF Handler, MediaFilePreviewHandler
<1>3. CASE e.handler = "MediaFileThumbnail"
  BY <1>3 DEF Handler, MediaFileThumbnailHandler
<1>4. CASE e.handler = "QuantelClipPreview"
  BY <1>4 DEF Handler, QuantelClipPreviewHandler
<1>5. CASE e.handler = "QuantelClipThumbnail"
  BY <1>5 DEF Handler, QuantelClipThumbnailHandler
<1>6. CASE e.handler = "FileCopyProxy"
  BY <1>6 DEF Handler, FileCopyProxyHandler
<1>7. CASE e.handler = "QuantelClipCopy"
  BY <1>7 DEF Handler, QuantelClipCopyHandler
<1>8. CASE e.handler = "RenderHTML"
  BY <1>8 DEF Handler, RenderHTMLHandler
<1>9. CASE e.handler = "PackageScan"
  BY <1>9 DEF Handler, PackageScanHandler
<1>10. CASE e.handler = "PackageDeepScan"
  BY <1>10 DEF Handler, PackageDeepScanHandler
<1>11. CASE e.handler = "PackageLoudnessScan"
  BY <1>11 DEF Handler, PackageLoudnessScanHandler
<1>12. CASE e.handler = "PackageIframesScan"
  BY <1>12 DEF Handler, PackageIframesScanHandler
<1>13. CASE e.handler \in {"FileCopyUsingRobocopy", "FileCopyUsingFileflow", "FileCopyUsingStreams"}
  BY <1>13 DEF Handler, FileCopyHandler
<1> QED BY <1>1, <1>2, <1>3, <1>4, <1>5, <1>6, <1>7, <1>8, <1>9, <1>10, <1>11, <1>12, <1>13
        DEF Handlers

LEMMA WritesToFacts ==
  ASSUME NEW e \in Expectations
  PROVE  /\ WritesTo(e) \in {"file", "temp"}
         /\ WritesTo(e) = "temp" =>
              Renames(e) /\ e.store # "core" /\ Handler(e).fulfilled = "metadata"
BY HandlerFacts, RenamesFacts DEF WritesTo

\* Where the temporary file is heeded, it is what is written to.
LEMMA HeededFacts ==
  ASSUME NEW e \in Expectations, Renames(e), ~IgnoresTemporary(e)
  PROVE  WritesTo(e) = "temp"
<1>1. e.store = "localFolder" \/ e.store = "fileShare"
  BY StoreFacts DEF Renames
<1>2. Handler(e).cancel = "copy" \/ (Handler(e).cancel \in {"stream", "render"} /\ e.store = "localFolder")
  <2>1. Handler(e).cancel # "clip"
    BY <1>1, HandlerFacts, ExpectationTypes
  <2> QED BY <1>1, <2>1, HandlerFacts DEF IgnoresTemporary
<1>3. e.store = "localFolder" => Store(e).stream = "temp"
  BY DEF Store, LocalFolder
<1> QED BY <1>2, <1>3 DEF WritesTo

LEMMA RemovalFacts ==
  ASSUME NEW e \in Expectations
  PROVE  removePackage(e) \in {<<>>, <<"schedule">>, <<"removeMetadata", "unlink">>}
BY StoreFacts, ExpectationTypes DEF removePackage

LEMMA FinalizeFacts ==
  ASSUME NEW e \in Expectations
  PROVE  /\ Renames(e) => finalizePackage(e) = <<"unlink", "rename">>
         /\ ~Renames(e) => finalizePackage(e) = <<>>
BY RenamesFacts DEF finalizePackage

-----------------------------------------------------------------------------
(* The plans *)

LEMMA Catenated ==
  ASSUME NEW S, NEW s \in Seq(S), NEW t \in Seq(S)
  PROVE  /\ s \o t \in Seq(S) /\ Len(s \o t) = Len(s) + Len(t)
         /\ \A k \in 1 .. Len(s) : (s \o t)[k] = s[k]
         /\ \A k \in 1 .. Len(t) : (s \o t)[Len(s) + k] = t[k]
<1>1. /\ Len(s \o t) = Len(s) + Len(t)
      /\ \A k \in 1 .. (Len(s) + Len(t)) : (s \o t)[k] = IF k <= Len(s) THEN s[k] ELSE t[k - Len(s)]
  BY ConcatProperties
<1>2. Len(s) \in Nat /\ Len(t) \in Nat
  OBVIOUS
<1>3. \A k \in 1 .. Len(s) : (s \o t)[k] = s[k]
  BY <1>1, <1>2
<1>4. \A k \in 1 .. Len(t) : (s \o t)[Len(s) + k] = t[k]
  BY <1>1, <1>2
<1>5. s \o t \in Seq(S)
  BY ConcatProperties
<1> QED BY <1>1, <1>3, <1>4, <1>5

\* The beginning of a plan, up to where the target is prepared.
Lead(s) ==
  /\ s \in Seq(Steps) /\ Len(s) > 0 /\ s[1] = "version"
  /\ \A k \in 2 .. Len(s) :
       /\ s[k] \notin {"version", "write", "copy", "rename", "updateMetadata"}
       /\ s[k] = "unlink" => s[k - 1] = "removeMetadata"

\* Up to the copy.
Body(s) ==
  /\ s \in Seq(Steps) /\ Len(s) > 1 /\ s[1] = "version"
  /\ s[Len(s)] = "copy" /\ s[Len(s) - 1] = "write"
  /\ \A k \in 2 .. Len(s) :
       /\ s[k] \notin {"version", "rename", "updateMetadata"}
       /\ s[k] = "unlink" => s[k - 1] = "removeMetadata"
       /\ s[k] = "copy" => s[k - 1] = "write"
       /\ s[k - 1] # "copy"

\* The plan of Expectation e.
IsPlan(s, e) ==
  /\ s \in Seq(Steps) /\ Len(s) > 1 /\ s[1] = "version"
  /\ \A k \in 2 .. Len(s) :
       /\ s[k] # "version"
       /\ s[k] \in {"write", "copy", "unlink", "rename"} => e.store # "core"
       /\ s[k] = "copy" => s[k - 1] = "write"
       /\ s[k] = "unlink" => s[k - 1] = "removeMetadata" \/ (s[k - 1] = "copy" /\ Renames(e))
       /\ s[k] = "rename" => s[k - 1] = "unlink" /\ k > 2 /\ s[k - 2] = "copy"
       /\ s[k] = "updateMetadata" =>
            /\ k = Len(s)
            /\ s[k - 1] = IF e.store = "core" THEN "probe" ELSE IF Renames(e) THEN "rename" ELSE "copy"
       /\ s[k - 1] = "copy" => s[k] \in {"unlink", "updateMetadata"}

LEMMA LeadOfRemoval ==
  ASSUME NEW e \in Expectations
  PROVE  Lead(<<"version">> \o removePackage(e))
<1> DEFINE v == <<"version">>
           r == removePackage(e)
           s == v \o r
<1>1. v \in Seq(Steps) /\ Len(v) = 1 /\ v[1] = "version"
  BY DEF Steps
<1>2. /\ r \in Seq(Steps) /\ Len(r) \in Nat
      /\ \A k \in 1 .. Len(r) :
           /\ r[k] \in {"schedule", "removeMetadata", "unlink"}
           /\ r[k] = "unlink" => k > 1 /\ r[k - 1] = "removeMetadata"
  <2>1. CASE r = <<>>
    BY <2>1
  <2>2. CASE r = <<"schedule">>
    BY <2>2 DEF Steps
  <2>3. CASE r = <<"removeMetadata", "unlink">>
    <3>1. r \in Seq(Steps) /\ Len(r) = 2 /\ r[1] = "removeMetadata" /\ r[2] = "unlink"
      BY <2>3 DEF Steps
    <3>2. \A k \in 1 .. Len(r) : k = 1 \/ k = 2
      BY <3>1
    <3> QED BY <3>1, <3>2
  <2> HIDE DEF r
  <2> QED BY <2>1, <2>2, <2>3, RemovalFacts DEF r
<1> HIDE DEF v, r
<1>3. /\ s \in Seq(Steps) /\ Len(s) = 1 + Len(r) /\ s[1] = v[1]
      /\ \A k \in 1 .. Len(r) : s[1 + k] = r[k]
  <2>1. 1 \in 1 .. Len(v)
    BY <1>1
  <2> QED BY <1>1, <1>2, <2>1, Catenated
<1> HIDE DEF s
<1>4. \A k \in 2 .. Len(s) : k - 1 \in 1 .. Len(r) /\ s[k] = r[k - 1]
  BY <1>2, <1>3
<1>5. \A k \in 3 .. Len(s) : s[k - 1] = r[k - 2]
  BY <1>2, <1>4
<1>6. ASSUME NEW k \in 2 .. Len(s)
      PROVE  /\ s[k] \notin {"version", "write", "copy", "rename", "updateMetadata"}
             /\ s[k] = "unlink" => s[k - 1] = "removeMetadata"
  <2>1. k - 1 \in 1 .. Len(r) /\ s[k] = r[k - 1]
    BY <1>4
  <2>2. s[k] \in {"schedule", "removeMetadata", "unlink"}
    BY <1>2, <2>1
  <2>3. s[k] = "unlink" => k - 1 > 1 /\ r[k - 2] = "removeMetadata"
    <3>1. s[k] = "unlink" => k - 1 > 1 /\ r[(k - 1) - 1] = "removeMetadata"
      BY <1>2, <2>1
    <3>2. (k - 1) - 1 = k - 2
      OBVIOUS
    <3> QED BY <3>1, <3>2
  <2>4. k - 1 > 1 => s[k - 1] = r[k - 2]
    BY <1>5, <2>1, <1>2
  <2> QED BY <2>2, <2>3, <2>4
<1> QED BY <1>1, <1>2, <1>3, <1>6 DEF Lead, v, r, s

\* The copy, with what comes just before it.
LEMMA BodyOfLead ==
  ASSUME NEW s, Lead(s),
         NEW t \in {<<"prepare", "write", "copy">>, <<"probe", "prepare", "write", "copy">>}
  PROVE  Body(s \o t)
<1>1. s \in Seq(Steps) /\ Len(s) \in Nat /\ Len(s) > 0
  BY DEF Lead
<1>2. /\ t \in Seq(Steps) /\ Len(t) \in Nat /\ Len(t) > 2
      /\ t[Len(t)] = "copy" /\ t[Len(t) - 1] = "write"
      /\ \A k \in 1 .. Len(t) :
           /\ t[k] \in {"probe", "prepare", "write", "copy"}
           /\ t[k] = "copy" => k > 1 /\ t[k - 1] = "write"
           /\ t[k] = "copy" => k = Len(t)
  <2>1. CASE t = <<"prepare", "write", "copy">>
    <3>1. t \in Seq(Steps) /\ Len(t) = 3 /\ t[1] = "prepare" /\ t[2] = "write" /\ t[3] = "copy"
      BY <2>1 DEF Steps
    <3>2. \A k \in 1 .. Len(t) : k = 1 \/ k = 2 \/ k = 3
      BY <3>1
    <3> QED BY <3>1, <3>2
  <2>2. CASE t = <<"probe", "prepare", "write", "copy">>
    <3>1. /\ t \in Seq(Steps) /\ Len(t) = 4
          /\ t[1] = "probe" /\ t[2] = "prepare" /\ t[3] = "write" /\ t[4] = "copy"
      BY <2>2 DEF Steps
    <3>2. \A k \in 1 .. Len(t) : k = 1 \/ k = 2 \/ k = 3 \/ k = 4
      BY <3>1
    <3> QED BY <3>1, <3>2
  <2> QED BY <2>1, <2>2
<1> DEFINE c == s \o t
           n == Len(s)
<1>3. /\ c \in Seq(Steps) /\ Len(c) = n + Len(t)
      /\ \A k \in 1 .. n : c[k] = s[k]
      /\ \A k \in 1 .. Len(t) : c[n + k] = t[k]
  BY <1>1, <1>2, Catenated
<1> HIDE DEF c
<1>4. ASSUME NEW k \in n + 1 .. Len(c)
      PROVE  k - n \in 1 .. Len(t) /\ c[k] = t[k - n]
  <2>1. k - n \in 1 .. Len(t) /\ n + (k - n) = k
    BY <1>1, <1>2, <1>3
  <2> QED BY <1>3, <2>1
<1>5. c[1] = "version" /\ c[n] # "copy"
  BY <1>1, <1>3 DEF Lead
<1>6. c[Len(c)] = "copy" /\ c[Len(c) - 1] = "write"
  <2>1. Len(t) \in 1 .. Len(t) /\ Len(t) - 1 \in 1 .. Len(t)
    BY <1>2
  <2>2. c[n + Len(t)] = t[Len(t)] /\ c[n + (Len(t) - 1)] = t[Len(t) - 1]
    BY <1>3, <2>1
  <2>3. n + (Len(t) - 1) = Len(c) - 1
    BY <1>1, <1>2, <1>3
  <2> QED BY <1>2, <1>3, <2>2, <2>3
<1>7. ASSUME NEW k \in 2 .. Len(c)
      PROVE  /\ c[k] \notin {"version", "rename", "updateMetadata"}
             /\ c[k] = "unlink" => c[k - 1] = "removeMetadata"
             /\ c[k] = "copy" => c[k - 1] = "write"
             /\ c[k - 1] # "copy"
  <2>1. CASE k <= n
    <3>1. k \in 2 .. n /\ k \in 1 .. n /\ k - 1 \in 1 .. n
      BY <1>1, <1>3, <2>1
    <3>2. c[k] = s[k] /\ c[k - 1] = s[k - 1]
      BY <1>3, <3>1
    <3>3. s[k - 1] # "copy"
      <4>1. k - 1 = 1 \/ k - 1 \in 2 .. n
        BY <3>1, <1>1
      <4> QED BY <4>1 DEF Lead
    <3> QED BY <3>1, <3>2, <3>3 DEF Lead
  <2>2. CASE k > n
    <3>1. k - n \in 1 .. Len(t) /\ c[k] = t[k - n]
      BY <1>1, <1>2, <1>3, <1>4, <2>2
    <3>2. t[k - n] \in {"probe", "prepare", "write", "copy"}
      BY <1>2, <3>1
    <3>3. CASE k - n = 1
      <4>1. c[k - 1] = c[n]
        BY <1>1, <3>3
      <4>2. t[k - n] # "copy"
        BY <1>2, <3>1, <3>3
      <4> QED BY <1>5, <3>1, <3>2, <4>1, <4>2
    <3>4. CASE k - n # 1
      <4>1. k - 1 \in n + 1 .. Len(c) /\ (k - 1) - n = (k - n) - 1
        BY <1>1, <1>2, <1>3, <2>2, <3>1, <3>4
      <4>2. c[k - 1] = t[(k - n) - 1]
        BY <1>4, <4>1
      <4>3. t[(k - n) - 1] # "copy"
        BY <1>2, <3>1, <3>4
      <4>4. t[k - n] = "copy" => t[(k - n) - 1] = "write"
        BY <1>2, <3>1
      <4> QED BY <3>1, <3>2, <4>2, <4>3, <4>4
    <3> QED BY <3>3, <3>4
  <2> QED BY <2>1, <2>2, <1>1
<1> QED BY <1>1, <1>2, <1>3, <1>5, <1>6, <1>7 DEF Body, c

\* The end: the file is put in place, and its metadata written.
LEMMA PlanOfBody ==
  ASSUME NEW e \in Expectations, e.store # "core", NEW s, Body(s)
  PROVE  IsPlan(s \o finalizePackage(e) \o <<"updateMetadata">>, e)
<1> DEFINE n == Len(s)
           f == finalizePackage(e)
           u == <<"updateMetadata">>
           m == Len(f)
           a == s \o f
           c == a \o u
<1>1. s \in Seq(Steps) /\ n \in Nat /\ n > 1
  BY DEF Body
<1>2. /\ f \in Seq(Steps) /\ u \in Seq(Steps) /\ Len(u) = 1 /\ u[1] = "updateMetadata"
      /\ Renames(e) => m = 2 /\ f[1] = "unlink" /\ f[2] = "rename"
      /\ ~Renames(e) => m = 0
  <2>1. u \in Seq(Steps) /\ Len(u) = 1 /\ u[1] = "updateMetadata"
    BY DEF Steps
  <2>2. CASE Renames(e)
    <3>1. f = <<"unlink", "rename">>
      BY <2>2, FinalizeFacts
    <3> QED BY <2>1, <2>2, <3>1 DEF Steps
  <2>3. CASE ~Renames(e)
    <3>1. f = <<>>
      BY <2>3, FinalizeFacts
    <3> QED BY <2>1, <2>3, <3>1
  <2> QED BY <2>2, <2>3
<1> HIDE DEF f, u
<1>3. m \in {0, 2}
  BY <1>2, RenamesFacts
<1>4. /\ a \in Seq(Steps) /\ Len(a) = n + m
      /\ \A k \in 1 .. n : a[k] = s[k]
      /\ \A k \in 1 .. m : a[n + k] = f[k]
  BY <1>1, <1>2, Catenated
<1> HIDE DEF a, m
<1>5. /\ c \in Seq(Steps) /\ Len(c) = n + m + 1
      /\ \A k \in 1 .. n + m : c[k] = a[k]
      /\ c[n + m + 1] = "updateMetadata"
  <2>1. /\ c \in Seq(Steps) /\ Len(c) = Len(a) + 1
        /\ \A k \in 1 .. Len(a) : c[k] = a[k]
        /\ c[Len(a) + 1] = u[1]
    <3>1. 1 \in 1 .. Len(u)
      BY <1>2
    <3>2. /\ a \o u \in Seq(Steps) /\ Len(a \o u) = Len(a) + Len(u)
          /\ \A k \in 1 .. Len(a) : (a \o u)[k] = a[k]
          /\ \A k \in 1 .. Len(u) : (a \o u)[Len(a) + k] = u[k]
      <4>1. a \in Seq(Steps) /\ u \in Seq(Steps)
        BY <1>2, <1>4
      <4> QED BY <4>1, Catenated
    <3>3. (a \o u)[Len(a) + 1] = u[1]
      BY <3>1, <3>2
    <3> QED BY <1>2, <3>2, <3>3
  <2> QED BY <1>2, <1>4, <2>1
<1> HIDE DEF c
<1>6. (Renames(e) => m = 2) /\ (~Renames(e) => m = 0)
  BY <1>2 DEF m
<1>7. /\ \A k \in 1 .. n : c[k] = s[k]
      /\ Renames(e) => c[n + 1] = "unlink" /\ c[n + 2] = "rename"
  <2>1. \A k \in 1 .. n : c[k] = s[k]
    BY <1>1, <1>3, <1>4, <1>5
  <2>2. ASSUME Renames(e)
        PROVE  c[n + 1] = "unlink" /\ c[n + 2] = "rename"
    <3>1. m = 2 /\ n + 1 \in 1 .. n + m /\ n + 2 \in 1 .. n + m
      BY <1>1, <1>6, <2>2
    <3>2. a[n + 1] = f[1] /\ a[n + 2] = f[2]
      BY <1>4, <3>1
    <3> QED BY <1>2, <1>5, <2>2, <3>1, <3>2
  <2> QED BY <2>1, <2>2
<1>8. c[1] = "version" /\ c[n] = "copy"
  BY <1>1, <1>7 DEF Body
<1>9. ASSUME NEW k \in 2 .. Len(c)
      PROVE  /\ c[k] # "version"
             /\ c[k] = "copy" => c[k - 1] = "write"
             /\ c[k] = "unlink" =>
                  c[k - 1] = "removeMetadata" \/ (c[k - 1] = "copy" /\ Renames(e))
             /\ c[k] = "rename" => c[k - 1] = "unlink" /\ k > 2 /\ c[k - 2] = "copy"
             /\ c[k] = "updateMetadata" =>
                  /\ k = Len(c)
                  /\ c[k - 1] = IF Renames(e) THEN "rename" ELSE "copy"
             /\ c[k - 1] = "copy" => c[k] \in {"unlink", "updateMetadata"}
  <2>1. CASE k <= n
    <3>1. k \in 2 .. n /\ k \in 1 .. n /\ k - 1 \in 1 .. n
      BY <1>1, <1>5, <2>1
    <3>2. c[k] = s[k] /\ c[k - 1] = s[k - 1]
      BY <1>7, <3>1
    <3> QED BY <3>1, <3>2 DEF Body
  <2>2. CASE k = n + 1
    <3>1. c[k - 1] = "copy"
      BY <1>1, <1>8, <2>2
    <3>2. CASE Renames(e)
      BY <1>7, <2>2, <3>1, <3>2
    <3>3. CASE ~Renames(e)
      <4>1. k = Len(c) /\ c[k] = "updateMetadata"
        BY <1>1, <1>5, <1>6, <2>2, <3>3
      <4> QED BY <3>1, <3>3, <4>1
    <3> QED BY <3>2, <3>3
  <2>3. CASE k > n + 1
    <3>1. Renames(e) /\ m = 2
      BY <1>1, <1>5, <1>6, <2>3, RenamesFacts
    <3>2. k = n + 2 \/ k = n + 3
      BY <1>1, <1>5, <2>3, <3>1
    <3>3. CASE k = n + 2
      <4>1. k - 1 = n + 1 /\ k - 2 = n /\ k > 2
        BY <1>1, <3>3
      <4> QED BY <1>7, <1>8, <3>1, <3>3, <4>1
    <3>4. CASE k = n + 3
      <4>1. k - 1 = n + 2 /\ k = Len(c) /\ k = n + m + 1
        BY <1>1, <1>5, <3>1, <3>4
      <4> QED BY <1>5, <1>7, <3>1, <4>1
    <3> QED BY <3>2, <3>3, <3>4
  <2> QED BY <1>1, <2>1, <2>2, <2>3
<1>10. c \in Seq(Steps) /\ Len(c) > 1
  BY <1>1, <1>3, <1>5
<1> QED BY <1>8, <1>9, <1>10 DEF IsPlan, c, a, f, u

LEMMA BodyOfCopy ==
  ASSUME NEW s \in {<<"version", "prepare", "write", "copy">>,
                    <<"version", "render", "prepare", "write", "copy">>}
  PROVE  Body(s)
<1>1. CASE s = <<"version", "prepare", "write", "copy">>
  <2>1. /\ s \in Seq(Steps) /\ Len(s) = 4
        /\ s[1] = "version" /\ s[2] = "prepare" /\ s[3] = "write" /\ s[4] = "copy"
    BY <1>1 DEF Steps
  <2>2. \A k \in 2 .. Len(s) : (k = 2 /\ k - 1 = 1) \/ (k = 3 /\ k - 1 = 2) \/ (k = 4 /\ k - 1 = 3)
    BY <2>1
  <2> QED BY <2>1, <2>2 DEF Body
<1>2. CASE s = <<"version", "render", "prepare", "write", "copy">>
  <2>1. /\ s \in Seq(Steps) /\ Len(s) = 5 /\ s[1] = "version" /\ s[2] = "render"
        /\ s[3] = "prepare" /\ s[4] = "write" /\ s[5] = "copy"
    BY <1>2 DEF Steps
  <2>2. \A k \in 2 .. Len(s) :
          \/ (k = 2 /\ k - 1 = 1) \/ (k = 3 /\ k - 1 = 2)
          \/ (k = 4 /\ k - 1 = 3) \/ (k = 5 /\ k - 1 = 4)
    BY <2>1
  <2> QED BY <2>1, <2>2 DEF Body
<1> QED BY <1>1, <1>2

LEMMA PlanOfClip ==
  ASSUME NEW e \in Expectations, e.store # "core"
  PROVE  IsPlan(QuantelClipCopy(e), e)
<1> DEFINE s == <<"version", "prepare", "write", "copy">>
<1>1. s \in Seq(Steps) /\ Body(s)
  BY BodyOfCopy DEF Steps
<1>2. /\ Len(s) = 4 /\ s[1] = "version" /\ s[2] = "prepare" /\ s[3] = "write" /\ s[4] = "copy"
  OBVIOUS
<1> HIDE DEF s
<1>3. \A k \in 2 .. Len(s) : (k = 2 /\ k - 1 = 1) \/ (k = 3 /\ k - 1 = 2) \/ (k = 4 /\ k - 1 = 3)
  BY <1>2
<1>4. IsPlan(s, e)
  BY <1>1, <1>2, <1>3 DEF IsPlan
<1> QED BY <1>4 DEF QuantelClipCopy, s

LEMMA PlanToCore ==
  ASSUME NEW e \in Expectations, e.store = "core",
         NEW s \in {<<"version", "probe", "updateMetadata">>,
                    <<"version", "probe", "probe", "updateMetadata">>,
                    <<"version", "probe", "probe", "probe", "updateMetadata">>}
  PROVE  IsPlan(s, e)
<1>1. /\ s \in Seq(Steps) /\ Len(s) \in 3 .. 5 /\ s[1] = "version" /\ s[Len(s)] = "updateMetadata"
      /\ \A k \in 2 .. Len(s) - 1 : s[k] = "probe"
  <2>1. CASE s = <<"version", "probe", "updateMetadata">>
    <3>1. s \in Seq(Steps) /\ Len(s) = 3 /\ s[1] = "version" /\ s[2] = "probe" /\ s[3] = "updateMetadata"
      BY <2>1 DEF Steps
    <3>2. \A k \in 2 .. Len(s) - 1 : k = 2
      BY <3>1
    <3> QED BY <3>1, <3>2
  <2>2. CASE s = <<"version", "probe", "probe", "updateMetadata">>
    <3>1. /\ s \in Seq(Steps) /\ Len(s) = 4 /\ s[1] = "version"
          /\ s[2] = "probe" /\ s[3] = "probe" /\ s[4] = "updateMetadata"
      BY <2>2 DEF Steps
    <3>2. \A k \in 2 .. Len(s) - 1 : k = 2 \/ k = 3
      BY <3>1
    <3> QED BY <3>1, <3>2
  <2>3. CASE s = <<"version", "probe", "probe", "probe", "updateMetadata">>
    <3>1. /\ s \in Seq(Steps) /\ Len(s) = 5 /\ s[1] = "version"
          /\ s[2] = "probe" /\ s[3] = "probe" /\ s[4] = "probe" /\ s[5] = "updateMetadata"
      BY <2>3 DEF Steps
    <3>2. \A k \in 2 .. Len(s) - 1 : k = 2 \/ k = 3 \/ k = 4
      BY <3>1
    <3> QED BY <3>1, <3>2
  <2> QED BY <2>1, <2>2, <2>3
<1>2. ASSUME NEW k \in 2 .. Len(s)
      PROVE  /\ s[k] \in {"probe", "updateMetadata"} /\ s[k - 1] # "copy"
             /\ s[k] = "updateMetadata" => k = Len(s) /\ s[k - 1] = "probe"
  <2>1. CASE k = Len(s)
    <3>1. k - 1 \in 2 .. Len(s) - 1
      BY <1>1, <2>1
    <3> QED BY <1>1, <2>1, <3>1
  <2>2. CASE k # Len(s)
    <3>1. k \in 2 .. Len(s) - 1 /\ (k - 1 = 1 \/ k - 1 \in 2 .. Len(s) - 1)
      BY <1>1, <2>2
    <3> QED BY <1>1, <3>1
  <2> QED BY <2>1, <2>2
<1> QED BY <1>1, <1>2 DEF IsPlan

\* The plan of every handler.
LEMMA PlanFacts ==
  ASSUME NEW e \in Expectations
  PROVE  IsPlan(Plan(e), e)
<1> USE ExpectationTypes
<1> DEFINE Copied_(s) == s \o finalizePackage(e) \o <<"updateMetadata">>
           lead == <<"version">> \o removePackage(e)
<1>1. e.handler \notin ToCore => IsPlan(Copied_(<<"version", "prepare", "write", "copy">>), e)
  BY BodyOfCopy, PlanOfBody
<1>2. e.handler \notin ToCore => IsPlan(Copied_(<<"version", "render", "prepare", "write", "copy">>), e)
  BY BodyOfCopy, PlanOfBody
<1>3. e.handler \notin ToCore => IsPlan(Copied_(lead \o <<"prepare", "write", "copy">>), e)
  BY LeadOfRemoval, BodyOfLead, PlanOfBody
<1>4. e.handler \notin ToCore => IsPlan(Copied_(lead \o <<"probe", "prepare", "write", "copy">>), e)
  BY LeadOfRemoval, BodyOfLead, PlanOfBody
<1>5. CASE e.handler \in {"FileCopyUsingRobocopy", "FileCopyUsingFileflow", "FileCopyUsingStreams", "JsonDataCopy"}
  BY <1>1, <1>5 DEF Plan, FileCopyUsingRobocopy, FileCopyUsingFileflow, JsonDataCopy,
                    doFileCopyExpectation, ToCore
<1>6. CASE e.handler \in {"MediaFilePreview", "MediaFileThumbnail"}
  BY <1>4, <1>6 DEF Plan, MediaFilePreview, MediaFileThumbnail, ToCore
<1>7. CASE e.handler \in {"QuantelClipPreview", "QuantelClipThumbnail", "FileCopyProxy"}
  BY <1>3, <1>7 DEF Plan, QuantelClipPreview, QuantelClipThumbnail, FileCopyProxy, ToCore
<1>8. CASE e.handler = "QuantelClipCopy"
  BY <1>8, PlanOfClip DEF Plan, ToCore
<1>9. CASE e.handler = "RenderHTML"
  BY <1>2, <1>9 DEF Plan, RenderHTML, ToCore
<1>10. CASE e.handler = "JsonDataCopyToCore"
  BY <1>10, PlanToCore DEF Plan, JsonDataCopyToCore, ToCore
<1>11. CASE e.handler = "PackageScan"
  BY <1>11, PlanToCore DEF Plan, PackageScan, ToCore
<1>12. CASE e.handler = "PackageDeepScan"
  BY <1>12, PlanToCore DEF Plan, PackageDeepScan, ToCore
<1>13. CASE e.handler = "PackageLoudnessScan"
  BY <1>13, PlanToCore DEF Plan, PackageLoudnessScan, ToCore
<1>14. CASE e.handler = "PackageIframesScan"
  BY <1>14, PlanToCore DEF Plan, PackageIframesScan, ToCore
<1> QED BY <1>5, <1>6, <1>7, <1>8, <1>9, <1>10, <1>11, <1>12, <1>13, <1>14 DEF Handlers

-----------------------------------------------------------------------------
(* What is left to do *)

LEMMA RestFacts ==
  ASSUME exp \in Expectations, NEW t \in Seq(Steps), RestOfPlan(t), t # <<>>
  PROVE  /\ Tail(t) \in Seq(Steps) /\ RestOfPlan(Tail(t)) /\ Len(Tail(t)) = Len(t) - 1
         /\ Len(Plan(exp)) - Len(t) + 1 \in 1 .. Len(Plan(exp))
         /\ Head(t) = Plan(exp)[Len(Plan(exp)) - Len(t) + 1]
         /\ Tail(t) # <<>> =>
              /\ Len(Plan(exp)) - Len(t) + 2 \in 1 .. Len(Plan(exp))
              /\ Head(Tail(t)) = Plan(exp)[Len(Plan(exp)) - Len(t) + 2]
<1> DEFINE s == Plan(exp)
           u == Tail(t)
<1>1. s \in Seq(Steps) /\ Len(s) \in Nat
  BY PlanFacts DEF IsPlan
<1>2. Len(t) \in Nat /\ Len(t) > 0 /\ Head(t) = t[1]
  OBVIOUS
<1>3. u \in Seq(Steps) /\ Len(u) = Len(t) - 1 /\ \A k \in 1 .. Len(u) : u[k] = t[k + 1]
  BY <1>2
<1>4. Len(s) - Len(t) >= 0 /\ \A k \in 1 .. Len(t) : t[k] = s[(Len(s) - Len(t)) + k]
  BY DEF RestOfPlan
<1> HIDE DEF s, u
<1>5. /\ Head(t) = s[Len(s) - Len(t) + 1]
      /\ Len(s) - Len(t) + 1 \in 1 .. Len(s)
  BY <1>1, <1>2, <1>4
<1>6. \A k \in 1 .. Len(u) : u[k] = s[(Len(s) - Len(u)) + k]
  <2> TAKE k \in 1 .. Len(u)
  <2>1. k + 1 \in 1 .. Len(t) /\ (Len(s) - Len(t)) + (k + 1) = (Len(s) - Len(u)) + k
    BY <1>1, <1>2, <1>3
  <2> QED BY <1>3, <1>4, <2>1
<1>7. ASSUME u # <<>>
      PROVE  Len(s) - Len(t) + 2 \in 1 .. Len(s) /\ Head(u) = s[Len(s) - Len(t) + 2]
  <2>1. 1 \in 1 .. Len(u) /\ Head(u) = u[1]
    BY <1>3, <1>7
  <2>2. Len(t) > 1 /\ (Len(s) - Len(u)) + 1 = Len(s) - Len(t) + 2
    BY <1>1, <1>2, <1>3, <2>1
  <2>3. Len(s) - Len(t) + 2 \in 1 .. Len(s)
    BY <1>1, <1>2, <1>4, <2>2
  <2> QED BY <1>6, <2>1, <2>2, <2>3
<1>8. Len(s) - Len(u) >= 0
  BY <1>1, <1>2, <1>3, <1>4
<1> QED BY <1>3, <1>5, <1>6, <1>7, <1>8 DEF RestOfPlan, s, u

LEMMA RestOfNothing ==
  ASSUME exp \in Expectations
  PROVE  /\ <<>> \in Seq(Steps) /\ RestOfPlan(<<>>)
         /\ Plan(exp) \in Seq(Steps) /\ Plan(exp) # <<>> /\ RestOfPlan(Plan(exp))
         /\ Head(Plan(exp)) = "version"
<1> DEFINE s == Plan(exp)
<1>1. s \in Seq(Steps) /\ Len(s) \in Nat /\ Len(s) > 1 /\ s[1] = "version"
  BY PlanFacts DEF IsPlan
<1> HIDE DEF s
<1>2. s # <<>> /\ Head(s) = s[1]
  BY <1>1
<1>3. RestOfPlan(<<>>)
  BY <1>1 DEF RestOfPlan, s
<1>4. RestOfPlan(s)
  BY <1>1 DEF RestOfPlan, s
<1> QED BY <1>1, <1>2, <1>3, <1>4 DEF s

LEMMA RemovalRests ==
  /\ \A e \in Expectations :
       /\ removePackage(e) \in RestsOfRemoval
       /\ removePackage(e) # <<>> => Head(removePackage(e)) # "unlink"
  /\ \A rest \in RestsOfRemoval :
       /\ rest \in Seq(Steps)
       /\ rest # <<>> =>
            /\ Head(rest) \in {"schedule", "removeMetadata", "unlink"}
            /\ Tail(rest) \in RestsOfRemoval
            /\ Tail(rest) # <<>> => Head(rest) = "removeMetadata"
<1>1. ASSUME NEW e \in Expectations
      PROVE  /\ removePackage(e) \in RestsOfRemoval
             /\ removePackage(e) # <<>> => Head(removePackage(e)) # "unlink"
  <2>1. removePackage(e) \in {<<>>, <<"schedule">>, <<"removeMetadata", "unlink">>}
    BY RemovalFacts
  <2>2. removePackage(e) \in RestsOfRemoval
    BY <2>1 DEF RestsOfRemoval
  <2>3. CASE removePackage(e) = <<>>
    BY <2>2, <2>3
  <2>4. CASE removePackage(e) = <<"schedule">>
    BY <2>2, <2>4
  <2>5. CASE removePackage(e) = <<"removeMetadata", "unlink">>
    BY <2>2, <2>5
  <2> QED BY <2>1, <2>3, <2>4, <2>5
<1>2. ASSUME NEW rest \in RestsOfRemoval
      PROVE  /\ rest \in Seq(Steps)
             /\ rest # <<>> =>
                  /\ Head(rest) \in {"schedule", "removeMetadata", "unlink"}
                  /\ Tail(rest) \in RestsOfRemoval
                  /\ Tail(rest) # <<>> => Head(rest) = "removeMetadata"
  <2>1. CASE rest = <<>>
    BY <2>1
  <2>2. CASE rest = <<"schedule">>
    <3>1. rest \in Seq(Steps) /\ Head(rest) = "schedule" /\ Tail(rest) = <<>>
      BY <2>2 DEF Steps
    <3> QED BY <3>1 DEF RestsOfRemoval
  <2>3. CASE rest = <<"unlink">>
    <3>1. rest \in Seq(Steps) /\ Head(rest) = "unlink" /\ Tail(rest) = <<>>
      BY <2>3 DEF Steps
    <3> QED BY <3>1 DEF RestsOfRemoval
  <2>4. CASE rest = <<"removeMetadata", "unlink">>
    <3>1. rest \in Seq(Steps) /\ Head(rest) = "removeMetadata" /\ Tail(rest) = <<"unlink">>
      BY <2>4 DEF Steps
    <3> QED BY <3>1 DEF RestsOfRemoval
  <2> QED BY <2>1, <2>2, <2>3, <2>4 DEF RestsOfRemoval
<1> QED BY <1>1, <1>2

-----------------------------------------------------------------------------
(* A work that goes on, or ends *)

Structure == TypeOK /\ WorksAreKnown /\ WorksGoOn /\ NothingIsAhead

\* A record that may be put in a work's place.
Puttable(r) ==
  /\ r \in WorkInProgress
  /\ RestOfPlan(r.todo)
  /\ r.undo \in RestsOfRemoval /\ (r.undo # <<>> => r.cancel = "undoes")
  /\ r.ver <= source /\ r.read <= source

\* What is known of the works after a step.
WorksAreWell ==
  /\ active # None => active \in Works /\ work[active] # NoWork
  /\ WorksAreKnown
  /\ \A w \in Works : Puttable(work[w])

LEMMA NoWorkFacts ==
  ASSUME Structure
  PROVE  Puttable(NoWork) /\ Ended(NoWork)
<1>1. NoWork \in WorkInProgress
  BY WorksAssumption DEF NoWork, WorkInProgress, None
<1>2. source \in Nat /\ exp \in Expectations
  BY WorksAssumption DEF Structure, TypeOK
<1> QED BY <1>1, <1>2, RestOfNothing DEF Puttable, NoWork, RestsOfRemoval, Ended, None

LEMMA WellWorks ==
  ASSUME Structure
  PROVE  WorksAreWell
BY DEF Structure, TypeOK, WorksAreWell, WorksAreKnown, WorksGoOn, NothingIsAhead, Puttable

LEMMA PutWork ==
  ASSUME Structure, NEW w \in Works, NEW r, Puttable(r), Put(w, r),
         exp' = exp, source' = source, mishaps \subseteq mishaps',
         active' \in {w, None, active}, active' # active => active \in {w, None},
         active' = w => ~Ended(r) /\ r.cancel # "over",
         ~Ended(r) => active' = w \/ (r.cancel = "over" /\ WentOn')
  PROVE  WorksAreWell'
<1> DEFINE q == IF Ended(r) THEN NoWork ELSE r
<1>1. Puttable(q) /\ (~Ended(r) => q = r) /\ (Ended(r) => q = NoWork)
  BY NoWorkFacts
<1>2. q # NoWork => ~Ended(r)
  BY <1>1
<1>3. work \in [Works -> WorkInProgress] /\ WorksAreWell
  BY WellWorks DEF Structure, WorksAreKnown
<1>4. work' = [work EXCEPT ![w] = q] /\ q \in WorkInProgress
  BY <1>1 DEF Put, Puttable
<1> HIDE DEF q
<1>5. /\ work' \in [Works -> WorkInProgress] /\ work'[w] = q
      /\ \A o \in Works : o # w => work'[o] = work[o]
  BY <1>3, <1>4
<1>6. \A o \in Works : Puttable(work[o])' <=> Puttable(work'[o])
  BY DEF Puttable, RestOfPlan
<1>7. \A o \in Works : Puttable(work'[o])
  BY <1>1, <1>3, <1>5 DEF WorksAreWell
<1>8. w # None /\ \A o \in Works : o # None
  BY WorksAssumption DEF None
<1>9. ASSUME active' # None
      PROVE  active' \in Works /\ work'[active'] # NoWork /\ work'[active'].cancel # "over"
  <2>1. CASE active' = w
    <3>1. ~Ended(r) /\ r.cancel # "over" /\ q = r
      BY <1>1, <2>1
    <3>2. r # NoWork
      BY <3>1, NoWorkFacts
    <3> QED BY <1>5, <2>1, <3>1, <3>2
  <2>2. CASE active' # w
    <3>1. active' = active
      BY <1>9, <2>2
    <3> QED BY <1>3, <1>5, <1>9, <2>2, <3>1 DEF WorksAreWell, WorksAreKnown
  <2> QED BY <2>1, <2>2
<1>10. ASSUME NEW o \in Works, work'[o] # NoWork
       PROVE  /\ active' = o \/ (work'[o].cancel = "over" /\ WentOn')
              /\ work'[o].cancel \in {"no", "over"} => work'[o].todo # <<>>
  <2>1. CASE o = w
    <3>1. ~Ended(r) /\ work'[o] = r
      BY <1>1, <1>2, <1>5, <1>10, <2>1
    <3> QED BY <2>1, <3>1 DEF Ended
  <2>2. CASE o # w
    <3>1. /\ work'[o] = work[o] /\ work[o] # NoWork
          /\ active = o \/ (work[o].cancel = "over" /\ WentOn)
          /\ work[o].cancel \in {"no", "over"} => work[o].todo # <<>>
      BY <1>3, <1>5, <1>10, <2>2 DEF WorksAreWell, WorksAreKnown, Runs, WentOn
    <3>2. active = o => active' = o
      BY <1>8, <2>2
    <3>3. WentOn => WentOn'
      BY DEF WentOn
    <3> QED BY <3>1, <3>2, <3>3
  <2> QED BY <2>1, <2>2
<1>11. WorksAreKnown'
  BY <1>5, <1>9, <1>10 DEF WorksAreKnown, Runs, WentOn
<1> QED BY <1>6, <1>7, <1>9, <1>11 DEF WorksAreWell

-----------------------------------------------------------------------------
(* What a step does to the target *)

LEMMA Versions ==
  /\ None = 0 /\ None \in Nat /\ Torn \in Nat /\ Mixed \in Nat /\ MaxVersion \in Nat
  /\ Torn = MaxVersion + 1 /\ Mixed = MaxVersion + 2 /\ MaxVersion >= 1
BY WorksAssumption DEF None, Torn, Mixed

LEMMA PackageFields ==
  ASSUME NEW t \in Package
  PROVE  /\ t.file \in None .. Mixed /\ t.temp \in None .. Mixed /\ t.meta \in None .. MaxVersion
         /\ t.due \in {"no", "later", "now"} /\ t.left \in BOOLEAN
BY DEF Package

LEMMA LoseFacts ==
  ASSUME target \in Package
  PROVE  /\ lose(target) \in Package
         /\ lose(target).file = None /\ lose(target).temp = target.temp
         /\ lose(target).meta = target.meta /\ lose(target).left = (target.meta # None)
<1>1. /\ None \in None .. Mixed /\ (target.meta # None) \in BOOLEAN
  BY Versions
<1>2. lose(target) \in Package
  BY <1>1 DEF lose, Package
<1> QED BY <1>2 DEF lose, Package

LEMMA CopiedFacts ==
  ASSUME source \in 1 .. MaxVersion, NEW w \in Works, NEW old \in None .. Mixed,
         NEW v \in None .. MaxVersion
  PROVE  /\ Copied(w, old, v) \in None .. Mixed
         /\ old = None => Copied(w, old, v) = None
         /\ (old # None /\ \A o \in Works \ {w} : ~Copies(o)) =>
              /\ Copied(w, old, v) \notin {None, Torn}
              /\ v = source => Copied(w, old, v) = source
BY Versions DEF Copied

\* What becomes of the package.  Those that only prepare or read leave it as it is, but for when
\* it is due.
Effect(w, step, t) ==
  /\ t \in Package
  /\ step \in {"version", "probe", "render", "prepare", "schedule"} =>
       /\ t.file = target.file /\ t.temp = target.temp
       /\ t.meta = target.meta /\ t.left = target.left
  /\ step \in {"write", "copy"} =>
       /\ t.meta = target.meta /\ t.left = target.left
       /\ WritesTo(exp) = "file" => t.temp = target.temp
       /\ WritesTo(exp) = "temp" => t.file = target.file
  /\ step = "write" =>
       /\ WritesTo(exp) = "file" => t.file = Torn
       /\ WritesTo(exp) = "temp" => t.temp = Torn
  /\ step = "copy" =>
       /\ WritesTo(exp) = "file" => t.file = Copied(w, target.file, work[w].read)
       /\ WritesTo(exp) = "temp" => t.temp = Copied(w, target.temp, work[w].read)
  /\ step = "unlink" =>
       /\ t.file \in {None, target.file} /\ t.temp = target.temp
       /\ t.meta = target.meta /\ t.left = target.left
  /\ step = "rename" =>
       t.file = target.temp /\ t.temp = None /\ t.meta = target.meta /\ t.left = target.left
  /\ step = "removeMetadata" =>
       /\ t.file = target.file /\ t.temp = target.temp
       /\ \/ t.meta = None
          \/ t.meta = target.meta /\ t.left = (target.left \/ target.meta # None)
  /\ step = "updateMetadata" /\ exp.store = "core" =>
       /\ t.file = work[w].read /\ t.temp = target.temp
       /\ t.meta = work[w].ver /\ t.left = target.left
  /\ step = "updateMetadata" /\ exp.store # "core" =>
       /\ t.file = target.file /\ t.temp = target.temp
       /\ t.meta = work[w].ver /\ t.left = (target.file = None)

LEMMA AfterFacts ==
  ASSUME target \in Package, exp \in Expectations, source \in 1 .. MaxVersion,
         NEW w \in Works, work[w] \in WorkInProgress, NEW step \in Steps
  PROVE  Effect(w, step, After(w, step, target))
<1> SUFFICES ASSUME NEW t, t = After(w, step, target)
             PROVE  Effect(w, step, t)
  OBVIOUS
<1>1. /\ work[w].ver \in None .. MaxVersion /\ work[w].read \in None .. MaxVersion
      /\ work[w].read \in None .. Mixed /\ work[w].ver \in None .. Mixed
  BY Versions DEF WorkInProgress
<1>2. /\ Torn \in None .. Mixed /\ None \in None .. Mixed /\ None \in None .. MaxVersion
  BY Versions
<1>3. WritesTo(exp) \in {"file", "temp"}
  BY WritesToFacts
<1>4. target.file \in None .. Mixed /\ target.temp \in None .. Mixed
  BY PackageFields
<1>5. CASE step \in {"version", "probe", "render"}
  <2>1. t = target
    BY <1>5 DEF After
  <2> QED BY <1>5, <2>1 DEF Effect
<1>6. CASE step = "prepare"
  <2>1. t = [target EXCEPT !.due = "no"]
    BY <1>6 DEF After
  <2>2. t \in Package
    BY <2>1, <1>2, <1>4 DEF Package
  <2> QED BY <1>6, <2>1, <2>2 DEF Package, Effect
<1>7. CASE step = "schedule"
  <2>1. t = [target EXCEPT !.due = "later"]
    BY <1>7 DEF After
  <2>2. t \in Package
    BY <2>1, <1>2, <1>4 DEF Package
  <2> QED BY <1>7, <2>1, <2>2 DEF Package, Effect
<1>8. CASE step = "write"
  <2>1. CASE WritesTo(exp) = "file"
    <3>1. t = [target EXCEPT !.file = Torn, !.due = "no"]
      BY <1>8, <2>1 DEF After
    <3>2. t \in Package
      BY <3>1, <1>2, <1>4 DEF Package
    <3> QED BY <1>8, <2>1, <3>1, <3>2 DEF Package, Effect
  <2>2. CASE WritesTo(exp) = "temp"
    <3>1. t = [target EXCEPT !.temp = Torn, !.due = "no"]
      BY <1>8, <2>2 DEF After
    <3>2. t \in Package
      BY <3>1, <1>2, <1>4 DEF Package
    <3> QED BY <1>8, <2>2, <3>1, <3>2 DEF Package, Effect
  <2> QED BY <1>3, <2>1, <2>2
<1>9. CASE step = "copy"
  <2>1. CASE WritesTo(exp) = "file"
    <3>1. t = [target EXCEPT !.file = Copied(w, target.file, work[w].read)]
      BY <1>9, <2>1 DEF After
    <3>2. Copied(w, target.file, work[w].read) \in None .. Mixed
      BY <1>1, <1>4, CopiedFacts
    <3>3. t \in Package
      BY <3>1, <3>2, <1>2, <1>4 DEF Package
    <3> QED BY <1>9, <2>1, <3>1, <3>3 DEF Package, Effect
  <2>2. CASE WritesTo(exp) = "temp"
    <3>1. t = [target EXCEPT !.temp = Copied(w, target.temp, work[w].read)]
      BY <1>9, <2>2 DEF After
    <3>2. Copied(w, target.temp, work[w].read) \in None .. Mixed
      BY <1>1, <1>4, CopiedFacts
    <3>3. t \in Package
      BY <3>1, <3>2, <1>2, <1>4 DEF Package
    <3> QED BY <1>9, <2>2, <3>1, <3>3 DEF Package, Effect
  <2> QED BY <1>3, <2>1, <2>2
<1>10. CASE step = "unlink"
  <2>1. t = [target EXCEPT !.file = None]
    BY <1>10 DEF After
  <2>2. t \in Package
    BY <2>1, <1>2, <1>4 DEF Package
  <2> QED BY <1>10, <2>1, <2>2 DEF Package, Effect
<1>11. CASE step = "rename"
  <2>1. t = [target EXCEPT !.file = target.temp, !.temp = None]
    BY <1>11 DEF After
  <2>2. t \in Package
    BY <2>1, <1>2, <1>4 DEF Package
  <2> QED BY <1>11, <2>1, <2>2 DEF Package, Effect
<1>12. CASE step = "removeMetadata"
  <2>1. t = [target EXCEPT !.meta = None, !.left = FALSE]
    BY <1>12 DEF After
  <2>2. t \in Package
    BY <2>1, <1>2, <1>4 DEF Package
  <2> QED BY <1>12, <2>1, <2>2 DEF Package, Effect
<1>13. CASE step = "updateMetadata" /\ exp.store = "core"
  <2>1. t = [target EXCEPT !.file = work[w].read, !.meta = work[w].ver]
    BY <1>13 DEF After
  <2>2. t \in Package
    BY <2>1, <1>1, <1>2, <1>4 DEF Package
  <2> QED BY <1>13, <2>1, <2>2 DEF Package, Effect
<1>14. CASE step = "updateMetadata" /\ exp.store # "core"
  <2>1. t = [target EXCEPT !.meta = work[w].ver, !.left = (target.file = None)]
    BY <1>14 DEF After
  <2>2. (target.file = None) \in BOOLEAN
    OBVIOUS
  <2>3. t \in Package
    BY <2>1, <2>2, <1>1, <1>2, <1>4 DEF Package
  <2> QED BY <1>14, <2>1, <2>3 DEF Package, Effect
<1> QED BY <1>5, <1>6, <1>7, <1>8, <1>9, <1>10, <1>11, <1>12, <1>13, <1>14 DEF Steps, Effect

\* What could not be accessed, and is taken for removed.
LEMMA PassedOver ==
  ASSUME target \in Package, NEW t, t = [target EXCEPT !.left = @ \/ target.meta # None]
  PROVE  /\ t \in Package /\ t.file = target.file /\ t.temp = target.temp /\ t.meta = target.meta
         /\ t.left = (target.left \/ target.meta # None)
<1>1. (target.left \/ target.meta # None) \in BOOLEAN
  OBVIOUS
<1> QED BY <1>1 DEF Package

LEMMA DoesFacts ==
  ASSUME NEW w, NEW step
  PROVE  \/ Does(w, step, target) = After(w, step, target)
         \/ step = "unlink" /\ Does(w, step, target) = target
         \/ /\ step = "removeMetadata"
            /\ Does(w, step, target) = [target EXCEPT !.left = @ \/ target.meta # None]
<1>1. CASE ~Skips(step)
  BY <1>1 DEF Does
<1>2. CASE Skips(step)
  <2>1. step \in {"unlink", "removeMetadata"}
    BY <1>2 DEF Skips
  <2> QED BY <1>2, <2>1 DEF Does
<1> QED BY <1>1, <1>2

LEMMA EffectFacts ==
  ASSUME target \in Package, exp \in Expectations, source \in 1 .. MaxVersion,
         NEW w \in Works, work[w] \in WorkInProgress, NEW step \in Steps,
         NEW t, t = Does(w, step, target)
  PROVE  Effect(w, step, t)
<1>1. CASE t = After(w, step, target)
  BY <1>1, AfterFacts
<1>2. CASE step = "unlink" /\ t = target
  BY <1>2 DEF Effect
<1>3. CASE step = "removeMetadata" /\ t = [target EXCEPT !.left = @ \/ target.meta # None]
  BY <1>3, PassedOver DEF Effect
<1> QED BY <1>1, <1>2, <1>3, DoesFacts

LEMMA EffectBounds ==
  ASSUME target \in Package, exp \in Expectations, source \in 1 .. MaxVersion,
         NEW w \in Works, work[w] \in WorkInProgress, NEW step \in Steps,
         NEW t, t = Does(w, step, target)
  PROVE  /\ t \in Package
         /\ t.meta \in {target.meta, None, work[w].ver}
         /\ t.temp \in {target.temp, None} \/ WritesTo(exp) # "file"
<1>1. Effect(w, step, t)
  BY EffectFacts
<1>2. CASE step \in {"version", "probe", "render", "prepare", "schedule"}
  BY <1>1, <1>2 DEF Effect
<1>3. CASE step \in {"write", "copy"}
  BY <1>1, <1>3 DEF Effect
<1>4. CASE step \in {"unlink", "rename", "removeMetadata"}
  BY <1>1, <1>4 DEF Effect
<1>5. CASE step = "updateMetadata"
  BY <1>1, <1>5 DEF Effect
<1> QED BY <1>2, <1>3, <1>4, <1>5 DEF Steps

-----------------------------------------------------------------------------
(* Steps that only take away *)

\* As long as no work has overrun.
Sound ==
  /\ LostIsKnown /\ WorksOnTheUnfulfilled /\ CopiesAreOfTheirVersion /\ NothingTornInPlace
  /\ FulfilledIsComplete

\* Nothing is written; the file goes after its metadata, or leaves it behind and it is known.
Loses ==
  /\ target' \in Package /\ target'.temp = target.temp
  /\ target'.meta \in {target.meta, None} /\ target'.file \in {target.file, None}
  /\ \/ target'.file = target.file /\ target'.left = target.left
     \/ target'.left
     \/ target'.meta = None

\* Works only end.
WorksStayOrEnd ==
  \A w \in Works :
    work'[w].todo = <<>> \/
    (/\ work'[w].todo = work[w].todo
     /\ work'[w].ver = work[w].ver /\ work'[w].read = work[w].read)

LEMMA FulfilledFacts ==
  ASSUME exp \in Expectations
  PROVE  /\ Handler(exp).fulfilled = "metadata" =>
              (Fulfilled <=> target.file # None /\ target.meta = source)
         /\ Handler(exp).fulfilled = "info" => (Fulfilled <=> target.meta = source)
         /\ Handler(exp).fulfilled = "version" => (Fulfilled <=> target.file = source)
BY DEF Fulfilled, isFileFulfilled, findUnUpdatedPackageInfo

LEMMA LosesKeeps ==
  ASSUME Structure, ~WentOn, Sound, Loses, WorksStayOrEnd, exp' = exp, source' = source
  PROVE  Sound'
<1>1. /\ exp \in Expectations /\ source \in 1 .. MaxVersion /\ target \in Package
      /\ work \in [Works -> WorkInProgress]
  BY DEF Structure, TypeOK, WorksAreKnown
<1>2. source # None /\ source # Torn /\ Torn # None
  BY <1>1, Versions
<1>3. target'.meta = source => target'.meta = target.meta
  BY <1>2 DEF Loses
<1>4. target'.meta = source => target'.left \/ (target'.file = target.file /\ target'.left = target.left)
  BY <1>2 DEF Loses
<1>5. \A w \in Works : Runs(w)' =>
        /\ Runs(w) /\ work'[w].todo = work[w].todo
        /\ work'[w].ver = work[w].ver /\ work'[w].read = work[w].read
  BY DEF WorksStayOrEnd, Runs
<1>6. LostIsKnown'
  BY <1>3, <1>4 DEF Sound, LostIsKnown
<1>7. WorksOnTheUnfulfilled'
  BY <1>3, <1>4, <1>5 DEF Sound, WorksOnTheUnfulfilled
<1>8. CopiesAreOfTheirVersion'
  <2> SUFFICES ASSUME NEW w \in Works, Runs(w)', ~Doing(w, "version")'
               PROVE  CopyIsOfItsVersion(w)'
    BY DEF CopiesAreOfTheirVersion, CopyIsOfItsVersion
  <2>1. /\ Runs(w) /\ work'[w].todo = work[w].todo
        /\ work'[w].ver = work[w].ver /\ work'[w].read = work[w].read
    BY <1>5
  <2>2. \A step : Doing(w, step)' <=> Doing(w, step)
    BY <2>1 DEF Doing, Runs
  <2>3. Before(work[w])' = Before(work[w]) /\ (Copies(w)' <=> Copies(w))
    BY <2>1, <2>2 DEF Before, Copies
  <2>4. CopyIsOfItsVersion(w)
    BY DEF Sound, CopiesAreOfTheirVersion
  <2>5. work[w].ver \in Nat /\ target'.meta <= work[w].ver
    <3>1. work[w].ver \in None .. MaxVersion
      BY <1>1 DEF WorkInProgress
    <3>2. target.meta <= work[w].ver
      BY <2>1, <2>2, <2>4 DEF CopyIsOfItsVersion
    <3> QED BY <3>1, <3>2, Versions DEF Loses
  <2>6. target'.file \in {target.file, None} /\ target'.temp = target.temp
    BY DEF Loses
  <2> QED BY <2>1, <2>2, <2>3, <2>4, <2>5, <2>6 DEF CopyIsOfItsVersion
<1>9. NothingTornInPlace'
  BY <1>2 DEF Sound, NothingTornInPlace, Loses
<1>10. FulfilledIsComplete'
  <2> SUFFICES ASSUME Fulfilled', target'.left => WritesTo(exp) = "temp"
               PROVE  target'.file = source
    BY DEF FulfilledIsComplete
  <2>1. Handler(exp).fulfilled \in {"metadata", "info", "version"}
    BY <1>1, HandlerFacts
  <2>2. CASE Handler(exp).fulfilled = "metadata"
    <3>1. target'.file # None /\ target'.meta = source
      BY <2>2 DEF Fulfilled, isFileFulfilled
    <3>2. target.file = target'.file /\ target.meta = source
      BY <1>3, <3>1 DEF Loses
    <3>3. Fulfilled
      BY <1>1, <2>2, <3>1, <3>2, FulfilledFacts
    <3>4. target.left => WritesTo(exp) = "temp"
      BY <1>4, <3>1
    <3> QED BY <3>2, <3>3, <3>4 DEF Sound, FulfilledIsComplete, WentOn
  <2>3. CASE Handler(exp).fulfilled = "info"
    <3>1. target'.meta = source /\ target.meta = source
      BY <1>3, <2>3 DEF Fulfilled, findUnUpdatedPackageInfo
    <3>2. WritesTo(exp) # "temp"
      BY <1>1, <2>3, WritesToFacts
    <3>3. target'.file = target.file /\ ~target.left
      BY <1>4, <3>1, <3>2
    <3>4. Fulfilled
      BY <1>1, <2>3, <3>1, FulfilledFacts
    <3> QED BY <3>3, <3>4 DEF Sound, FulfilledIsComplete, WentOn
  <2>4. CASE Handler(exp).fulfilled = "version"
    BY <2>4 DEF Fulfilled
  <2> QED BY <2>1, <2>2, <2>3, <2>4
<1> QED BY <1>6, <1>7, <1>8, <1>9, <1>10 DEF Sound

\* The removals under way.
Removals == {removing} \union {work[w].undo : w \in Works}

LEMMA MetadataStaysFirst ==
  ASSUME MetadataGoesFirst, target'.meta \in {target.meta, None},
         target.left => target'.left \/ target'.meta = None,
         \A rest \in Removals' :
           rest # <<>> /\ Head(rest) = "unlink" =>
             rest \in Removals \/ target'.meta = None \/ target'.left
  PROVE  MetadataGoesFirst'
BY DEF MetadataGoesFirst, Removals

-----------------------------------------------------------------------------
(* The invariant, in the form its proof uses *)

Good == Structure /\ (~WentOn => MetadataGoesFirst /\ Sound)

\* The variables other than the package, its source and the works.
RestIsWell ==
  /\ cron \in {"idle", "listed", "half", "removed"}
  /\ reachable \in BOOLEAN /\ wanted \in BOOLEAN
  /\ mishaps \subseteq {"overran", "finalized", "forgotten", "unremoved"}
  /\ status \in {"new", "fulfilled", "removing", "removed"}
  /\ upsets \in 0 .. MaxUpsets
  /\ removing \in RestsOfRemoval
  /\ removing # <<>> => status = "removing"
  /\ status = "removing" => active = None /\ ~wanted

LEMMA GoodFacts ==
  ASSUME Good
  PROVE  /\ Structure /\ RestIsWell /\ WorksAreWell
         /\ exp \in Expectations /\ source \in 1 .. MaxVersion /\ target \in Package
         /\ work \in [Works -> WorkInProgress] /\ \A w \in Works : work[w] \in WorkInProgress
         /\ target.meta <= source /\ (WritesTo(exp) = "file" => target.temp = None)
         /\ None \notin Works
<1>1. Structure /\ WorksAreWell
  BY WellWorks DEF Good
<1>2. RestIsWell
  BY <1>1 DEF RestIsWell, Structure, TypeOK, WorksGoOn
<1> QED BY <1>1, <1>2, WorksAssumption DEF Structure, TypeOK, WorksAreKnown, NothingIsAhead, None

LEMMA StructureAgain ==
  ASSUME exp' \in Expectations, source' \in 1 .. MaxVersion, target' \in Package,
         target'.meta <= source', WritesTo(exp') = "file" => target'.temp = None,
         RestIsWell', WorksAreWell'
  PROVE  Structure'
<1>1. WorksAreKnown'
  BY DEF WorksAreWell
<1>2. \A w \in Works : Puttable(work[w])'
  BY DEF WorksAreWell
<1>3. \A w \in Works : /\ work'[w] \in WorkInProgress /\ work'[w].ver <= source' /\ work'[w].read <= source'
                       /\ work'[w].ver \in None .. MaxVersion /\ work'[w].read \in None .. MaxVersion
                       /\ RestOfPlan(work[w].todo)' /\ work'[w].undo \in RestsOfRemoval
                       /\ work'[w].undo # <<>> => work'[w].cancel = "undoes"
  BY <1>2 DEF Puttable, WorkInProgress
<1>4. TypeOK'
  BY <1>3 DEF TypeOK, RestIsWell, WorksAreWell
<1>5. WorksGoOn'
  BY <1>3 DEF WorksGoOn, RestIsWell
<1>6. NothingIsAhead'
  BY <1>3 DEF NothingIsAhead
<1> QED BY <1>1, <1>4, <1>5, <1>6 DEF Structure

LEMMA RemovesKeepsGood ==
  ASSUME Good, exp' = exp, source' = source, mishaps \subseteq mishaps',
         target' \in Package, target'.temp = target.temp, target'.meta \in {target.meta, None},
         ~WentOn' => Loses, WorksStayOrEnd \/ WentOn', RestIsWell', WorksAreWell',
         \A rest \in Removals' :
           rest # <<>> /\ Head(rest) = "unlink" =>
             rest \in Removals \/ target'.meta = None \/ target'.left
  PROVE  Good'
<1>1. Structure'
  <2>1. target'.meta <= source'
    BY GoodFacts, Versions
  <2> QED BY <2>1, GoodFacts, StructureAgain
<1>2. ASSUME ~WentOn'
      PROVE  MetadataGoesFirst' /\ Sound'
  <2>1. ~WentOn
    BY <1>2 DEF WentOn
  <2>2. MetadataGoesFirst /\ Sound /\ Structure
    BY <2>1 DEF Good
  <2>3. Sound'
    BY <1>2, <2>1, <2>2, LosesKeeps
  <2>4. target.left => target'.left \/ target'.meta = None
    BY <1>2 DEF Loses
  <2> QED BY <2>2, <2>3, <2>4, MetadataStaysFirst
<1> QED BY <1>1, <1>2 DEF Good

LEMMA LosesKeepsGood ==
  ASSUME Good, exp' = exp, source' = source, mishaps \subseteq mishaps', Loses, WorksStayOrEnd,
         RestIsWell', WorksAreWell',
         \A rest \in Removals' :
           rest # <<>> /\ Head(rest) = "unlink" =>
             rest \in Removals \/ target'.meta = None \/ target'.left
  PROVE  Good'
<1>1. target' \in Package /\ target'.temp = target.temp /\ target'.meta \in {target.meta, None}
  BY DEF Loses
<1> QED BY <1>1, RemovesKeepsGood

\* The works are not touched.
LEMMA SameWorks ==
  ASSUME Good, exp' = exp, source' \in 1 .. MaxVersion, source <= source', mishaps \subseteq mishaps',
         work' = work, active' = active
  PROVE  WorksAreWell'
<1>1. WorksAreWell /\ source \in Nat /\ source' \in Nat
  BY GoodFacts
<1>2. WorksAreKnown'
  <2>1. WentOn => WentOn'
    BY DEF WentOn
  <2> QED BY <1>1, <2>1 DEF WorksAreWell, WorksAreKnown, Runs
<1>3. ASSUME NEW w \in Works
      PROVE  Puttable(work[w])'
  <2>1. Puttable(work[w]) /\ work[w].ver \in Nat /\ work[w].read \in Nat
    BY <1>1, Versions DEF WorksAreWell, Puttable, WorkInProgress
  <2>2. RestOfPlan(work[w].todo)'
    BY <2>1 DEF Puttable, RestOfPlan
  <2> QED BY <1>1, <2>1, <2>2 DEF Puttable
<1> QED BY <1>1, <1>2, <1>3 DEF WorksAreWell

LEMMA NothingLost ==
  ASSUME Good, target' = target
  PROVE  Loses
BY GoodFacts DEF Loses

-----------------------------------------------------------------------------
(* The manager, the cronjob and the world *)

LEMMA GoodAfterManager ==
  ASSUME Good, FoundFulfilled \/ Unwanted \/ removeExpectation \/ WantedAgain
                 \/ Unreachable \/ ReachableAgain \/ ListDue \/ DueNow \/ DueThrows
                 \/ IsRemoved \/ RemoveThrows
  PROVE  Good'
<1>1. /\ exp' = exp /\ source' = source /\ work' = work /\ active' = active /\ mishaps' = mishaps
      /\ target' \in {target, [target EXCEPT !.due = "now"]}
  BY DEF FoundFulfilled, Unwanted, removeExpectation, WantedAgain, Unreachable, ReachableAgain,
         ListDue, DueNow, DueThrows, IsRemoved, RemoveThrows, cronRest, manager
<1>2. Loses
  <2>1. CASE target' = target
    BY <2>1, NothingLost
  <2>2. CASE target' = [target EXCEPT !.due = "now"]
    BY <2>2, GoodFacts DEF Loses, Package
  <2> QED BY <1>1, <2>1, <2>2
<1>3. WorksAreWell'
  BY <1>1, GoodFacts, SameWorks
<1>4. removing' = removing \/ removing' = removePackage(exp) \/ removing' = <<>>
  BY DEF FoundFulfilled, Unwanted, removeExpectation, WantedAgain, Unreachable, ReachableAgain,
         ListDue, DueNow, DueThrows, IsRemoved, RemoveThrows, cronRest, manager
<1>5. upsets' \in 0 .. MaxUpsets
  <2>1. upsets \in 0 .. MaxUpsets /\ MaxUpsets \in Nat
    BY GoodFacts, WorksAssumption DEF RestIsWell
  <2>2. upsets' = upsets \/ (upsets < MaxUpsets /\ upsets' = upsets + 1)
    BY DEF FoundFulfilled, Unwanted, removeExpectation, WantedAgain, Unreachable, ReachableAgain,
           ListDue, DueNow, DueThrows, IsRemoved, RemoveThrows, cronRest, manager
  <2> QED BY <2>1, <2>2
<1>6. removing' \in RestsOfRemoval
  BY <1>4, GoodFacts, RemovalRests DEF RestIsWell, RestsOfRemoval
<1>7. RestIsWell'
  <2>1. RestIsWell
    BY GoodFacts
  <2>2. CASE FoundFulfilled
    BY <2>1, <2>2, <1>5, <1>6 DEF RestIsWell, FoundFulfilled, Idle
  <2>3. CASE Unwanted
    BY <2>1, <2>3, <1>5, <1>6 DEF RestIsWell, Unwanted
  <2>4. CASE removeExpectation
    BY <2>1, <2>4, <1>5, <1>6 DEF RestIsWell, removeExpectation
  <2>5. CASE WantedAgain
    BY <2>1, <2>5, <1>5, <1>6 DEF RestIsWell, WantedAgain
  <2>6. CASE Unreachable \/ ReachableAgain
    <3>1. reachable' \in BOOLEAN /\ UNCHANGED <<cron, manager, mishaps>>
      BY <2>6 DEF Unreachable, ReachableAgain
    <3> QED BY <2>1, <3>1, <1>5, <1>6 DEF RestIsWell, manager
  <2>7. CASE ListDue \/ DueNow \/ DueThrows
    BY <2>1, <2>7, <1>5, <1>6 DEF RestIsWell, ListDue, DueNow, DueThrows, cronRest, manager
  <2>8. CASE IsRemoved
    BY <2>1, <2>8, <1>5, <1>6 DEF RestIsWell, IsRemoved
  <2>9. CASE RemoveThrows
    BY <2>1, <2>9, <1>5, <1>6 DEF RestIsWell, RemoveThrows
  <2> QED BY <2>2, <2>3, <2>4, <2>5, <2>6, <2>7, <2>8, <2>9
<1>8. WorksStayOrEnd
  BY <1>1 DEF WorksStayOrEnd
<1>9. \A rest \in Removals' : rest # <<>> /\ Head(rest) = "unlink" => rest \in Removals
  BY <1>1, <1>4, GoodFacts, RemovalRests DEF Removals
<1> QED BY <1>1, <1>2, <1>3, <1>7, <1>8, <1>9, LosesKeepsGood

LEMMA GoodAfterLoss ==
  ASSUME Good, FoundUnfulfilled \/ UnlinkDue \/ RemoveDueMetadata \/ ForgetDue \/ FileIsLost
  PROVE  Good'
<1> USE DEF FoundUnfulfilled, UnlinkDue, RemoveDueMetadata, ForgetDue, FileIsLost, cronRest, manager
<1>1. /\ exp' = exp /\ source' = source /\ work' = work /\ active' = active
      /\ mishaps \subseteq mishaps' /\ removing' = removing
  OBVIOUS
<1>2. Loses
  <2>0. None \in None .. Mixed /\ None \in None .. MaxVersion
    BY Versions
  <2>1. CASE target' = target
    BY <2>1, NothingLost
  <2>2. CASE target' = [target EXCEPT !.file = None, !.meta = None]
    <3>1. target \in Package
      BY GoodFacts
    <3>2. target' \in Package
      BY <2>0, <2>2, <3>1 DEF Package
    <3> QED BY ONLY <2>2, <3>1, <3>2 DEF Loses, Package
  <2>3. CASE target' = lose(target)
    BY <2>3, GoodFacts, LoseFacts DEF Loses
  <2>4. CASE target' = [target EXCEPT !.meta = None, !.left = FALSE]
    <3>1. target \in Package
      BY GoodFacts
    <3>2. target' \in Package
      BY <2>0, <2>4, <3>1 DEF Package
    <3> QED BY ONLY <2>4, <3>1, <3>2 DEF Loses, Package
  <2>5. CASE target' = [target EXCEPT !.due = "no"]
    BY <2>5, GoodFacts DEF Loses, Package
  <2>6. CASE target' = [target EXCEPT !.left = @ \/ target.meta # None]
    <3>1. /\ target' \in Package /\ target'.file = target.file /\ target'.temp = target.temp
          /\ target'.meta = target.meta /\ target'.left = (target.left \/ target.meta # None)
      BY <2>6, GoodFacts, PassedOver
    <3> QED BY ONLY <3>1 DEF Loses
  <2> QED BY <2>1, <2>2, <2>3, <2>4, <2>5, <2>6
<1>3. WorksAreWell'
  BY <1>1, GoodFacts, SameWorks
<1>4. upsets' \in 0 .. MaxUpsets
  <2>1. upsets \in 0 .. MaxUpsets /\ MaxUpsets \in Nat
    BY GoodFacts, WorksAssumption DEF RestIsWell
  <2>2. upsets' = upsets \/ (upsets < MaxUpsets /\ upsets' = upsets + 1)
    OBVIOUS
  <2> QED BY <2>1, <2>2
<1>5. RestIsWell'
  <2>1. RestIsWell
    BY GoodFacts
  <2>2. CASE FoundUnfulfilled
    BY <2>1, <2>2, <1>4 DEF RestIsWell, Idle
  <2>3. CASE FileIsLost
    BY <2>1, <2>3, <1>4 DEF RestIsWell
  <2>4. CASE UnlinkDue \/ RemoveDueMetadata \/ ForgetDue
    <3>1. cron' \in {"idle", "half", "removed"}
      BY <2>4 DEF CronGoesOn
    <3>2. mishaps' \subseteq mishaps \cup {"forgotten", "unremoved"}
      BY <2>4 DEF Unremoved
    <3> QED BY <2>1, <2>4, <1>4, <3>1, <3>2 DEF RestIsWell
  <2> QED BY <2>2, <2>3, <2>4
<1>6. WorksStayOrEnd
  BY <1>1 DEF WorksStayOrEnd
<1>7. Removals' = Removals
  BY <1>1 DEF Removals
<1> QED BY ONLY Good, <1>1, <1>2, <1>3, <1>5, <1>6, <1>7, LosesKeepsGood

\* A step of a removal: the metadata go before the file.
LEMMA RemovalStep ==
  ASSUME Good, NEW w, NEW rest \in RestsOfRemoval, rest \in Removals, rest # <<>>,
         target' = Does(w, Head(rest), target), mishaps \subseteq mishaps'
  PROVE  /\ target' \in Package /\ target'.temp = target.temp /\ target'.meta \in {target.meta, None}
         /\ ~WentOn' => Loses
         /\ Tail(rest) \in RestsOfRemoval
         /\ Tail(rest) # <<>> => target'.meta = None \/ target'.left
<1>1. /\ target \in Package /\ target.file \in None .. Mixed /\ target.meta \in None .. MaxVersion
      /\ None \in None .. Mixed /\ None \in None .. MaxVersion
  BY GoodFacts, PackageFields, Versions
<1>2. /\ Head(rest) \in {"schedule", "removeMetadata", "unlink"} /\ Tail(rest) \in RestsOfRemoval
      /\ Tail(rest) # <<>> => Head(rest) = "removeMetadata"
  BY RemovalRests
<1>3. CASE Head(rest) = "schedule"
  <2>1. target' = [target EXCEPT !.due = "later"]
    BY <1>3, DoesFacts DEF After
  <2> QED BY <1>1, <1>2, <1>3, <2>1 DEF Loses, Package
<1>4. CASE Head(rest) = "removeMetadata" /\ target' = After(w, Head(rest), target)
  <2>1. target' = [target EXCEPT !.meta = None, !.left = FALSE]
    BY <1>4 DEF After
  <2>2. target' \in Package
    BY <1>1, <2>1 DEF Package
  <2>3. target'.meta = None /\ target'.temp = target.temp /\ target'.file = target.file
    BY <1>1, <2>1 DEF Package
  <2> QED BY <1>1, <1>2, <1>4, <2>2, <2>3 DEF Loses
<1>5. CASE Head(rest) = "unlink" /\ target' = After(w, Head(rest), target)
  <2>1. target' = [target EXCEPT !.file = None]
    BY <1>5 DEF After
  <2>2. target' \in Package
    BY <1>1, <2>1 DEF Package
  <2>3. target'.meta = target.meta /\ target'.temp = target.temp /\ target'.file = None
    BY <1>1, <2>1 DEF Package
  <2>4. ~WentOn' => target.meta = None \/ target.left
    BY <1>5 DEF Good, WentOn, MetadataGoesFirst, Removals
  <2>5. target'.left = target.left
    BY <1>1, <2>1 DEF Package
  <2> QED BY <1>1, <1>2, <1>5, <2>2, <2>3, <2>4, <2>5 DEF Loses
<1>6. CASE Head(rest) = "unlink" /\ target' = target
  BY <1>1, <1>2, <1>6 DEF Loses
<1>7. CASE /\ Head(rest) = "removeMetadata"
           /\ target' = [target EXCEPT !.left = @ \/ target.meta # None]
  <2>1. /\ target' \in Package /\ target'.file = target.file /\ target'.temp = target.temp
        /\ target'.meta = target.meta /\ target'.left = (target.left \/ target.meta # None)
    BY <1>1, <1>7, PassedOver
  <2>2. target'.meta = None \/ target'.left
    BY <2>1
  <2> QED BY <1>2, <2>1, <2>2 DEF Loses
<1> QED BY <1>2, <1>3, <1>4, <1>5, <1>6, <1>7, DoesFacts

LEMMA GoodAfterRemoveStep ==
  ASSUME Good, RemoveStep
  PROVE  Good'
<1> DEFINE anyone == CHOOSE w \in Works : TRUE
<1>1. /\ exp' = exp /\ source' = source /\ work' = work /\ active' = active
      /\ mishaps' = mishaps \cup Unremoved(Head(removing))
      /\ status = "removing" /\ removing # <<>> /\ removing' = Tail(removing)
      /\ target' = Does(anyone, Head(removing), target)
      /\ UNCHANGED <<cron, reachable, wanted, status, upsets>>
  BY DEF RemoveStep
<1> HIDE DEF anyone
<1>2. WorksAreWell' /\ WorksStayOrEnd
  BY <1>1, GoodFacts, SameWorks DEF WorksStayOrEnd
<1>3. RestIsWell
  BY GoodFacts
<1>4. removing \in RestsOfRemoval /\ removing \in Removals
  BY <1>3 DEF RestIsWell, Removals
<1>5. /\ target' \in Package /\ target'.temp = target.temp /\ target'.meta \in {target.meta, None}
      /\ ~WentOn' => Loses
      /\ removing' \in RestsOfRemoval
      /\ removing' # <<>> => target'.meta = None \/ target'.left
  BY <1>1, <1>4, RemovalStep
<1>6. mishaps \subseteq mishaps' /\ mishaps' \subseteq mishaps \cup {"unremoved"}
  BY <1>1 DEF Unremoved
<1>7. RestIsWell'
  BY <1>1, <1>3, <1>5, <1>6 DEF RestIsWell
<1>8. \A rest \in Removals' : rest # <<>> => rest \in Removals \/ target'.meta = None \/ target'.left
  BY <1>1, <1>5 DEF Removals
<1> QED BY <1>1, <1>2, <1>5, <1>6, <1>7, <1>8, RemovesKeepsGood

\* What was of the source's version is not any more.
LEMMA GoodAfterSourceChanges ==
  ASSUME Good, SourceChanges
  PROVE  Good'
<1>1. /\ exp' = exp /\ source' = source + 1 /\ source < MaxVersion
      /\ UNCHANGED <<target, cron, reachable, work, active, wanted, status, removing, upsets, mishaps>>
  BY DEF SourceChanges, manager
<1>2. source' \in 1 .. MaxVersion /\ source <= source' /\ source \in Nat /\ source' # None
  BY <1>1, GoodFacts, Versions
<1>3. target.meta \in Nat /\ target.meta <= source /\ target.meta # source'
  BY <1>1, <1>2, GoodFacts, PackageFields, Versions
<1>4. WorksAreWell'
  BY <1>1, <1>2, SameWorks
<1>5. RestIsWell'
  BY <1>1, GoodFacts DEF RestIsWell
<1>6. Structure'
  BY <1>1, <1>2, <1>3, <1>4, <1>5, GoodFacts, StructureAgain
<1>7. ASSUME ~WentOn'
      PROVE  MetadataGoesFirst' /\ Sound'
  <2>1. ~WentOn /\ MetadataGoesFirst /\ Sound
    BY <1>1, <1>7 DEF WentOn, Good
  <2>2. MetadataGoesFirst'
    BY <1>1, <2>1 DEF MetadataGoesFirst
  <2>3. LostIsKnown' /\ WorksOnTheUnfulfilled'
    BY <1>1, <1>3 DEF LostIsKnown, WorksOnTheUnfulfilled
  <2>4. CopiesAreOfTheirVersion'
    <3> SUFFICES ASSUME NEW w \in Works, Runs(w)', ~Doing(w, "version")'
                 PROVE  CopyIsOfItsVersion(w)'
      BY DEF CopiesAreOfTheirVersion, CopyIsOfItsVersion
    <3>1. Runs(w) /\ \A step : Doing(w, step)' <=> Doing(w, step)
      BY <1>1 DEF Doing, Runs
    <3>2. Before(work[w])' = Before(work[w]) /\ (Copies(w)' <=> Copies(w))
      BY <1>1, <3>1 DEF Before, Copies
    <3>3. CopyIsOfItsVersion(w)
      BY <2>1 DEF Sound, CopiesAreOfTheirVersion
    <3>4. work[w].ver # source'
      <4>1. work[w].ver \in Nat /\ work[w].ver <= source
        BY GoodFacts, Versions DEF WorksAreWell, Puttable, WorkInProgress
      <4> QED BY <1>1, <1>2, <4>1
    <3> QED BY <1>1, <3>1, <3>2, <3>3, <3>4 DEF CopyIsOfItsVersion
  <2>5. NothingTornInPlace'
    BY <1>1, <2>1 DEF Sound, NothingTornInPlace
  <2>6. FulfilledIsComplete'
    <3>1. Handler(exp).fulfilled \in {"metadata", "info", "version"}
      BY GoodFacts, HandlerFacts
    <3>2. CASE Handler(exp).fulfilled \in {"metadata", "info"}
      <4>1. ~Fulfilled'
        BY <1>1, <1>3, <3>2 DEF Fulfilled, isFileFulfilled, findUnUpdatedPackageInfo
      <4> QED BY <4>1 DEF FulfilledIsComplete
    <3>3. CASE Handler(exp).fulfilled = "version"
      BY <1>1, <3>3 DEF FulfilledIsComplete, Fulfilled
    <3> QED BY <3>1, <3>2, <3>3
  <2> QED BY <2>2, <2>3, <2>4, <2>5, <2>6 DEF Sound
<1> QED BY <1>6, <1>7 DEF Good

LEMMA GoodAfterCrash ==
  ASSUME Good, Crash
  PROVE  Good'
<1>1. /\ exp' = exp /\ source' = source /\ target' = target /\ mishaps' = mishaps
      /\ work' = [w \in Works |-> NoWork] /\ active' = None /\ removing' = <<>> /\ cron' = "idle"
      /\ status' \in {"new", status} /\ status' # "removing"
      /\ upsets < MaxUpsets /\ upsets' = upsets + 1 /\ reachable' = reachable /\ wanted' = wanted
  BY DEF Crash
<1>2. Loses
  BY <1>1, NothingLost
<1>3. Puttable(NoWork) /\ Structure
  BY GoodFacts, NoWorkFacts
<1>4. \A w \in Works : work'[w] = NoWork
  BY <1>1
<1>5. WorksAreWell'
  <2>1. \A w \in Works : Puttable(work[w])'
    BY <1>1, <1>3, <1>4 DEF Puttable, RestOfPlan
  <2>2. work' \in [Works -> WorkInProgress]
    BY <1>1, <1>3 DEF Puttable
  <2>3. WorksAreKnown'
    BY <1>1, <1>4, <2>2 DEF WorksAreKnown
  <2> QED BY <1>1, <2>1, <2>3 DEF WorksAreWell
<1>6. <<>> \in RestsOfRemoval
  BY DEF RestsOfRemoval
<1>7. upsets' \in 0 .. MaxUpsets
  BY <1>1, GoodFacts, WorksAssumption DEF RestIsWell
<1>8. RestIsWell'
  BY <1>1, <1>6, <1>7, GoodFacts DEF RestIsWell
<1>9. WorksStayOrEnd /\ \A rest \in Removals' : rest = <<>>
  BY <1>1, <1>4 DEF WorksStayOrEnd, Removals, NoWork
<1> QED BY <1>1, <1>2, <1>5, <1>8, <1>9, LosesKeepsGood

-----------------------------------------------------------------------------
(* The works: their ends and cancellations *)

LEMMA PutFacts ==
  ASSUME Good, NEW w \in Works, NEW r, Puttable(r), Put(w, r)
  PROVE  /\ r.todo = <<>> \/ (r.todo = work[w].todo /\ r.ver = work[w].ver /\ r.read = work[w].read) =>
              WorksStayOrEnd
         /\ removing' = removing =>
              \A rest \in Removals' : rest \in Removals \/ rest = <<>> \/ rest = r.undo
         /\ work'[w] = r \/ work'[w] = NoWork
         /\ \A o \in Works \ {w} : work'[o] = work[o]
<1>1. work \in [Works -> WorkInProgress]
  BY GoodFacts
<1>2. (work'[w] = r \/ work'[w] = NoWork) /\ \A o \in Works \ {w} : work'[o] = work[o]
  BY <1>1 DEF Put
<1>3. NoWork.todo = <<>> /\ NoWork.undo = <<>>
  BY DEF NoWork
<1>4. ASSUME r.todo = <<>> \/ (r.todo = work[w].todo /\ r.ver = work[w].ver /\ r.read = work[w].read)
      PROVE  WorksStayOrEnd
  BY <1>2, <1>3, <1>4 DEF WorksStayOrEnd
<1>5. ASSUME removing' = removing, NEW rest \in Removals'
      PROVE  rest \in Removals \/ rest = <<>> \/ rest = r.undo
  BY <1>2, <1>3, <1>5 DEF Removals
<1> QED BY <1>2, <1>4, <1>5

\* A work that throws or fails: the manager is told, unless it has cancelled it.
LEMMA GoodAfterEnd ==
  ASSUME Good, NEW w \in Works, Throws(w) \/ Fails(w)
  PROVE  Good'
<1> DEFINE r == [work[w] EXCEPT !.todo = <<>>]
<1>1. /\ Runs(w) /\ Put(w, r) /\ Tell(w, TRUE)
      /\ exp' = exp /\ source' = source /\ target' = target /\ mishaps' = mishaps
      /\ UNCHANGED <<cron, reachable, wanted, status, removing>>
      /\ upsets' = upsets \/ (upsets < MaxUpsets /\ upsets' = upsets + 1)
  BY DEF Throws, Fails
<1>2. /\ work[w] \in WorkInProgress /\ Puttable(work[w]) /\ exp \in Expectations /\ w # None
      /\ WorksAreKnown
  BY GoodFacts DEF WorksAreWell
<1>3. /\ r \in WorkInProgress /\ r.todo = <<>> /\ r.ver = work[w].ver /\ r.read = work[w].read
      /\ r.cancel = work[w].cancel /\ r.undo = work[w].undo
  BY <1>2, RestOfNothing DEF WorkInProgress
<1> HIDE DEF r
<1>4. Puttable(r)
  BY <1>2, <1>3, RestOfNothing DEF Puttable
<1>5. work[w] # NoWork
  BY <1>1 DEF Runs, NoWork
<1>6. active = w \/ (work[w].cancel = "over" /\ WentOn)
  BY <1>2, <1>5 DEF WorksAreKnown, WentOn
<1>7. active = w => work[w].cancel # "over"
  BY <1>2 DEF WorksAreKnown
<1>8. active' \in {None, active} /\ (active' # active => active = w)
  BY <1>1 DEF Tell
<1>9. active' = w => ~Ended(r) /\ r.cancel # "over"
  BY <1>1, <1>2, <1>3, <1>7, <1>8 DEF Tell, Ended
<1>10. ~Ended(r) => active' = w
  BY <1>1, <1>3, <1>6 DEF Tell, Ended
<1>11. WorksAreWell'
  BY <1>1, <1>4, <1>8, <1>9, <1>10, PutWork DEF Good
<1>12. Loses
  BY <1>1, NothingLost
<1>13. RestIsWell'
  <2>1. RestIsWell
    BY GoodFacts
  <2>2. upsets' \in 0 .. MaxUpsets
    BY <1>1, <2>1, WorksAssumption DEF RestIsWell
  <2> QED BY <1>1, <1>8, <2>1, <2>2 DEF RestIsWell
<1>14. WorksStayOrEnd /\ \A rest \in Removals' : rest \in Removals \/ rest = <<>>
  <2>1. r.undo \in Removals
    BY <1>3 DEF Removals
  <2> QED BY <1>1, <1>3, <1>4, <2>1, PutFacts
<1> QED BY <1>1, <1>11, <1>12, <1>13, <1>14, LosesKeepsGood

\* A work whose stream fails goes on, and is known to.
LEMMA GoodAfterWriteFails ==
  ASSUME Good, NEW w \in Works, WriteFails(w),
         upsets' = upsets \/ (upsets < MaxUpsets /\ upsets' = upsets + 1)
  PROVE  Good'
<1> DEFINE r == [work[w] EXCEPT !.todo = Tail(@), !.cancel = "over"]
<1>1. /\ Runs(w) /\ work[w].cancel = "no" /\ Put(w, r) /\ active' = None
      /\ mishaps' = mishaps \cup {"finalized"}
      /\ exp' = exp /\ source' = source /\ target' = target
      /\ UNCHANGED <<cron, reachable, wanted, status, removing>>
  BY DEF WriteFails, ClosesWhenFailing, Copies, Doing
<1>2. /\ work[w] \in WorkInProgress /\ Puttable(work[w]) /\ exp \in Expectations /\ w # None
      /\ WorksAreKnown /\ RestIsWell
  BY GoodFacts DEF WorksAreWell
<1>3. Tail(work[w].todo) \in Seq(Steps) /\ RestOfPlan(Tail(work[w].todo)) /\ work[w].undo = <<>>
  <2>1. work[w].todo \in Seq(Steps) /\ work[w].todo # <<>> /\ RestOfPlan(work[w].todo)
    BY <1>1, <1>2 DEF Puttable, WorkInProgress, Runs
  <2> QED BY <1>1, <1>2, <2>1, RestFacts DEF Puttable
<1>4. /\ r \in WorkInProgress /\ r.todo = Tail(work[w].todo) /\ r.ver = work[w].ver
      /\ r.read = work[w].read /\ r.cancel = "over" /\ r.undo = <<>>
  BY <1>2, <1>3 DEF WorkInProgress
<1> HIDE DEF r
<1>5. Puttable(r)
  BY <1>2, <1>3, <1>4 DEF Puttable
<1>6. active = w
  <2>1. work[w] # NoWork
    BY <1>1 DEF NoWork, Runs
  <2> QED BY <1>1, <1>2, <2>1 DEF WorksAreKnown
<1>7. WentOn' /\ mishaps \subseteq mishaps'
  BY <1>1 DEF WentOn
<1>8. WorksAreWell'
  BY <1>1, <1>2, <1>4, <1>5, <1>6, <1>7, PutWork DEF Good
<1>9. upsets' \in 0 .. MaxUpsets
  <2>1. upsets \in 0 .. MaxUpsets /\ MaxUpsets \in Nat
    BY <1>2, WorksAssumption DEF RestIsWell
  <2> QED BY <2>1
<1>10. RestIsWell'
  BY <1>1, <1>2, <1>9 DEF RestIsWell
<1>11. Structure'
  BY <1>1, <1>8, <1>10, GoodFacts, StructureAgain
<1> QED BY <1>7, <1>11 DEF Good

LEMMA GoodAfterCancelEnds ==
  ASSUME Good, NEW w \in Works, CancelEnds(w)
  PROVE  Good'
<1> DEFINE r == [work[w] EXCEPT !.cancel = "over", !.undo = <<>>]
<1>1. /\ work[w].cancel \in {"undoes", "waits", "hangs"} /\ Put(w, r) /\ active' = None
      /\ mishaps' = IF Overruns(r) THEN mishaps \cup {"overran"} ELSE mishaps
      /\ exp' = exp /\ source' = source /\ target' = target
      /\ UNCHANGED <<cron, reachable, wanted, status, removing, upsets>>
  BY DEF CancelEnds
<1>2. /\ work[w] \in WorkInProgress /\ Puttable(work[w]) /\ exp \in Expectations /\ w # None
      /\ WorksAreKnown /\ RestIsWell
  BY GoodFacts DEF WorksAreWell
<1>3. /\ r \in WorkInProgress /\ r.todo = work[w].todo /\ r.ver = work[w].ver /\ r.read = work[w].read
      /\ r.cancel = "over" /\ r.undo = <<>>
  BY <1>2, RestOfNothing DEF WorkInProgress
<1> HIDE DEF r
<1>4. Puttable(r)
  BY <1>2, <1>3, RestOfNothing DEF Puttable, RestsOfRemoval
<1>5. active = w
  <2>1. work[w] # NoWork /\ work[w].cancel # "over"
    BY <1>1 DEF NoWork
  <2> QED BY <1>2, <2>1 DEF WorksAreKnown
<1>6. mishaps \subseteq mishaps' /\ mishaps' \subseteq {"overran", "finalized", "forgotten", "unremoved"}
  BY <1>1, <1>2 DEF RestIsWell
<1>7. ~Ended(r) => WentOn'
  BY <1>1, <1>3 DEF Ended, Overruns, WentOn
<1>8. WorksAreWell'
  BY <1>1, <1>2, <1>3, <1>4, <1>5, <1>6, <1>7, PutWork DEF Good
<1>9. Loses
  BY <1>1, NothingLost
<1>10. RestIsWell'
  BY <1>1, <1>2, <1>6 DEF RestIsWell
<1>11. WorksStayOrEnd /\ \A rest \in Removals' : rest \in Removals \/ rest = <<>>
  BY <1>1, <1>3, <1>4, PutFacts
<1> QED BY <1>1, <1>6, <1>8, <1>9, <1>10, <1>11, LosesKeepsGood

LEMMA GoodAfterUndo ==
  ASSUME Good, NEW w \in Works, Undo(w)
  PROVE  Good'
<1> DEFINE r == [work[w] EXCEPT !.undo = Tail(work[w].undo)]
<1>1. /\ work[w].cancel = "undoes" /\ work[w].undo # <<>>
      /\ target' = Does(w, Head(work[w].undo), target)
      /\ work' = [work EXCEPT ![w].undo = Tail(@)]
      /\ exp' = exp /\ source' = source /\ active' = active
      /\ mishaps' = mishaps \cup Unremoved(Head(work[w].undo))
      /\ UNCHANGED <<cron, reachable, wanted, status, removing, upsets>>
  BY DEF Undo, manager
<1>2. /\ work[w] \in WorkInProgress /\ Puttable(work[w]) /\ exp \in Expectations /\ w # None
      /\ WorksAreKnown /\ RestIsWell /\ work \in [Works -> WorkInProgress]
  BY GoodFacts DEF WorksAreWell
<1>3. work[w].undo \in RestsOfRemoval /\ work[w].undo \in Removals
  BY <1>2 DEF Puttable, Removals
<1>4. /\ target' \in Package /\ target'.temp = target.temp /\ target'.meta \in {target.meta, None}
      /\ ~WentOn' => Loses
      /\ Tail(work[w].undo) \in RestsOfRemoval
      /\ Tail(work[w].undo) # <<>> => target'.meta = None \/ target'.left
  BY <1>1, <1>3, RemovalStep
<1>5. Tail(work[w].undo) \in Seq(Steps)
  BY <1>4, RemovalRests
<1>6. /\ r \in WorkInProgress /\ r.todo = work[w].todo /\ r.ver = work[w].ver /\ r.read = work[w].read
      /\ r.cancel = "undoes" /\ r.undo = Tail(work[w].undo)
  BY <1>1, <1>2, <1>5 DEF WorkInProgress
<1>7. work' = [work EXCEPT ![w] = r]
  BY <1>1, <1>2
<1> HIDE DEF r
<1>8. Puttable(r)
  BY <1>2, <1>4, <1>6 DEF Puttable
<1>9. ~Ended(r) /\ Put(w, r)
  BY <1>6, <1>7 DEF Ended, Put
<1>10. active = w
  <2>1. work[w] # NoWork
    BY <1>1 DEF NoWork
  <2> QED BY <1>1, <1>2, <2>1 DEF WorksAreKnown
<1>11. WorksAreWell'
  BY <1>1, <1>6, <1>8, <1>9, <1>10, PutWork DEF Good
<1>12. RestIsWell'
  <2>1. mishaps' \subseteq mishaps \cup {"unremoved"}
    BY <1>1 DEF Unremoved
  <2> QED BY <1>1, <1>2, <2>1 DEF RestIsWell
<1>13. WorksStayOrEnd /\ \A rest \in Removals' : rest \in Removals \/ rest = <<>> \/ rest = r.undo
  BY <1>1, <1>6, <1>8, <1>9, PutFacts
<1>14. \A rest \in Removals' :
         rest # <<>> => rest \in Removals \/ target'.meta = None \/ target'.left
  BY <1>4, <1>6, <1>13
<1> QED BY <1>1, <1>4, <1>11, <1>12, <1>13, <1>14, RemovesKeepsGood

\* However a work is cancelled, what it does next is nothing, what it would have done, or, when
\* only its write stream is ended, what comes after that.
LEMMA CancelledFacts ==
  ASSUME exp \in Expectations, NEW p, Puttable(p), p.cancel = "no", p.todo # <<>>,
         NEW r, r = Cancelled(p)
  PROVE  /\ Puttable(r) /\ r.cancel \in {"undoes", "waits", "hangs", "over"}
         /\ r.ver = p.ver /\ r.read = p.read
         /\ \/ r.todo \in {<<>>, p.todo}
            \/ r.todo = Tail(p.todo) /\ r.cancel = "over"
         /\ r.undo \in {<<>>, removePackage(exp)}
<1>1. /\ p \in WorkInProgress /\ p.undo = <<>> /\ p.todo \in Seq(Steps)
      /\ RestOfPlan(p.todo) /\ p.ver <= source /\ p.read <= source
  BY DEF Puttable, WorkInProgress
<1>2. /\ <<>> \in Seq(Steps) /\ RestOfPlan(<<>>)
      /\ Tail(p.todo) \in Seq(Steps) /\ RestOfPlan(Tail(p.todo))
  BY <1>1, RestFacts, RestOfNothing
<1>3. /\ removePackage(exp) \in RestsOfRemoval /\ removePackage(exp) \in Seq(Steps)
      /\ <<>> \in RestsOfRemoval
  BY RemovalRests DEF RestsOfRemoval
<1>4. /\ Halted(p) \in WorkInProgress /\ Halted(p).todo = <<>> /\ Halted(p).undo = <<>>
      /\ Halted(p).ver = p.ver /\ Halted(p).read = p.read
  BY <1>1, <1>2 DEF Halted, WorkInProgress
<1>5. /\ r \in WorkInProgress /\ r.cancel \in {"undoes", "waits", "hangs", "over"}
      /\ r.ver = p.ver /\ r.read = p.read
      /\ \/ r.todo \in {<<>>, p.todo}
         \/ r.todo = Tail(p.todo) /\ r.cancel = "over"
      /\ r.undo = <<>> \/ (r.undo = removePackage(exp) /\ r.cancel = "undoes")
  <2>1. CASE Handler(exp).cancel = "copy"
    <3>1. r \in {[Halted(p) EXCEPT !.cancel = "undoes", !.undo = removePackage(exp)],
                 [p EXCEPT !.cancel = "undoes", !.undo = removePackage(exp)]}
      BY <2>1 DEF Cancelled, CancelExternal
    <3>2. CASE r = [Halted(p) EXCEPT !.cancel = "undoes", !.undo = removePackage(exp)]
      BY <1>2, <1>3, <1>4, <3>2 DEF WorkInProgress
    <3>3. CASE r = [p EXCEPT !.cancel = "undoes", !.undo = removePackage(exp)]
      BY <1>1, <1>2, <1>3, <3>3 DEF WorkInProgress
    <3> QED BY <3>1, <3>2, <3>3
  <2>2. CASE Handler(exp).cancel = "stream"
    <3>1. r \in {[Halted(p) EXCEPT !.cancel = "undoes", !.undo = removePackage(exp)],
                 [Halted(p) EXCEPT !.cancel = "hangs"], [p EXCEPT !.cancel = "hangs"]}
      BY <2>2 DEF Cancelled, CancelStreams
    <3>2. CASE r = [Halted(p) EXCEPT !.cancel = "undoes", !.undo = removePackage(exp)]
      BY <1>2, <1>3, <1>4, <3>2 DEF WorkInProgress
    <3>3. CASE r = [Halted(p) EXCEPT !.cancel = "hangs"]
      BY <1>2, <1>3, <1>4, <3>3 DEF WorkInProgress
    <3>4. CASE r = [p EXCEPT !.cancel = "hangs"]
      BY <1>1, <1>2, <1>3, <3>4 DEF WorkInProgress
    <3> QED BY <3>1, <3>2, <3>3, <3>4
  <2>3. CASE Handler(exp).cancel = "process"
    <3>1. r \in {[Halted(p) EXCEPT !.cancel = "over"], [p EXCEPT !.cancel = "over"]}
      BY <2>3 DEF Cancelled, CancelProcess
    <3>2. CASE r = [Halted(p) EXCEPT !.cancel = "over"]
      BY <1>2, <1>3, <1>4, <3>2 DEF WorkInProgress
    <3>3. CASE r = [p EXCEPT !.cancel = "over"]
      BY <1>1, <1>2, <1>3, <3>3 DEF WorkInProgress
    <3> QED BY <3>1, <3>2, <3>3
  <2>4. CASE Handler(exp).cancel = "clip"
    <3>1. r \in {[p EXCEPT !.cancel = "waits"], [p EXCEPT !.cancel = "hangs"]}
      BY <2>4 DEF Cancelled, CancelClip
    <3>2. CASE r = [p EXCEPT !.cancel = "waits"]
      BY <1>1, <1>2, <1>3, <3>2 DEF WorkInProgress
    <3>3. CASE r = [p EXCEPT !.cancel = "hangs"]
      BY <1>1, <1>2, <1>3, <3>3 DEF WorkInProgress
    <3> QED BY <3>1, <3>2, <3>3
  <2>5. CASE Handler(exp).cancel = "render"
    <3>1. r \in {[Halted(p) EXCEPT !.cancel = "over"], [p EXCEPT !.cancel = "over"],
                 [p EXCEPT !.todo = Tail(p.todo), !.cancel = "over"]}
      BY <2>5 DEF Cancelled, CancelRender
    <3>2. CASE r = [Halted(p) EXCEPT !.cancel = "over"]
      BY <1>2, <1>3, <1>4, <3>2 DEF WorkInProgress
    <3>3. CASE r = [p EXCEPT !.cancel = "over"]
      BY <1>1, <1>2, <1>3, <3>3 DEF WorkInProgress
    <3>4. CASE r = [p EXCEPT !.todo = Tail(p.todo), !.cancel = "over"]
      BY <1>1, <1>2, <1>3, <3>4 DEF WorkInProgress
    <3> QED BY <3>1, <3>2, <3>3, <3>4
  <2> QED BY <2>1, <2>2, <2>3, <2>4, <2>5, HandlerFacts
<1> QED BY <1>1, <1>2, <1>3, <1>5 DEF Puttable

LEMMA GoodAfterCancel ==
  ASSUME Good, NEW w \in Works, Cancel(w)
  PROVE  Good'
<1> DEFINE p == [work[w] EXCEPT !.cancelled = TRUE]
           r == Cancelled(p)
<1>1. /\ active = w /\ work[w].cancel = "no" /\ Runs(w) /\ Put(w, r)
      /\ mishaps' = IF Overruns(r) THEN mishaps \cup {"overran"} ELSE mishaps
      /\ active' = IF r.cancel = "over" THEN None ELSE active
      /\ exp' = exp /\ source' = source /\ target' = target
      /\ UNCHANGED <<cron, reachable, wanted, status, removing>>
      /\ upsets' = upsets \/ (upsets < MaxUpsets /\ upsets' = upsets + 1)
  BY DEF Cancel
<1>2. /\ work[w] \in WorkInProgress /\ Puttable(work[w]) /\ exp \in Expectations /\ w # None
      /\ RestIsWell
  BY GoodFacts DEF WorksAreWell
<1>3. /\ p \in WorkInProgress /\ p.todo = work[w].todo /\ p.ver = work[w].ver /\ p.read = work[w].read
      /\ p.cancel = "no" /\ p.undo = work[w].undo
  BY <1>1, <1>2 DEF WorkInProgress
<1> HIDE DEF p
<1>4. Puttable(p) /\ p.todo # <<>>
  BY <1>1, <1>2, <1>3 DEF Puttable, Runs
<1> HIDE DEF r
<1>5. /\ Puttable(r) /\ r.cancel \in {"undoes", "waits", "hangs", "over"}
      /\ r.ver = p.ver /\ r.read = p.read
      /\ \/ r.todo \in {<<>>, p.todo}
         \/ r.todo = Tail(p.todo) /\ r.cancel = "over"
      /\ r.undo \in {<<>>, removePackage(exp)}
  BY <1>2, <1>3, <1>4, CancelledFacts DEF r
<1>6. mishaps \subseteq mishaps' /\ mishaps' \subseteq {"overran", "finalized", "forgotten", "unremoved"}
  BY <1>1, <1>2 DEF RestIsWell
<1>7. r.cancel = "over" /\ r.todo # <<>> => WentOn'
  BY <1>1 DEF Overruns, WentOn
<1>8. ~Ended(r) => active' = w \/ (r.cancel = "over" /\ WentOn')
  BY <1>1, <1>5, <1>7 DEF Ended
<1>9. active' = w => ~Ended(r) /\ r.cancel # "over"
  BY <1>1, <1>2, <1>5 DEF Ended
<1>10. WorksAreWell'
  BY <1>1, <1>5, <1>6, <1>8, <1>9, PutWork DEF Good
<1>11. Loses
  BY <1>1, NothingLost
<1>12. RestIsWell'
  <2>1. upsets' \in 0 .. MaxUpsets
    BY <1>1, <1>2, WorksAssumption DEF RestIsWell
  <2>2. active = None => active' = None
    BY <1>1
  <2> QED BY <1>1, <1>2, <1>6, <2>1, <2>2 DEF RestIsWell
<1>13. WorksStayOrEnd \/ WentOn'
  BY <1>1, <1>3, <1>5, <1>7, PutFacts
<1>14. \A rest \in Removals' : rest # <<>> /\ Head(rest) = "unlink" => rest \in Removals
  BY <1>1, <1>2, <1>5, PutFacts, RemovalRests
<1> QED BY <1>1, <1>6, <1>10, <1>11, <1>12, <1>13, <1>14, RemovesKeepsGood DEF Loses

-----------------------------------------------------------------------------
(* A work that begins *)

\* As long as none has overrun, there is one work at a time: the one the manager waits for.
LEMMA OneWork ==
  ASSUME Good, ~WentOn, NEW w \in Works, work[w] # NoWork
  PROVE  active = w /\ \A o \in Works \ {w} : work[o] = NoWork /\ ~Runs(o)
<1>1. \A o \in Works : work[o] # NoWork => active = o
  BY GoodFacts DEF WorksAreWell, WorksAreKnown, WentOn
<1>2. NoWork.todo = <<>>
  BY DEF NoWork
<1>3. active = w /\ \A o \in Works \ {w} : work[o] = NoWork
  BY <1>1
<1> QED BY <1>2, <1>3 DEF Runs

LEMMA GoodAfterWorkOnExpectation ==
  ASSUME Good, NEW w \in Works, workOnExpectation(w)
  PROVE  Good'
<1> DEFINE r == [NoWork EXCEPT !.todo = Plan(exp)]
<1>1. /\ wanted /\ active = None /\ status = "new" /\ ~Fulfilled /\ work[w] = NoWork
      /\ active' = w /\ work' = [work EXCEPT ![w].todo = Plan(exp)]
      /\ exp' = exp /\ source' = source /\ target' = target /\ mishaps' = mishaps
      /\ UNCHANGED <<cron, reachable, wanted, status, removing, upsets>>
  BY DEF workOnExpectation, Idle
<1>2. /\ exp \in Expectations /\ w # None /\ work \in [Works -> WorkInProgress] /\ RestIsWell
      /\ source \in 1 .. MaxVersion /\ WorksAreWell /\ Structure
  BY GoodFacts
<1>3. /\ Plan(exp) \in Seq(Steps) /\ Plan(exp) # <<>> /\ RestOfPlan(Plan(exp))
      /\ Head(Plan(exp)) = "version"
  BY <1>2, RestOfNothing
<1>4. Puttable(NoWork) /\ NoWork \in WorkInProgress
  BY <1>2, NoWorkFacts DEF Puttable
<1>5. /\ r \in WorkInProgress /\ r.todo = Plan(exp) /\ r.ver = NoWork.ver /\ r.read = NoWork.read
      /\ r.cancel = "no" /\ r.undo = <<>> /\ NoWork.cancel = "no" /\ NoWork.undo = <<>>
  BY <1>3, <1>4 DEF WorkInProgress, NoWork
<1>6. work' = [work EXCEPT ![w] = r]
  BY <1>1, <1>2
<1> HIDE DEF r
<1>7. Puttable(r) /\ ~Ended(r)
  BY <1>3, <1>4, <1>5 DEF Puttable, Ended
<1>8. Put(w, r)
  BY <1>6, <1>7 DEF Put
<1>9. WorksAreWell'
  BY <1>1, <1>2, <1>5, <1>7, <1>8, PutWork
<1>10. RestIsWell'
  BY <1>1, <1>2 DEF RestIsWell
<1>11. Structure'
  BY <1>1, <1>2, <1>9, <1>10, GoodFacts, StructureAgain
<1>12. ASSUME ~WentOn'
       PROVE  MetadataGoesFirst' /\ Sound'
  <2>1. ~WentOn /\ MetadataGoesFirst /\ Sound
    BY <1>1, <1>12 DEF WentOn, Good
  <2>2. \A o \in Works : work[o] = NoWork
    BY <1>1, <2>1, OneWork, GoodFacts
  <2>3. work'[w] = r /\ \A o \in Works \ {w} : work'[o] = NoWork
    BY <1>2, <1>6, <2>2
  <2>4. \A o \in Works \ {w} : ~Runs(o)'
    BY <2>3 DEF Runs, NoWork
  <2>5. Doing(w, "version")'
    BY <1>3, <1>5, <2>3 DEF Doing, Runs
  <2>6. MetadataGoesFirst'
    <3>1. \A rest \in Removals' : rest \in Removals \/ rest = <<>>
      BY <1>1, <1>5, <1>7, <1>8, PutFacts
    <3> QED BY <1>1, <2>1, <3>1, MetadataStaysFirst
  <2>7. LostIsKnown' /\ NothingTornInPlace'
    BY <1>1, <2>1 DEF Sound, LostIsKnown, NothingTornInPlace
  <2>8. WorksOnTheUnfulfilled'
    <3>1. ASSUME Handler(exp).fulfilled = "metadata", WritesTo(exp) = "file"
          PROVE  target.meta # source \/ target.left
      BY <1>1, <1>2, <2>1, <3>1, FulfilledFacts DEF Sound, LostIsKnown
    <3> QED BY <1>1, <3>1 DEF WorksOnTheUnfulfilled
  <2>9. CopiesAreOfTheirVersion'
    BY <2>4, <2>5 DEF CopiesAreOfTheirVersion, CopyIsOfItsVersion
  <2>10. FulfilledIsComplete'
    <3>1. ~Fulfilled'
      BY <1>1 DEF Fulfilled, isFileFulfilled, findUnUpdatedPackageInfo
    <3> QED BY <3>1 DEF FulfilledIsComplete
  <2> QED BY <2>6, <2>7, <2>8, <2>9, <2>10 DEF Sound
<1> QED BY <1>11, <1>12 DEF Good

-----------------------------------------------------------------------------
(* A work that goes on *)

\* The steps around one in the plan.
Around(t, step, before) ==
  /\ step # "version" =>
       /\ step \in {"write", "copy", "unlink", "rename"} => exp.store # "core"
       /\ step = "copy" => before = "write"
       /\ step = "unlink" => before = "removeMetadata" \/ before = "copy"
       /\ step = "updateMetadata" => Tail(t) = <<>> /\ (exp.store = "core" => before = "probe")
  /\ Tail(t) # <<>> =>
       /\ Head(Tail(t)) # "version"
       /\ Head(Tail(t)) = "copy" => step = "write"
       /\ Head(Tail(t)) = "rename" => step = "unlink" /\ before = "copy"
       /\ Head(Tail(t)) = "updateMetadata" /\ exp.store # "core" =>
            step = IF Renames(exp) THEN "rename" ELSE "copy"

LEMMA PlanAround ==
  ASSUME exp \in Expectations, NEW t \in Seq(Steps), RestOfPlan(t), t # <<>>
  PROVE  Around(t, Head(t), Plan(exp)[Len(Plan(exp)) - Len(t)])
<1> SUFFICES ASSUME NEW step, step = Head(t),
                    NEW before, before = Plan(exp)[Len(Plan(exp)) - Len(t)]
             PROVE  Around(t, step, before)
  OBVIOUS
<1> DEFINE s == Plan(exp)
           d == Len(s) - Len(t)
           n == Head(Tail(t))
<1>1. IsPlan(s, exp) /\ Len(s) \in Nat
  BY PlanFacts DEF IsPlan
<1>2. /\ Len(Tail(t)) = Len(t) - 1 /\ Tail(t) \in Seq(Steps)
      /\ d + 1 \in 1 .. Len(s) /\ step = s[d + 1] /\ before = s[d]
      /\ Tail(t) # <<>> => d + 2 \in 1 .. Len(s) /\ n = s[d + 2]
  BY RestFacts
<1>3. Len(t) \in Nat /\ d \in Nat /\ d = Len(s) - Len(t) /\ Len(Tail(t)) \in Nat
  BY <1>1, <1>2
<1> HIDE DEF s, d, n
<1>4. ASSUME step # "version"
      PROVE  /\ step \in {"write", "copy", "unlink", "rename"} => exp.store # "core"
             /\ step = "copy" => before = "write"
             /\ step = "unlink" => before = "removeMetadata" \/ before = "copy"
             /\ step = "updateMetadata" => Tail(t) = <<>> /\ (exp.store = "core" => before = "probe")
  <2>1. d + 1 \in 2 .. Len(s) /\ (d + 1) - 1 = d
    <3>1. d # 0
      BY <1>1, <1>2, <1>4 DEF IsPlan
    <3>2. d \in Nat /\ Len(s) \in Nat /\ d + 1 \in 1 .. Len(s)
      BY <1>1, <1>2, <1>3
    <3> QED BY <3>1, <3>2
  <2>2. step = "updateMetadata" => d + 1 = Len(s)
    BY <1>1, <1>2, <2>1 DEF IsPlan
  <2>3. d + 1 = Len(s) => Tail(t) = <<>>
    <3>1. d + 1 = Len(s) => Len(Tail(t)) = 0
      BY <1>1, <1>2, <1>3
    <3>2. Len(Tail(t)) = 0 => Tail(t) = <<>>
      BY <1>2, EmptySeq
    <3> QED BY <3>1, <3>2
  <2> QED BY <1>1, <1>2, <2>1, <2>2, <2>3 DEF IsPlan
<1>5. ASSUME Tail(t) # <<>>
      PROVE  /\ n # "version"
             /\ n = "copy" => step = "write"
             /\ n = "rename" => step = "unlink" /\ before = "copy"
             /\ n = "updateMetadata" /\ exp.store # "core" =>
                  step = IF Renames(exp) THEN "rename" ELSE "copy"
  <2>1. d + 2 \in 2 .. Len(s) /\ (d + 2) - 1 = d + 1 /\ (d + 2) - 2 = d
    BY <1>1, <1>2, <1>3, <1>5
  <2> QED BY <1>1, <1>2, <1>5, <2>1 DEF IsPlan
<1> QED BY <1>4, <1>5 DEF n, Around

\* Work w, p, does the step, and becomes r, with the rest left to do.
Advance(w, p, step, rest, r) ==
  /\ p \in WorkInProgress /\ p.todo \in Seq(Steps) /\ p.todo # <<>> /\ RestOfPlan(p.todo)
  /\ step \in Steps /\ rest \in {<<>>, Tail(p.todo)}
  /\ Puttable(r) /\ r.todo = rest /\ r.cancel = p.cancel /\ r.undo = p.undo
  /\ step = "version" => r.ver = source /\ r.read = p.read
  /\ step \in {"probe", "write", "render"} => r.ver = p.ver /\ r.read = source
  /\ step \notin {"version", "probe", "write", "render"} => r.ver = p.ver /\ r.read = p.read
  /\ Put(w, r) /\ exp' = exp /\ source' = source
  /\ target' = IF Skipped(p) THEN target ELSE Does(w, step, target)
  /\ step = "rename" => target.temp # None
  /\ mishaps' = IF UndoHasBegun(w) THEN mishaps \cup {"overran"} ELSE mishaps
  /\ Tell(w, rest = <<>>)
  /\ UNCHANGED <<cron, reachable, wanted, status, removing, upsets>>

LEMMA StepFacts ==
  ASSUME Good, NEW w \in Works, Step(w),
         NEW p, p = work[w], NEW step, step = Head(p.todo),
         NEW rest, rest = Remaining(p), NEW r, r = [Read(p, step) EXCEPT !.todo = rest]
  PROVE  Advance(w, p, step, rest, r)
<1>1. /\ p \in WorkInProgress /\ Puttable(p) /\ exp \in Expectations /\ source \in 1 .. MaxVersion
      /\ p.todo # <<>>
  BY GoodFacts DEF WorksAreWell, Step, Runs
<1>2. /\ p.todo \in Seq(Steps) /\ RestOfPlan(p.todo) /\ step \in Steps
      /\ Tail(p.todo) \in Seq(Steps) /\ RestOfPlan(Tail(p.todo))
      /\ <<>> \in Seq(Steps) /\ RestOfPlan(<<>>)
  <2>1. p.todo \in Seq(Steps) /\ RestOfPlan(p.todo)
    BY <1>1 DEF WorkInProgress, Puttable
  <2>2. step \in Steps
    BY <1>1, <2>1
  <2> QED BY <1>1, <2>1, <2>2, RestFacts, RestOfNothing
<1>3. rest \in {<<>>, Tail(p.todo)}
  BY DEF Remaining
<1>4. /\ source \in None .. MaxVersion /\ source <= source
  BY <1>1, Versions
<1>5. rest \in Seq(Steps) /\ RestOfPlan(rest)
  BY <1>2, <1>3
<1>6. /\ r \in WorkInProgress /\ r.todo = rest /\ r.cancel = p.cancel /\ r.undo = p.undo
      /\ step = "version" => r.ver = source /\ r.read = p.read
      /\ step \in {"probe", "write", "render"} => r.ver = p.ver /\ r.read = source
      /\ step \notin {"version", "probe", "write", "render"} => r.ver = p.ver /\ r.read = p.read
  <2>1. CASE step = "version"
    <3>1. r = [[p EXCEPT !.ver = source] EXCEPT !.todo = rest]
      BY <2>1 DEF Read
    <3> QED BY <1>1, <1>4, <1>5, <2>1, <3>1 DEF WorkInProgress
  <2>2. CASE step \in {"probe", "write", "render"}
    <3>1. r = [[p EXCEPT !.read = source] EXCEPT !.todo = rest]
      BY <2>2 DEF Read
    <3> QED BY <1>1, <1>4, <1>5, <2>2, <3>1 DEF WorkInProgress
  <2>3. CASE step \notin {"version", "probe", "write", "render"}
    <3>1. r = [p EXCEPT !.todo = rest]
      BY <2>3 DEF Read
    <3> QED BY <1>1, <1>4, <1>5, <2>3, <3>1 DEF WorkInProgress
  <2> QED BY <2>1, <2>2, <2>3
<1>7. Puttable(r)
  <2>1. r.ver <= source /\ r.read <= source
    BY <1>1, <1>4, <1>6 DEF Puttable
  <2> QED BY <1>1, <1>5, <1>6, <2>1 DEF Puttable
<1> QED BY <1>1, <1>2, <1>3, <1>6, <1>7 DEF Step, Advance

\* Where the package cannot be wrong yet: types, and what is known of the works.
LEMMA StructureAfterStep ==
  ASSUME Good, NEW w \in Works, Step(w)
  PROVE  Structure'
<1> DEFINE p == work[w]
           step == Head(p.todo)
           rest == Remaining(p)
           r == [Read(p, step) EXCEPT !.todo = rest]
<1>0. /\ p = work[w] /\ step = Head(p.todo) /\ rest = Remaining(p)
      /\ r = [Read(p, step) EXCEPT !.todo = rest]
  OBVIOUS
<1> HIDE DEF p, step, rest, r
<1>1. /\ p \in WorkInProgress /\ p.todo # <<>> /\ step \in Steps
      /\ Puttable(r) /\ r.todo = rest /\ r.cancel = p.cancel
      /\ Put(w, r) /\ exp' = exp /\ source' = source
      /\ target' = IF Skipped(p) THEN target ELSE Does(w, step, target)
      /\ step = "rename" => target.temp # None
      /\ mishaps' = IF UndoHasBegun(w) THEN mishaps \cup {"overran"} ELSE mishaps
      /\ Tell(w, rest = <<>>)
      /\ UNCHANGED <<cron, reachable, wanted, status, removing, upsets>>
  <2>1. Advance(w, p, step, rest, r)
    BY <1>0, StepFacts
  <2> QED BY <2>1 DEF Advance
<1>2. /\ exp \in Expectations /\ source \in 1 .. MaxVersion /\ target \in Package /\ w # None
      /\ RestIsWell /\ WorksAreKnown /\ Puttable(p) /\ target.meta <= source
      /\ WritesTo(exp) = "file" => target.temp = None
  BY <1>0, GoodFacts DEF WorksAreWell
<1>3. p # NoWork
  BY <1>1 DEF NoWork
<1>4. active = w \/ (p.cancel = "over" /\ WentOn)
  BY <1>0, <1>2, <1>3 DEF WorksAreKnown, WentOn
<1>5. active = w => p.cancel # "over"
  BY <1>0, <1>2 DEF WorksAreKnown
<1>6. active' \in {None, active} /\ (active' # active => active = w)
  BY <1>1 DEF Tell
<1>7. mishaps \subseteq mishaps' /\ mishaps' \subseteq {"overran", "finalized", "forgotten", "unremoved"}
  BY <1>1, <1>2 DEF RestIsWell
<1>8. active' = w => ~Ended(r) /\ r.cancel # "over"
  BY <1>0, <1>1, <1>2, <1>5, <1>6 DEF Tell, Ended
<1>9. ~Ended(r) => active' = w \/ (r.cancel = "over" /\ WentOn')
  <2>1. WentOn => WentOn'
    BY <1>7 DEF WentOn
  <2> QED BY <1>0, <1>1, <1>4, <2>1 DEF Tell, Ended
<1>10. WorksAreWell'
  BY <1>1, <1>6, <1>7, <1>8, <1>9, PutWork DEF Good
<1>11. RestIsWell'
  BY <1>1, <1>2, <1>6, <1>7 DEF RestIsWell
<1>12. target' \in Package /\ target'.meta <= source /\ (WritesTo(exp) = "file" => target'.temp = None)
  <2>1. CASE target' = target
    BY <1>2, <2>1
  <2>2. CASE target' = Does(w, step, target)
    <3>1. /\ target' \in Package
          /\ target'.meta \in {target.meta, None, p.ver}
          /\ target'.temp \in {target.temp, None} \/ WritesTo(exp) # "file"
      BY <1>0, <1>1, <1>2, <2>2, EffectBounds
    <3>2. p.ver <= source /\ None <= source
      BY <1>2, Versions DEF Puttable
    <3> QED BY <1>2, <3>1, <3>2
  <2> QED BY <1>1, <2>1, <2>2
<1> QED BY <1>1, <1>2, <1>10, <1>11, <1>12, StructureAgain

\* What is in the target, t, is what it is taken for.
FileIsRight(t) ==
  /\ Handler(exp).fulfilled = "metadata" /\ WritesTo(exp) = "file" =>
       (t.file = None /\ t.meta = source => t.left)
  /\ WritesTo(exp) = "temp" => t.file # Torn
  /\ (t.left => WritesTo(exp) = "temp") =>
       /\ Handler(exp).fulfilled = "metadata" => (t.file # None /\ t.meta = source => t.file = source)
       /\ Handler(exp).fulfilled = "info" => (t.meta = source => t.file = source)

\* What a work with record p, between two steps, can rely on.
WorkIsRight(t, p, step, before) ==
  /\ Handler(exp).fulfilled = "metadata" /\ WritesTo(exp) = "file" => t.meta # source \/ t.left
  /\ step # "version" =>
       /\ t.meta <= p.ver /\ p.ver # None
       /\ before \in {"write", "probe"} => p.ver <= p.read
       /\ WritesTo(exp) = "temp" =>
            /\ step = "copy" => t.temp # None
            /\ before = "copy" \/ step = "rename" =>
                 /\ t.temp \notin {None, Torn}
                 /\ p.ver = source => t.temp = source
       /\ step = "updateMetadata" /\ exp.store # "core" =>
            (p.ver = source => t.file \in {None, source})

LEMMA SoundIsRight ==
  ASSUME Good, ~WentOn, NEW w \in Works, Runs(w)
  PROVE  FileIsRight(target) /\ WorkIsRight(target, work[w], Head(work[w].todo), Before(work[w]))
<1>1. Sound /\ exp \in Expectations
  BY GoodFacts DEF Good
<1>2. LostIsKnown /\ NothingTornInPlace /\ WorksOnTheUnfulfilled /\ CopyIsOfItsVersion(w)
  BY <1>1 DEF Sound, CopiesAreOfTheirVersion
<1>3. Fulfilled /\ (target.left => WritesTo(exp) = "temp") => target.file = source
  BY <1>1 DEF Sound, FulfilledIsComplete, WentOn
<1>4. FileIsRight(target)
  BY <1>1, <1>2, <1>3, FulfilledFacts DEF FileIsRight, LostIsKnown, NothingTornInPlace
<1>5. \A step : Doing(w, step) <=> Head(work[w].todo) = step
  BY DEF Doing
<1>6. WorkIsRight(target, work[w], Head(work[w].todo), Before(work[w]))
  BY <1>2, <1>5 DEF WorkIsRight, WorksOnTheUnfulfilled, CopyIsOfItsVersion, Copies
<1> QED BY <1>4, <1>6

LEMMA RightIsSound ==
  ASSUME NEW w \in Works, exp' \in Expectations, FileIsRight(target)',
         \A o \in Works \ {w} : ~Runs(o)',
         Runs(w)' => WorkIsRight(target, work[w], Head(work[w].todo), Before(work[w]))'
  PROVE  Sound'
<1>1. LostIsKnown' /\ NothingTornInPlace'
  BY DEF FileIsRight, LostIsKnown, NothingTornInPlace
<1>2. FulfilledIsComplete'
  <2>1. Handler(exp').fulfilled \in {"metadata", "info", "version"}
    BY HandlerFacts
  <2>2. CASE Handler(exp').fulfilled = "metadata"
    BY <2>2 DEF FileIsRight, FulfilledIsComplete, Fulfilled, isFileFulfilled
  <2>3. CASE Handler(exp').fulfilled = "info"
    BY <2>3 DEF FileIsRight, FulfilledIsComplete, Fulfilled, findUnUpdatedPackageInfo
  <2>4. CASE Handler(exp').fulfilled = "version"
    BY <2>4 DEF FulfilledIsComplete, Fulfilled
  <2> QED BY <2>1, <2>2, <2>3, <2>4
<1>3. \A o \in Works : Runs(o)' => o = w
  OBVIOUS
<1>4. WorksOnTheUnfulfilled'
  BY <1>3 DEF WorkIsRight, WorksOnTheUnfulfilled
<1>5. CopiesAreOfTheirVersion'
  <2> SUFFICES ASSUME NEW o \in Works, Runs(o)', ~Doing(o, "version")'
               PROVE  CopyIsOfItsVersion(o)'
    BY DEF CopiesAreOfTheirVersion, CopyIsOfItsVersion
  <2>1. o = w
    BY <1>3
  <2>2. \A step : Doing(w, step)' <=> Head(work'[w].todo) = step
    BY <2>1 DEF Doing
  <2>3. WorkIsRight(target, work[w], Head(work[w].todo), Before(work[w]))'
    BY <2>1
  <2> QED BY <2>1, <2>2, <2>3 DEF WorkIsRight, CopyIsOfItsVersion, Copies
<1> QED BY <1>1, <1>2, <1>4, <1>5 DEF Sound

StepIsRight(w, p, step, before, next, rest, t, r) ==
  FileIsRight(t) /\ (rest # <<>> => WorkIsRight(t, r, next, step))

\* Work w, p, is at this step, between these two, and the step makes the target t and the work r.
StepTaken(w, p, step, before, next, rest, t, r) ==
  /\ w \in Works /\ step \in Steps /\ p = work[w] /\ p \in WorkInProgress
  /\ p.ver <= source /\ p.read <= source /\ target.meta <= source
  /\ WritesTo(exp) = "file" => target.temp = None
  /\ \A o \in Works \ {w} : ~Copies(o)
  /\ step # "version" =>
       /\ step \in {"write", "copy", "unlink", "rename"} => exp.store # "core"
       /\ step = "copy" => before = "write"
       /\ step = "unlink" => before = "removeMetadata" \/ before = "copy"
       /\ step = "updateMetadata" => rest = <<>> /\ (exp.store = "core" => before = "probe")
  /\ rest # <<>> =>
       /\ next # "version"
       /\ next = "copy" => step = "write"
       /\ next = "rename" => step = "unlink" /\ before = "copy"
       /\ next = "updateMetadata" /\ exp.store # "core" =>
            step = IF Renames(exp) THEN "rename" ELSE "copy"
  /\ step = "rename" => target.temp # None
  /\ Effect(w, step, t)
  /\ r.ver \in Nat /\ r.read \in Nat
  /\ step = "version" => r.ver = source /\ r.read = p.read
  /\ step \in {"probe", "write", "render"} => r.ver = p.ver /\ r.read = source
  /\ step \notin {"version", "probe", "write", "render"} => r.ver = p.ver /\ r.read = p.read

\* The heart of the proof: each step leaves the package, and the work, right.
LEMMA RightAfterStep ==
  ASSUME exp \in Expectations, source \in 1 .. MaxVersion, target \in Package,
         NEW w, NEW p, NEW step, NEW before, NEW next, NEW rest, NEW t, NEW r,
         StepTaken(w, p, step, before, next, rest, t, r),
         FileIsRight(target), WorkIsRight(target, p, step, before)
  PROVE  StepIsRight(w, p, step, before, next, rest, t, r)
<1> SUFFICES
      ASSUME w \in Works, step \in Steps, p = work[w], p \in WorkInProgress,
             p.ver <= source, p.read <= source, target.meta <= source,
             WritesTo(exp) = "file" => target.temp = None,
             \A o \in Works \ {w} : ~Copies(o),
             step # "version" =>
               /\ step \in {"write", "copy", "unlink", "rename"} => exp.store # "core"
               /\ step = "copy" => before = "write"
               /\ step = "unlink" => before = "removeMetadata" \/ before = "copy"
               /\ step = "updateMetadata" => rest = <<>> /\ (exp.store = "core" => before = "probe"),
             rest # <<>> =>
               /\ next # "version"
               /\ next = "copy" => step = "write"
               /\ next = "rename" => step = "unlink" /\ before = "copy"
               /\ next = "updateMetadata" /\ exp.store # "core" =>
                    step = IF Renames(exp) THEN "rename" ELSE "copy",
             step = "rename" => target.temp # None,
             Effect(w, step, t), r.ver \in Nat, r.read \in Nat,
             step = "version" => r.ver = source /\ r.read = p.read,
             step \in {"probe", "write", "render"} => r.ver = p.ver /\ r.read = source,
             step \notin {"version", "probe", "write", "render"} => r.ver = p.ver /\ r.read = p.read
      PROVE  FileIsRight(t) /\ (rest # <<>> => WorkIsRight(t, r, next, step))
  BY DEF StepTaken, StepIsRight
<1>1. /\ source \in Nat /\ source # None /\ source # Torn /\ Torn # None
      /\ p.ver \in Nat /\ p.read \in Nat /\ target.meta \in Nat /\ target.meta <= source
      /\ p.ver <= source /\ p.read <= source /\ p.read \in None .. MaxVersion
      /\ None = 0 /\ target.file \in None .. Mixed /\ target.temp \in None .. Mixed
  <2>1. /\ target.file \in None .. Mixed /\ target.temp \in None .. Mixed
        /\ target.meta \in None .. MaxVersion
    BY PackageFields
  <2>2. p.ver \in None .. MaxVersion /\ p.read \in None .. MaxVersion
    BY DEF WorkInProgress
  <2> QED BY <2>1, <2>2, Versions
<1>2. /\ WritesTo(exp) \in {"file", "temp"}
      /\ WritesTo(exp) = "temp" =>
           Renames(exp) /\ exp.store # "core" /\ Handler(exp).fulfilled = "metadata"
      /\ Handler(exp).fulfilled \in {"metadata", "info", "version"}
      /\ Handler(exp).fulfilled = "info" <=> exp.store = "core"
  BY WritesToFacts, HandlerFacts
<1>3. /\ Handler(exp).fulfilled = "metadata" /\ WritesTo(exp) = "file" =>
           target.meta # source \/ target.left
      /\ step # "version" => target.meta <= p.ver /\ p.ver # None
  BY DEF WorkIsRight
<1>4. CASE step = "version"
  <2>1. t.file = target.file /\ t.temp = target.temp /\ t.meta = target.meta /\ t.left = target.left
    BY <1>4 DEF Effect
  <2>2. FileIsRight(t)
    BY <2>1 DEF FileIsRight
  <2>3. r.ver = source
    BY <1>4
  <2>4. rest # <<>> => next \notin {"version", "copy", "rename"} /\ (next = "updateMetadata" => exp.store = "core")
    BY <1>4
  <2> QED BY <1>1, <1>3, <1>4, <2>1, <2>2, <2>3, <2>4 DEF WorkIsRight
<1>5. CASE step \in {"probe", "render", "prepare", "schedule"}
  <2>1. t.file = target.file /\ t.temp = target.temp /\ t.meta = target.meta /\ t.left = target.left
    BY <1>5 DEF Effect
  <2>2. FileIsRight(t)
    BY <2>1 DEF FileIsRight
  <2>3. r.ver = p.ver /\ (step = "probe" => r.read = source)
    BY <1>5
  <2>4. rest # <<>> => next \notin {"version", "copy", "rename"} /\ (next = "updateMetadata" => exp.store = "core")
    BY <1>5
  <2> QED BY <1>1, <1>3, <1>5, <2>1, <2>2, <2>3, <2>4 DEF WorkIsRight
<1>6. CASE step = "removeMetadata"
  <2>1. /\ t.file = target.file /\ t.temp = target.temp
        /\ \/ t.meta = None
           \/ t.meta = target.meta /\ t.left = (target.left \/ target.meta # None)
    BY <1>6 DEF Effect
  <2>2. FileIsRight(t)
    <3>1. CASE t.meta = None
      BY <1>1, <2>1, <3>1 DEF FileIsRight
    <3>2. CASE t.meta = target.meta /\ t.left = (target.left \/ target.meta # None)
      BY <1>1, <2>1, <3>2 DEF FileIsRight
    <3> QED BY <2>1, <3>1, <3>2
  <2>3. r.ver = p.ver
    BY <1>6
  <2>4. rest # <<>> => next \notin {"version", "copy", "rename"} /\ (next = "updateMetadata" => exp.store = "core")
    BY <1>6
  <2>5. t.meta # source \/ t.left \/ t.meta = target.meta
    BY <1>1, <2>1
  <2>6. t.meta <= r.ver
    BY <1>1, <1>3, <1>6, <2>1, <2>3
  <2>7. target.left => t.left \/ t.meta # source
    BY <1>1, <2>1
  <2> QED BY <1>1, <1>3, <1>6, <2>1, <2>2, <2>3, <2>4, <2>5, <2>6, <2>7 DEF WorkIsRight
<1>7. CASE step = "write"
  <2>1. t.meta = target.meta /\ t.left = target.left
    BY <1>7 DEF Effect
  <2>2. r.ver = p.ver /\ r.read = source /\ exp.store # "core"
    BY <1>7
  <2>3. rest # <<>> => next \notin {"version", "rename", "updateMetadata"}
    BY <1>7, <2>2
  <2>4. CASE WritesTo(exp) = "file"
    <3>1. t.file = Torn
      BY <1>7, <2>4 DEF Effect
    <3>2. FileIsRight(t)
      BY <1>1, <1>2, <1>3, <2>1, <2>2, <2>4, <3>1 DEF FileIsRight
    <3> QED BY <1>1, <1>3, <1>7, <2>1, <2>2, <2>3, <2>4, <3>2 DEF WorkIsRight
  <2>5. CASE WritesTo(exp) = "temp"
    <3>1. t.temp = Torn /\ t.file = target.file
      BY <1>7, <2>5 DEF Effect
    <3>2. FileIsRight(t)
      BY <2>1, <2>5, <3>1 DEF FileIsRight
    <3> QED BY <1>1, <1>3, <1>7, <2>1, <2>2, <2>3, <2>5, <3>1, <3>2 DEF WorkIsRight
  <2> QED BY <1>2, <2>4, <2>5
<1>8. CASE step = "copy"
  <2>1. t.meta = target.meta /\ t.left = target.left
    BY <1>8 DEF Effect
  <2>2. r.ver = p.ver /\ r.read = p.read /\ exp.store # "core" /\ p.ver <= p.read
    BY <1>8 DEF WorkIsRight
  <2>3. rest # <<>> => next \notin {"version", "copy", "rename"}
    BY <1>8
  <2>4. p.ver = source => p.read = source
    BY <1>1, <2>2
  <2>5. CASE WritesTo(exp) = "file"
    <3>1. t.file = Copied(w, target.file, p.read)
      BY <1>8, <2>5 DEF Effect
    <3>2. t.file = None => target.file = None
      <4> SUFFICES ASSUME target.file # None
                   PROVE  t.file # None
        OBVIOUS
      <4>1. Copied(w, target.file, p.read) # None
        BY <1>1, CopiedFacts
      <4> QED BY <3>1, <4>1
    <3>3. p.ver = source => t.file \in {None, source}
      BY <1>1, <2>4, <3>1, CopiedFacts
    <3>4. FileIsRight(t)
      BY <1>1, <1>2, <1>3, <2>1, <2>2, <2>5, <3>2 DEF FileIsRight
    <3> QED BY <1>1, <1>3, <1>8, <2>1, <2>2, <2>3, <2>5, <3>3, <3>4 DEF WorkIsRight
  <2>6. CASE WritesTo(exp) = "temp"
    <3>1. t.temp = Copied(w, target.temp, p.read) /\ t.file = target.file
      BY <1>8, <2>6 DEF Effect
    <3>2. target.temp # None
      BY <1>8, <2>6 DEF WorkIsRight
    <3>3. t.temp \notin {None, Torn} /\ (p.ver = source => t.temp = source)
      <4>1. Copied(w, target.temp, p.read) \notin {None, Torn}
        BY <1>1, <3>2, CopiedFacts
      <4>2. p.read = source => Copied(w, target.temp, p.read) = source
        BY <1>1, <3>2, CopiedFacts
      <4> QED BY <2>4, <3>1, <4>1, <4>2
    <3>4. FileIsRight(t)
      BY <2>1, <2>6, <3>1 DEF FileIsRight
    <3>5. rest # <<>> => next # "updateMetadata"
      BY <1>2, <1>8, <2>2, <2>6
    <3> QED BY <1>1, <1>3, <1>8, <2>1, <2>2, <2>3, <2>6, <3>3, <3>4, <3>5 DEF WorkIsRight
  <2> QED BY <1>2, <2>5, <2>6
<1>9. CASE step = "unlink"
  <2>1. /\ t.file \in {None, target.file} /\ t.temp = target.temp
        /\ t.meta = target.meta /\ t.left = target.left
    BY <1>9 DEF Effect
  <2>2. r.ver = p.ver /\ exp.store # "core"
    BY <1>9
  <2>3. FileIsRight(t)
    <3>1. CASE t.file = None
      BY <1>1, <1>2, <1>3, <2>1, <2>2, <3>1 DEF FileIsRight
    <3>2. CASE t.file = target.file
      BY <2>1, <3>2 DEF FileIsRight
    <3> QED BY <2>1, <3>1, <3>2
  <2>4. rest # <<>> => next \notin {"version", "copy", "updateMetadata"} /\ (next = "rename" => before = "copy")
    BY <1>9, <2>2
  <2>5. before = "copy" /\ WritesTo(exp) = "temp" =>
          target.temp \notin {None, Torn} /\ (p.ver = source => target.temp = source)
    BY <1>9 DEF WorkIsRight
  <2> QED BY <1>1, <1>3, <1>9, <2>1, <2>2, <2>3, <2>4, <2>5 DEF WorkIsRight
<1>10. CASE step = "rename"
  <2>1. t.file = target.temp /\ t.temp = None /\ t.meta = target.meta /\ t.left = target.left
    BY <1>10 DEF Effect
  <2>2. r.ver = p.ver /\ WritesTo(exp) = "temp"
    BY <1>2, <1>10
  <2>3. target.temp \notin {None, Torn} /\ (p.ver = source => target.temp = source)
    BY <1>10, <2>2 DEF WorkIsRight
  <2>4. target.meta = source => p.ver = source
    BY <1>1, <1>3, <1>10
  <2>5. FileIsRight(t)
    BY <1>1, <1>2, <2>1, <2>2, <2>3, <2>4 DEF FileIsRight
  <2>6. rest # <<>> => next \notin {"version", "copy", "rename"}
    BY <1>10
  <2> QED BY <1>1, <1>3, <1>10, <2>1, <2>2, <2>3, <2>5, <2>6 DEF WorkIsRight
<1>11. CASE step = "updateMetadata" /\ exp.store = "core"
  <2>1. t.file = p.read /\ t.meta = p.ver
    BY <1>11 DEF Effect
  <2>2. rest = <<>> /\ p.ver <= p.read
    BY <1>11 DEF WorkIsRight
  <2>3. p.ver = source => p.read = source
    BY <1>1, <2>2
  <2> QED BY <1>2, <1>11, <2>1, <2>2, <2>3 DEF FileIsRight
<1>12. CASE step = "updateMetadata" /\ exp.store # "core"
  <2>1. t.file = target.file /\ t.meta = p.ver /\ t.left = (target.file = None)
    BY <1>12 DEF Effect
  <2>2. rest = <<>> /\ (p.ver = source => target.file \in {None, source})
    BY <1>12 DEF WorkIsRight
  <2>3. WritesTo(exp) = "temp" => target.file # Torn
    BY DEF FileIsRight
  <2> QED BY <1>2, <1>12, <2>1, <2>2, <2>3 DEF FileIsRight
<1> QED BY <1>4, <1>5, <1>6, <1>7, <1>8, <1>9, <1>10, <1>11, <1>12 DEF Steps

LEMMA GoodAfterStep ==
  ASSUME Good, NEW w \in Works, Step(w)
  PROVE  Good'
<1> SUFFICES ASSUME ~WentOn'
             PROVE  MetadataGoesFirst' /\ Sound'
  BY StructureAfterStep DEF Good
<1> DEFINE p == work[w]
           step == Head(p.todo)
           before == Before(p)
           rest == Remaining(p)
           next == Head(rest)
           r == [Read(p, step) EXCEPT !.todo = rest]
<1>1. Advance(w, p, step, rest, r)
  BY StepFacts
<1>2. /\ p = work[w] /\ step = Head(p.todo) /\ next = Head(rest)
      /\ before = Plan(exp)[Len(Plan(exp)) - Len(p.todo)]
  BY DEF Before
<1> HIDE DEF p, step, before, rest, next, r
<1>3. /\ p \in WorkInProgress /\ p.todo \in Seq(Steps) /\ p.todo # <<>> /\ RestOfPlan(p.todo)
      /\ step \in Steps /\ rest \in {<<>>, Tail(p.todo)}
      /\ Puttable(r) /\ r.todo = rest /\ r.undo = p.undo
      /\ step = "version" => r.ver = source /\ r.read = p.read
      /\ step \in {"probe", "write", "render"} => r.ver = p.ver /\ r.read = source
      /\ step \notin {"version", "probe", "write", "render"} => r.ver = p.ver /\ r.read = p.read
      /\ Put(w, r) /\ exp' = exp /\ source' = source
      /\ target' = IF Skipped(p) THEN target ELSE Does(w, step, target)
      /\ step = "rename" => target.temp # None
      /\ mishaps' = IF UndoHasBegun(w) THEN mishaps \cup {"overran"} ELSE mishaps
      /\ status' = status /\ removing' = removing
  BY <1>1 DEF Advance
<1>4. /\ exp \in Expectations /\ source \in 1 .. MaxVersion /\ target \in Package /\ w # None
      /\ RestIsWell /\ WorksAreKnown /\ Puttable(p) /\ target.meta <= source
      /\ WritesTo(exp) = "file" => target.temp = None
      /\ \A o \in Works : o # None
  BY <1>2, GoodFacts DEF WorksAreWell
<1>5. ~UndoHasBegun(w) /\ ~WentOn
  BY <1>3 DEF WentOn
<1>6. p # NoWork /\ Runs(w)
  BY <1>2, <1>3 DEF NoWork, Runs
<1>7. active = w /\ \A o \in Works \ {w} : work[o] = NoWork /\ ~Runs(o)
  BY <1>2, <1>5, <1>6, OneWork
<1>8. MetadataGoesFirst'
  <2>1. removing' = <<>>
    BY <1>3, <1>4, <1>7 DEF RestIsWell
  <2>2. p.undo = <<>> \/ p.undo = removePackage(exp)
    BY <1>2, <1>4, <1>5 DEF Puttable, UndoHasBegun
  <2>3. \A q \in Removals' : q = <<>> \/ q = removePackage(exp)
    <3>1. /\ work'[w] = r \/ work'[w] = NoWork
          /\ \A o \in Works \ {w} : work'[o] = NoWork
      BY <1>3, <1>7, PutFacts
    <3>2. NoWork.undo = <<>>
      BY DEF NoWork
    <3> QED BY <1>3, <2>1, <2>2, <3>1, <3>2 DEF Removals
  <2> QED BY <1>4, <2>3, RemovalRests DEF MetadataGoesFirst, Removals
<1>9. \A o \in Works \ {w} : ~Copies(o)
  BY <1>7 DEF Copies, Doing
<1>10. FileIsRight(target) /\ WorkIsRight(target, p, step, before)
  BY <1>2, <1>5, <1>6, SoundIsRight DEF before
<1>11. Around(p.todo, step, before)
  BY <1>2, <1>3, <1>4, PlanAround
<1>12. /\ step # "version" =>
            /\ step \in {"write", "copy", "unlink", "rename"} => exp.store # "core"
            /\ step = "copy" => before = "write"
            /\ step = "unlink" => before = "removeMetadata" \/ before = "copy"
            /\ step = "updateMetadata" => rest = <<>> /\ (exp.store = "core" => before = "probe")
       /\ rest # <<>> =>
            /\ next # "version"
            /\ next = "copy" => step = "write"
            /\ next = "rename" => step = "unlink" /\ before = "copy"
            /\ next = "updateMetadata" /\ exp.store # "core" =>
                 step = IF Renames(exp) THEN "rename" ELSE "copy"
  BY <1>2, <1>3, <1>11 DEF Around
<1>13. FileIsRight(target') /\ (rest # <<>> => WorkIsRight(target', r, next, step))
  <2>1. CASE Skipped(p)
    <3>1. target' = target /\ step = "updateMetadata"
      BY <1>2, <1>3, <2>1 DEF Skipped
    <3> QED BY <1>10, <1>12, <3>1
  <2>2. CASE ~Skipped(p)
    <3>1. Effect(w, step, target')
      BY <1>2, <1>3, <1>4, <2>2, EffectFacts
    <3>2. r.ver \in Nat /\ r.read \in Nat
      BY <1>3, Versions DEF Puttable, WorkInProgress
    <3>3. p.ver <= source /\ p.read <= source
      BY <1>4 DEF Puttable
    <3>4. StepTaken(w, p, step, before, next, rest, target', r)
      BY <1>2, <1>3, <1>4, <1>9, <1>12, <3>1, <3>2, <3>3 DEF StepTaken
    <3>5. StepIsRight(w, p, step, before, next, rest, target', r)
      BY <1>4, <1>10, <3>4, RightAfterStep
    <3> QED BY <3>5 DEF StepIsRight
  <2> QED BY <2>1, <2>2
<1>14. FileIsRight(target)'
  BY <1>3, <1>13 DEF FileIsRight
<1>15. \A o \in Works \ {w} : ~Runs(o)'
  BY <1>3, <1>7, PutFacts DEF Runs
<1>16. ASSUME Runs(w)'
       PROVE  WorkIsRight(target, work[w], Head(work[w].todo), Before(work[w]))'
  <2>1. work'[w] = r /\ rest # <<>>
    <3>1. NoWork.todo = <<>>
      BY DEF NoWork
    <3> QED BY <1>3, <1>16, <3>1, PutFacts DEF Runs
  <2>2. Before(work[w])' = step
    <3>1. /\ rest = Tail(p.todo) /\ Len(rest) = Len(p.todo) - 1
          /\ step = Plan(exp)[Len(Plan(exp)) - Len(p.todo) + 1]
          /\ Len(Plan(exp)) \in Nat /\ Len(p.todo) \in Nat
      <4>1. rest = Tail(p.todo)
        BY <1>3, <2>1
      <4>2. /\ Len(Tail(p.todo)) = Len(p.todo) - 1
            /\ step = Plan(exp)[Len(Plan(exp)) - Len(p.todo) + 1]
        BY <1>2, <1>3, <1>4, RestFacts
      <4>3. Len(Plan(exp)) \in Nat /\ Len(p.todo) \in Nat
        BY <1>3, <1>4, RestOfNothing
      <4> QED BY <4>1, <4>2, <4>3
    <3>2. Len(Plan(exp)) - Len(rest) = Len(Plan(exp)) - Len(p.todo) + 1
      <4>1. \A a, b \in Nat : a - (b - 1) = a - b + 1
        OBVIOUS
      <4> QED BY <3>1, <4>1
    <3> QED BY <1>3, <2>1, <3>1, <3>2 DEF Before
  <2>3. WorkIsRight(target', r, next, step)
    BY <1>13, <2>1
  <2>4. Head(work'[w].todo) = next
    BY <1>2, <1>3, <2>1
  <2> QED BY <1>3, <2>1, <2>2, <2>3, <2>4 DEF WorkIsRight
<1>17. Sound'
  BY <1>3, <1>4, <1>14, <1>15, <1>16, RightIsSound
<1> QED BY <1>8, <1>17

-----------------------------------------------------------------------------
(* The theorems *)

LEMMA InitIsGood ==
  ASSUME Init
  PROVE  Good
<1>1. /\ target = [file |-> None, temp |-> None, meta |-> None, due |-> "no", left |-> FALSE]
      /\ source = 1 /\ exp \in Expectations /\ work = [w \in Works |-> NoWork]
      /\ \A w \in Works : work[w] = NoWork
  BY DEF Init
<1>2. 1 \in 1 .. MaxVersion /\ target \in Package /\ target.meta <= source
  BY <1>1, Versions DEF Package
<1>3. RestIsWell
  BY WorksAssumption DEF Init, RestIsWell, RestsOfRemoval
<1>4. /\ NoWork \in WorkInProgress /\ NoWork.ver = None /\ NoWork.read = None
      /\ NoWork.undo = <<>> /\ NoWork.todo = <<>>
  BY WorksAssumption DEF NoWork, WorkInProgress, None
<1>5. WorksAreKnown
  BY <1>1, <1>4 DEF Init, WorksAreKnown
<1>6. TypeOK
  <2>1. \A w \in Works : work[w].ver \in None .. MaxVersion /\ work[w].read \in None .. MaxVersion
    BY <1>1, <1>4, Versions
  <2>2. active = None
    BY DEF Init
  <2>3. source \in 1 .. MaxVersion /\ exp \in Expectations /\ target \in Package
    BY <1>1, <1>2
  <2> QED BY ONLY <1>3, <2>1, <2>2, <2>3 DEF TypeOK, RestIsWell
<1>7. WorksGoOn
  BY <1>1, <1>3, <1>4, RestOfNothing DEF WorksGoOn, RestIsWell, RestsOfRemoval
<1>8. NothingIsAhead
  BY <1>1, <1>2, <1>4, Versions DEF NothingIsAhead
<1>9. MetadataGoesFirst
  BY <1>1, <1>4 DEF Init, MetadataGoesFirst
<1>10. Sound
  <2>1. \A w \in Works : ~Runs(w)
    BY <1>1, <1>4 DEF Runs
  <2>2. target.meta # source /\ target.file # source /\ target.file # Torn
    BY <1>1, Versions
  <2>3. LostIsKnown /\ NothingTornInPlace
    BY <2>2 DEF LostIsKnown, NothingTornInPlace
  <2>4. WorksOnTheUnfulfilled /\ CopiesAreOfTheirVersion
    BY <2>1 DEF WorksOnTheUnfulfilled, CopiesAreOfTheirVersion, CopyIsOfItsVersion
  <2>5. ~Fulfilled
    BY <1>1, <2>2, HandlerFacts, FulfilledFacts
  <2> QED BY <2>3, <2>4, <2>5 DEF Sound, FulfilledIsComplete
<1> QED BY <1>5, <1>6, <1>7, <1>8, <1>9, <1>10 DEF Good, Structure

LEMMA NextKeepsGood ==
  ASSUME Good, [Next]_vars
  PROVE  Good'
<1>1. CASE UNCHANGED vars
  <2>1. UNCHANGED <<exp, source, target, cron, reachable, work, upsets, mishaps>> /\ UNCHANGED manager
    BY <1>1 DEF vars
  <2>2. UNCHANGED <<active, wanted, status, removing>>
    BY <2>1 DEF manager
  <2>3. WorksAreWell'
    BY <2>1, <2>2, GoodFacts, SameWorks
  <2>4. RestIsWell'
    BY <2>1, <2>2, GoodFacts DEF RestIsWell
  <2>5. Loses /\ WorksStayOrEnd /\ Removals' = Removals
    BY <2>1, <2>2, NothingLost DEF WorksStayOrEnd, Removals
  <2> QED BY <2>1, <2>2, <2>3, <2>4, <2>5, LosesKeepsGood
<1>2. CASE Next
  <2>1. CASE \E w \in Works : Step(w)
    BY <2>1, GoodAfterStep
  <2>2. CASE \E w \in Works : Throws(w) \/ Fails(w)
    BY <2>2, GoodAfterEnd
  <2>3. CASE \E w \in Works : Undo(w)
    BY <2>3, GoodAfterUndo
  <2>4. CASE \E w \in Works : CancelEnds(w)
    BY <2>4, GoodAfterCancelEnds
  <2>5. CASE \E w \in Works : Cancel(w)
    BY <2>5, GoodAfterCancel
  <2>6. CASE \E w \in Works : workOnExpectation(w)
    BY <2>6, GoodAfterWorkOnExpectation
  <2>7. CASE RemoveStep
    BY <2>7, GoodAfterRemoveStep
  <2>8. CASE SourceChanges
    BY <2>8, GoodAfterSourceChanges
  <2>9. CASE Crash
    BY <2>9, GoodAfterCrash
  <2>10. CASE FoundUnfulfilled \/ UnlinkDue \/ RemoveDueMetadata \/ ForgetDue \/ FileIsLost
    BY <2>10, GoodAfterLoss
  <2>11. CASE FoundFulfilled \/ Unwanted \/ removeExpectation \/ WantedAgain
                \/ Unreachable \/ ReachableAgain \/ ListDue \/ DueNow \/ DueThrows
                \/ IsRemoved \/ RemoveThrows
    BY <2>11, GoodAfterManager
  <2>12. CASE \E w \in Works :
                /\ WriteFails(w)
                /\ upsets' = upsets \/ (upsets < MaxUpsets /\ upsets' = upsets + 1)
    BY <2>12, GoodAfterWriteFails
  <2> QED BY <1>2, <2>1, <2>2, <2>3, <2>4, <2>5, <2>6, <2>7, <2>8, <2>9, <2>10, <2>11, <2>12
          DEF Next, Manager, Cron, Worker
<1> QED BY <1>1, <1>2

LEMMA AlwaysGood == Spec => []Good
<1>1. Init => Good
  BY InitIsGood
<1>2. Good /\ [Next]_vars => Good'
  BY NextKeepsGood
<1> QED BY <1>1, <1>2, PTL DEF Spec

\* Whatever the manager is told is fulfilled is a whole copy of the source as it is now.
THEOREM FulfilledIsWhole == Spec => []FulfilledIsComplete
<1>1. Good => FulfilledIsComplete
  BY DEF Good, Sound, FulfilledIsComplete, WentOn
<1> QED BY <1>1, AlwaysGood, PTL

\* The types; and where there is a temporary file, and it is heeded, what is in place is never
\* a file that is being written, as long as no work goes on after its cancellation or after the
\* failure of its stream.
THEOREM NeverTornInPlace == Spec => []FileWorkInv
<1>1. Good => FileWorkInv
  <2>1. ASSUME Good
        PROVE  TypeOK /\ TemporaryFirst
    <3>1. exp \in Expectations /\ TypeOK
      BY <2>1, GoodFacts DEF Structure
    <3>2. Renames(exp) /\ ~IgnoresTemporary(exp) => WritesTo(exp) = "temp"
      BY <3>1, HeededFacts
    <3> QED BY <2>1, <3>1, <3>2 DEF Good, Sound, NothingTornInPlace, TemporaryFirst
  <2> QED BY <2>1 DEF FileWorkInv
<1> QED BY <1>1, AlwaysGood, PTL
=============================================================================
