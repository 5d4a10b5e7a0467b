------------------------ MODULE StatusReport_proofs -------------------------
(***************************************************************************)
(* Theorems about StatusReport.tla, for any keys, values and faults: the   *)
(* inductive invariant IInv, and from it that no report is forgotten, that *)
(* the status of the device in Core is the present one, and, when nothing  *)
(* is reported before Core has been cleaned, that Core has what was        *)
(* reported.                                                               *)
(***************************************************************************)
EXTENDS StatusReport, SequenceTheorems, TLAPS

(* The kinds divide the keys. *)
LEMMA KindsFacts ==
  /\ Len(Kinds) = 3 /\ DOMAIN Kinds = 1 .. 3
  /\ Kinds[1] = ExpectationKeys /\ Kinds[2] = PackageKeys /\ Kinds[3] = ContainerKeys
  /\ \A j \in 1 .. 3 : Kinds[j] \subseteq Keys
  /\ \A i, j \in 1 .. 3 : \A k \in Kinds[i] : k \in Kinds[j] => i = j
  /\ \A k \in Keys : \E j \in 1 .. 3 : k \in Kinds[j]
<1>1. Len(Kinds) = 3 /\ DOMAIN Kinds = 1 .. 3
  BY DEF Kinds
<1>2. Kinds[1] = ExpectationKeys /\ Kinds[2] = PackageKeys /\ Kinds[3] = ContainerKeys
  BY DEF Kinds
<1>3. \A j \in 1 .. 3 : j = 1 \/ j = 2 \/ j = 3
  OBVIOUS
<1>4. \A j \in 1 .. 3 : Kinds[j] \subseteq Keys
  BY <1>2, <1>3 DEF Keys
<1>5. \A i, j \in 1 .. 3 : \A k \in Kinds[i] : k \in Kinds[j] => i = j
  BY <1>2, <1>3, KeysAssumption
<1>6. \A k \in Keys : \E j \in 1 .. 3 : k \in Kinds[j]
  BY <1>2, <1>3 DEF Keys
<1> QED BY <1>1, <1>2, <1>4, <1>5, <1>6

-----------------------------------------------------------------------------
(* The calls which Core has not answered *)

\* One of the calls is of the type; the calls but those with the device's status are
\* one of each type; the last of those is the given one.
Has(cs, type) == \E i \in DOMAIN cs : cs[i].type = type

OneOfEach(cs) ==
  \A i, j \in DOMAIN cs : cs[i].type = cs[j].type => i = j \/ cs[i].type = "setStatus"

LastIs(cs, status) ==
  \A i \in DOMAIN cs :
    cs[i].type = "setStatus" /\ (\A j \in DOMAIN cs : j > i => cs[j].type # "setStatus")
    => cs[i].status = status

(* What a call at the end changes. *)
LEMMA AppendCall ==
  ASSUME NEW cs \in Seq(Call), NEW c \in Call
  PROVE  /\ Append(cs, c) \in Seq(Call)
         /\ \A type : Has(Append(cs, c), type) <=> Has(cs, type) \/ c.type = type
         /\ OneOfEach(cs) /\ (c.type = "setStatus" \/ ~Has(cs, c.type))
              => OneOfEach(Append(cs, c))
         /\ c.type = "setStatus" => LastIs(Append(cs, c), c.status)
         /\ \A status : c.type # "setStatus" /\ LastIs(cs, status)
              => LastIs(Append(cs, c), status)
<1> DEFINE n == Len(cs)
           as == Append(cs, c)
<1>1. /\ n \in Nat /\ DOMAIN cs = 1 .. n /\ DOMAIN as = 1 .. (n + 1) /\ as \in Seq(Call)
      /\ \A i \in 1 .. n : as[i] = cs[i]
      /\ as[n + 1] = c
  BY AppendProperties, LenProperties
<1> HIDE DEF n, as
<1>2. \A i \in 1 .. (n + 1) : i \in 1 .. n \/ i = n + 1
  BY <1>1
<1>3. \A i \in 1 .. n : i \in 1 .. (n + 1) /\ ~(i > n + 1) /\ n + 1 > i /\ i # n + 1
  BY <1>1
<1>4. n + 1 \in 1 .. (n + 1)
  BY <1>1
<1>5. \A type : Has(as, type) <=> Has(cs, type) \/ c.type = type
  BY <1>1, <1>2, <1>3, <1>4 DEF Has
<1>6. OneOfEach(cs) /\ (c.type = "setStatus" \/ ~Has(cs, c.type)) => OneOfEach(as)
  BY <1>1, <1>2, <1>3, <1>4 DEF OneOfEach, Has
<1>7. c.type = "setStatus" => LastIs(as, c.status)
  BY <1>1, <1>2, <1>3, <1>4 DEF LastIs
<1>8. \A status : c.type # "setStatus" /\ LastIs(cs, status) => LastIs(as, status)
  BY <1>1, <1>2, <1>3, <1>4 DEF LastIs
<1> QED BY <1>1, <1>5, <1>6, <1>7, <1>8 DEF as

(* What is left when the first call has been answered. *)
LEMMA TailCall ==
  ASSUME NEW cs \in Seq(Call), cs # <<>>
  PROVE  /\ Tail(cs) \in Seq(Call) /\ Head(cs) \in Call
         /\ \A type : Has(cs, type) <=> Head(cs).type = type \/ Has(Tail(cs), type)
         /\ OneOfEach(cs) => /\ OneOfEach(Tail(cs))
                             /\ Head(cs).type # "setStatus" => ~Has(Tail(cs), Head(cs).type)
         /\ \A status : LastIs(cs, status) =>
              /\ LastIs(Tail(cs), status)
              /\ Head(cs).type = "setStatus" /\ ~Has(Tail(cs), "setStatus")
                   => Head(cs).status = status
<1> DEFINE n == Len(Tail(cs))
           ts == Tail(cs)
<1>1. /\ n \in Nat /\ DOMAIN ts = 1 .. n /\ DOMAIN cs = 1 .. (n + 1)
      /\ ts \in Seq(Call) /\ Head(cs) \in Call /\ Head(cs) = cs[1]
      /\ \A i \in 1 .. n : ts[i] = cs[i + 1]
  BY HeadTailProperties, LenProperties, EmptySeq
<1> HIDE DEF n, ts
<1>2. ASSUME NEW i \in 1 .. (n + 1), i # 1
      PROVE  i - 1 \in 1 .. n /\ cs[i] = ts[i - 1]
  <2>1. i - 1 \in 1 .. n /\ (i - 1) + 1 = i
    BY <1>1, <1>2
  <2> QED BY <2>1, <1>1
<1>3. ASSUME NEW i \in 1 .. n
      PROVE  i + 1 \in 1 .. (n + 1) /\ i + 1 > 1 /\ i + 1 # 1 /\ cs[i + 1] = ts[i]
  BY <1>1
<1>4. 1 \in 1 .. (n + 1)
  BY <1>1
<1>5. ASSUME NEW type
      PROVE  Has(cs, type) <=> Head(cs).type = type \/ Has(ts, type)
  <2>1. Has(cs, type) => Head(cs).type = type \/ Has(ts, type)
    BY <1>1, <1>2 DEF Has
  <2>2. Head(cs).type = type \/ Has(ts, type) => Has(cs, type)
    BY <1>1, <1>3, <1>4 DEF Has
  <2> QED BY <2>1, <2>2
<1>6. ASSUME OneOfEach(cs)
      PROVE  OneOfEach(ts) /\ (Head(cs).type # "setStatus" => ~Has(ts, Head(cs).type))
  <2>1. ASSUME NEW i \in 1 .. n, NEW j \in 1 .. n, ts[i].type = ts[j].type
        PROVE  i = j \/ ts[i].type = "setStatus"
    <3>1. i + 1 \in 1 .. (n + 1) /\ j + 1 \in 1 .. (n + 1) /\ cs[i + 1].type = cs[j + 1].type
      BY <2>1, <1>3
    <3>2. i + 1 = j + 1 \/ ts[i].type = "setStatus"
      BY <3>1, <1>1, <1>3, <1>6 DEF OneOfEach
    <3> QED BY <3>2, <1>1
  <2>2. ASSUME Head(cs).type # "setStatus", NEW i \in 1 .. n, ts[i].type = Head(cs).type
        PROVE  FALSE
    BY <2>2, <1>1, <1>3, <1>4, <1>6 DEF OneOfEach
  <2> QED BY <2>1, <2>2, <1>1 DEF OneOfEach, Has
<1>7. ASSUME NEW status, LastIs(cs, status)
      PROVE  /\ LastIs(ts, status)
             /\ Head(cs).type = "setStatus" /\ ~Has(ts, "setStatus") => Head(cs).status = status
  <2>1. LastIs(ts, status)
    <3> SUFFICES ASSUME NEW i \in 1 .. n, ts[i].type = "setStatus",
                        \A j \in 1 .. n : j > i => ts[j].type # "setStatus"
                 PROVE  ts[i].status = status
      BY <1>1 DEF LastIs
    <3>1. ASSUME NEW j \in 1 .. (n + 1), j > i + 1
          PROVE  cs[j].type # "setStatus"
      <4>1. j # 1 /\ j - 1 > i
        BY <3>1, <1>1
      <4> QED BY <4>1, <1>2
    <3> QED BY SMTT(30), <3>1, <1>1, <1>3, <1>7 DEF LastIs
  <2>2. ASSUME Head(cs).type = "setStatus", ~Has(ts, "setStatus")
        PROVE  Head(cs).status = status
    <3>1. ASSUME NEW j \in 1 .. (n + 1), j > 1
          PROVE  cs[j].type # "setStatus"
      <4>1. j # 1
        BY <3>1
      <4> QED BY <4>1, <1>1, <1>2, <2>2 DEF Has
    <3> QED BY <3>1, <2>2, <1>1, <1>4, <1>7 DEF LastIs
  <2> QED BY <2>1, <2>2
<1> QED BY <1>1, <1>5, <1>6, <1>7 DEF ts

-----------------------------------------------------------------------------
(* What is to be sent *)

\* The entry holds a change of what was reported.
Changed(k, entries, base) ==
  /\ entries[k] # Null /\ ~entries[k].sent
  /\ entries[k].status # Null \/ base[k] # Null

(* The changes of a kind are those of its changed entries. *)
LEMMA ChangesFacts ==
  ASSUME NEW kind, NEW entries, NEW base
  PROVE  /\ \A k : k \in DOMAIN ChangesOf(kind, entries, base)
                     <=> k \in kind /\ Changed(k, entries, base)
         /\ \A k \in kind : Changed(k, entries, base) =>
              ChangesOf(kind, entries, base)[k] = [status |-> entries[k].status, base |-> base[k]]
BY DEF ChangesOf, Changed

LEMMA PendingFacts ==
  \A k \in Keys : /\ Pending(k) <=> Changed(k, toReport, reported)
                  /\ Pending(k)' <=> Changed(k, toReport', reported')
<1>1. \A k \in Keys : Pending(k) <=> Changed(k, toReport, reported)
  BY ChangesFacts DEF Pending
<1>2. \A k \in Keys : Pending(k)' <=> Changed(k, toReport', reported')
  BY ChangesFacts DEF Pending
<1> QED BY <1>1, <1>2

(* A run ends when no kind that is left has changes, and sends the next of them      *)
(* otherwise.                                                                        *)
LEMMA SendFacts ==
  ASSUME NEW i \in 1 .. 4, NEW entries, NEW base, NEW remaining,
         SendFrom(i, entries, base, remaining)
  PROVE  \/ /\ EndRun("ok", entries, remaining)
            /\ \A j \in i .. 3 : \A k \in Kinds[j] : ~Changed(k, entries, base)
         \/ \E n \in i .. 3 :
              /\ batch' = [kind |-> n, changes |-> ChangesOf(Kinds[n], entries, base),
                           latest |-> DOMAIN ChangesOf(Kinds[n], entries, base), old |-> FALSE]
              /\ calls' = Append(remaining, [type |-> "update"])
              /\ sendTimer' = FALSE /\ UNCHANGED <<runAgain, lastRun, deviceReported>>
              /\ DOMAIN ChangesOf(Kinds[n], entries, base) # {}
              /\ \A j \in i .. 3 : j < n => \A k \in Kinds[j] : ~Changed(k, entries, base)
<1> DEFINE C(j) == ChangesOf(Kinds[j], entries, base)
           withChanges == {j \in i .. Len(Kinds) : DOMAIN C(j) # {}}
           next == CHOOSE j \in withChanges : \A l \in withChanges : j <= l
<1>1. withChanges = {j \in i .. 3 : DOMAIN C(j) # {}}
  BY KindsFacts
<1>2. \A j \in i .. 3 : DOMAIN C(j) = {} => \A k \in Kinds[j] : ~Changed(k, entries, base)
  BY ChangesFacts
<1>3. CASE withChanges = {}
  <2>1. EndRun("ok", entries, remaining)
    BY <1>3 DEF SendFrom
  <2> QED BY <2>1, <1>1, <1>2, <1>3
<1>4. CASE withChanges # {}
  <2>1. /\ batch' = [kind |-> next, changes |-> C(next), latest |-> DOMAIN C(next), old |-> FALSE]
        /\ calls' = Append(remaining, [type |-> "update"])
        /\ sendTimer' = FALSE /\ UNCHANGED <<runAgain, lastRun, deviceReported>>
    BY <1>4 DEF SendFrom
  <2>2. \E j \in withChanges : \A l \in withChanges : j <= l
    <3> HIDE DEF C
    <3>1. \A l \in withChanges : l = 1 \/ l = 2 \/ l = 3
      BY <1>1
    <3> HIDE DEF withChanges
    <3> QED BY <3>1, <1>4
  <2>3. next \in withChanges /\ \A l \in withChanges : next <= l
    BY <2>2
  <2> HIDE DEF next
  <2>4. next \in i .. 3 /\ DOMAIN C(next) # {}
    BY <2>3, <1>1
  <2>5. \A j \in i .. 3 : j < next => DOMAIN C(j) = {}
    <3> SUFFICES ASSUME NEW j \in i .. 3, j < next, DOMAIN C(j) # {}
                 PROVE  FALSE
      OBVIOUS
    <3>1. j \in withChanges
      BY <1>1
    <3>2. next <= j
      BY <3>1, <2>3
    <3> QED BY <3>2, <2>4
  <2> QED BY <2>1, <2>4, <2>5, <1>2
<1> QED BY <1>3, <1>4

-----------------------------------------------------------------------------
(* The invariant, read for one component at a time *)

(* What the type invariant says of an entry. *)
LEMMA EntryFacts ==
  ASSUME NEW k \in Keys, NEW e \in Entry(k)
  PROVE  /\ e # Null /\ e.status \in Status(k) \cup {Null} /\ e.sent \in BOOLEAN
         /\ [e EXCEPT !.sent = TRUE] \in Entry(k)
         /\ [e EXCEPT !.sent = TRUE].sent
         /\ [e EXCEPT !.sent = TRUE].status = e.status
<1>1. e # Null
  BY NullAssumption
<1>2. e.status \in Status(k) \cup {Null} /\ e.sent \in BOOLEAN
  BY DEF Entry
<1>3. DOMAIN e = {"status", "sent"}
  BY DEF Entry
<1>4. [e EXCEPT !.sent = TRUE] \in Entry(k)
  BY DEF Entry
<1>5. [e EXCEPT !.sent = TRUE].sent /\ [e EXCEPT !.sent = TRUE].status = e.status
  BY <1>3
<1> QED BY <1>1, <1>2, <1>4, <1>5

LEMMA NewEntryFacts ==
  ASSUME NEW k \in Keys, NEW status \in Status(k) \cup {Null}
  PROVE  /\ [status |-> status, sent |-> FALSE] \in Entry(k)
         /\ [status |-> status, sent |-> FALSE] # Null
<1>1. [status |-> status, sent |-> FALSE] \in Entry(k)
  BY DEF Entry
<1> QED BY <1>1, NullAssumption

(* The status of the device is one whose parts are not good. *)
LEMMA DeviceStatusType ==
  ASSUME NEW entries, managerStatus \in Values,
         \A k \in Keys : entries[k] \in Entry(k) \cup {Null}
  PROVE  DeviceStatus(entries) \in DeviceStatuses
<1>1. ASSUME NEW k \in ContainerKeys, entries[k] # Null, entries[k].status # Null
      PROVE  entries[k].status["status"] \in Values
  <2>1. k \in Keys
    BY DEF Keys
  <2>2. entries[k].status \in Status(k)
    BY <2>1, <1>1, EntryFacts
  <2>3. "status" \in Fields(k)
    BY DEF Fields
  <2> QED BY <2>2, <2>3 DEF Status
<1>2. \A x \in DeviceStatus(entries) : x \in (ContainerKeys \cup {"manager"}) \X Values
  BY <1>1 DEF DeviceStatus
<1> QED BY <1>2 DEF DeviceStatuses

(* The three parts of the invariant that are about the calls, in terms of the        *)
(* sequence of calls.                                                                *)
LEMMA CallFacts ==
  /\ OneCallEach <=> /\ Has(calls, "update") <=> Running
                     /\ Has(calls, "clean") <=> cleaning # <<>>
                     /\ OneOfEach(calls)
  /\ DeviceCallsAreInOrder <=>
       /\ LastIs(calls, deviceReported)
       /\ ~Has(calls, "setStatus") /\ "device" \notin unsure => coreDevice = deviceReported
BY DEF Called, Has, OneCallEach, OneOfEach, DeviceCallsAreInOrder, LastIs

LEMMA NextCallFacts ==
  /\ OneCallEach' <=> /\ Has(calls', "update") <=> Running'
                      /\ Has(calls', "clean") <=> cleaning' # <<>>
                      /\ OneOfEach(calls')
  /\ DeviceCallsAreInOrder' <=>
       /\ LastIs(calls', deviceReported')
       /\ ~Has(calls', "setStatus") /\ "device" \notin unsure' => coreDevice' = deviceReported'
BY DEF Called, Has, OneCallEach, OneOfEach, DeviceCallsAreInOrder, LastIs


\* What the type invariant says of the batch.
BatchTypeOK ==
  /\ batch \in Batch \cup {Null}
  /\ Running => /\ DOMAIN batch.changes \subseteq Kinds[batch.kind] /\ DOMAIN batch.changes # {}
                /\ \A k \in DOMAIN batch.changes : batch.changes[k] \in Change(k)
                /\ batch.latest \subseteq DOMAIN batch.changes

(* The changes of a kind make a batch. *)
LEMMA NewBatch ==
  ASSUME NEW n \in 1 .. 3, NEW entries, NEW base,
         \A k \in Keys : entries[k] \in Entry(k) \cup {Null} /\ base[k] \in Status(k) \cup {Null},
         DOMAIN ChangesOf(Kinds[n], entries, base) # {},
         batch' = [kind |-> n, changes |-> ChangesOf(Kinds[n], entries, base),
                   latest |-> DOMAIN ChangesOf(Kinds[n], entries, base), old |-> FALSE]
  PROVE  BatchTypeOK' /\ Running'
<1> DEFINE C == ChangesOf(Kinds[n], entries, base)
           D == DOMAIN C
<1>1. D \subseteq Kinds[n] /\ D \subseteq Keys
  BY ChangesFacts, KindsFacts
<1>2. ASSUME NEW k \in D
      PROVE  k \in Keys /\ C[k] \in Change(k)
  <2>1. k \in Kinds[n] /\ Changed(k, entries, base) /\ k \in Keys
    BY <1>1, ChangesFacts
  <2>2. C[k] = [status |-> entries[k].status, base |-> base[k]]
    BY <2>1, ChangesFacts
  <2>3. entries[k] \in Entry(k)
    BY <2>1 DEF Changed
  <2>4. entries[k].status \in Status(k) \cup {Null} /\ base[k] \in Status(k) \cup {Null}
    BY <2>1, <2>3, EntryFacts
  <2> HIDE DEF C
  <2> QED BY <2>1, <2>2, <2>4 DEF Change
<1>3. C = [k \in D |-> C[k]]
  BY DEF ChangesOf
<1> HIDE DEF C
<1>4. C \in [D -> UNION {Change(k) : k \in Keys}]
  BY <1>2, <1>3
<1>5. batch'.kind = n /\ batch'.changes = C /\ batch'.latest = D
  BY DEF C
<1>6. batch' \in Batch
  BY <1>1, <1>4, KindsFacts DEF Batch, C
<1>7. Running'
  BY <1>6, NullAssumption DEF Running
<1> QED BY <1>1, <1>2, <1>5, <1>6, <1>7 DEF BatchTypeOK, C

-----------------------------------------------------------------------------
(* A run goes on *)

(* When what a run does not reach any more makes it run again, it either sends the   *)
(* next changes, or ends with the status of the device; what waits, the changes and  *)
(* the calls then agree.                                                             *)
LEMMA RunGoesOn ==
  ASSUME NEW i \in 1 .. 4, NEW entries, NEW base, NEW remaining \in Seq(Call),
         SendFrom(i, entries, base, remaining),
         toReport' = entries, reported' = base, managerStatus' = managerStatus,
         managerStatus \in Values, runAgain \in BOOLEAN, deviceReported \in DeviceStatuses,
         lastRun \in {"ok", "failed"},
         \A k \in Keys : entries[k] \in Entry(k) \cup {Null} /\ base[k] \in Status(k) \cup {Null},
         ~Has(remaining, "update"), Has(remaining, "clean") <=> cleaning' # <<>>,
         OneOfEach(remaining), LastIs(remaining, deviceReported),
         \A k \in Keys : Changed(k, entries, base) => runAgain \/ \E j \in i .. 3 : k \in Kinds[j]
  PROVE  /\ sendTimer' \in BOOLEAN /\ runAgain' \in BOOLEAN /\ lastRun' \in {"ok", "failed"}
         /\ BatchTypeOK' /\ calls' \in Seq(Call) /\ deviceReported' \in DeviceStatuses
         /\ OneCallEach' /\ OneRun' /\ BatchIsOfEntries' /\ NothingIsSkipped'
         /\ LastIs(calls', deviceReported')
         /\ \/ Has(calls', "setStatus")
            \/ ~Has(remaining, "setStatus") /\ deviceReported' = deviceReported
         /\ DeviceIsFollowed'
         /\ Running' => /\ ~batch'.old
                        /\ \A k \in DOMAIN batch'.changes : batch'.changes[k].base = reported'[k]
<1>1. CASE /\ EndRun("ok", entries, remaining)
           /\ \A j \in i .. 3 : \A k \in Kinds[j] : ~Changed(k, entries, base)
  <2> DEFINE status == DeviceStatus(entries)
  <2>1. /\ batch' = Null /\ lastRun' = "ok" /\ sendTimer' = runAgain /\ runAgain' = FALSE
        /\ IF status # deviceReported
             THEN /\ deviceReported' = status
                  /\ calls' = Append(remaining, [type |-> "setStatus", status |-> status])
             ELSE calls' = remaining /\ deviceReported' = deviceReported
    BY <1>1 DEF EndRun
  <2>2. status \in DeviceStatuses
    BY DeviceStatusType
  <2>3. DeviceStatus(toReport)' = status
    BY DEF DeviceStatus
  <2> HIDE DEF status
  <2>4. ~Running' /\ BatchTypeOK' /\ BatchIsOfEntries' /\ OneRun'
    BY <2>1 DEF Running, BatchTypeOK, BatchIsOfEntries, OneRun
  <2>5. deviceReported' = status /\ DeviceIsFollowed'
    BY <2>1, <2>3 DEF DeviceIsFollowed
  <2>6. NothingIsSkipped'
    <3> SUFFICES ASSUME NEW k \in Keys, Pending(k)'
                 PROVE  sendTimer'
      BY <2>4 DEF NothingIsSkipped
    <3>1. Changed(k, entries, base)
      BY PendingFacts
    <3> QED BY <3>1, <1>1, <2>1
  <2>7. /\ calls' \in Seq(Call) /\ ~Has(calls', "update") /\ OneOfEach(calls')
        /\ Has(calls', "clean") <=> cleaning' # <<>>
        /\ LastIs(calls', deviceReported')
        /\ \/ Has(calls', "setStatus")
           \/ ~Has(remaining, "setStatus") /\ deviceReported' = deviceReported
    <3>1. CASE status # deviceReported
      <4> DEFINE c == [type |-> "setStatus", status |-> status]
      <4>1. c \in Call /\ c.type = "setStatus" /\ c.status = status
        BY <2>2 DEF Call
      <4> HIDE DEF c
      <4>2. calls' = Append(remaining, c)
        BY <2>1, <3>1 DEF c
      <4>3. /\ calls' \in Seq(Call) /\ OneOfEach(calls') /\ LastIs(calls', status)
            /\ \A type : Has(calls', type) <=> Has(remaining, type) \/ type = "setStatus"
        BY <4>1, <4>2, AppendCall
      <4> QED BY <4>3, <2>5
    <3>2. CASE status = deviceReported
      BY <3>2, <2>1
    <3> QED BY <3>1, <3>2
  <2>8. OneCallEach'
    BY <2>4, <2>7, NextCallFacts
  <2> QED BY <2>1, <2>2, <2>4, <2>5, <2>6, <2>7, <2>8
<1>2. ASSUME NEW n \in i .. 3,
             batch' = [kind |-> n, changes |-> ChangesOf(Kinds[n], entries, base),
                       latest |-> DOMAIN ChangesOf(Kinds[n], entries, base), old |-> FALSE],
             calls' = Append(remaining, [type |-> "update"]),
             sendTimer' = FALSE /\ UNCHANGED <<runAgain, lastRun, deviceReported>>,
             DOMAIN ChangesOf(Kinds[n], entries, base) # {},
             \A j \in i .. 3 : j < n => \A k \in Kinds[j] : ~Changed(k, entries, base)
      PROVE  /\ BatchTypeOK' /\ calls' \in Seq(Call)
             /\ OneCallEach' /\ OneRun' /\ BatchIsOfEntries' /\ NothingIsSkipped'
             /\ LastIs(calls', deviceReported')
             /\ \/ Has(calls', "setStatus")
                \/ ~Has(remaining, "setStatus") /\ deviceReported' = deviceReported
             /\ DeviceIsFollowed'
             /\ ~batch'.old
             /\ \A k \in DOMAIN batch'.changes : batch'.changes[k].base = reported'[k]
  <2> DEFINE C == ChangesOf(Kinds[n], entries, base)
  <2>1. n \in 1 .. 3
    OBVIOUS
  <2>2. BatchTypeOK' /\ Running'
    BY <1>2, <2>1, NewBatch
  <2>3. batch'.kind = n /\ batch'.changes = C /\ batch'.latest = DOMAIN C /\ ~batch'.old
    BY <1>2
  <2>4. \A k \in DOMAIN C : /\ k \in Kinds[n] /\ Changed(k, entries, base)
                            /\ C[k].status = entries[k].status /\ C[k].base = base[k]
    <3>1. \A k \in DOMAIN C : /\ k \in Kinds[n] /\ Changed(k, entries, base)
                              /\ C[k] = [status |-> entries[k].status, base |-> base[k]]
      BY SMTT(30), ChangesFacts
    <3> HIDE DEF C
    <3> QED BY <3>1
  <2> HIDE DEF C
  <2>5. BatchIsOfEntries'
    BY <2>3, <2>4 DEF BatchIsOfEntries, Changed
  <2>6. OneRun' /\ DeviceIsFollowed'
    BY <1>2, <2>2 DEF OneRun, DeviceIsFollowed
  <2>7. NothingIsSkipped'
    <3> SUFFICES ASSUME NEW k \in Keys, Pending(k)', ~runAgain
                 PROVE  k \in DOMAIN C \/ \E j \in 1 .. 3 : j > n /\ k \in Kinds[j]
      BY <1>2, <2>2, <2>3, KindsFacts DEF NothingIsSkipped
    <3>1. Changed(k, entries, base)
      BY PendingFacts
    <3>2. PICK j \in i .. 3 : k \in Kinds[j]
      BY <3>1
    <3>3. j = n \/ j > n
      BY <3>1, <3>2, <1>2
    <3>4. j = n => k \in DOMAIN C
      BY <3>1, <3>2, ChangesFacts DEF C
    <3> QED BY <3>2, <3>3, <3>4
  <2>8. /\ calls' \in Seq(Call) /\ Has(calls', "update") /\ OneOfEach(calls')
        /\ Has(calls', "clean") <=> cleaning' # <<>>
        /\ LastIs(calls', deviceReported')
        /\ Has(calls', "setStatus") <=> Has(remaining, "setStatus")
    <3> DEFINE c == [type |-> "update"]
    <3>1. c \in Call /\ c.type = "update"
      BY DEF Call
    <3>2. calls' = Append(remaining, c) /\ deviceReported' = deviceReported
      BY <1>2
    <3> HIDE DEF c
    <3> QED BY <3>1, <3>2, AppendCall
  <2>9. OneCallEach'
    BY <2>2, <2>8, NextCallFacts
  <2> QED BY <1>2, <2>2, <2>3, <2>4, <2>5, <2>6, <2>7, <2>8, <2>9
<1> QED BY ZenonT(30), <1>1, <1>2, SendFacts

-----------------------------------------------------------------------------
(* What Core has *)

\* The types of the statuses.
StatusTypeOK(s) == DOMAIN s = Keys /\ \A k \in Keys : s[k] \in Status(k) \cup {Null}
EntryTypeOK == DOMAIN toReport = Keys /\ \A k \in Keys : toReport[k] \in Entry(k) \cup {Null}

LEMMA TypeParts ==
  /\ ReportTypeOK <=> /\ EntryTypeOK /\ StatusTypeOK(reported) /\ StatusTypeOK(core)
                /\ managerStatus \in Values
                /\ sendTimer \in BOOLEAN /\ runAgain \in BOOLEAN /\ connected \in BOOLEAN
                /\ BatchTypeOK
                /\ cleaning \in Seq(SUBSET Keys) /\ Len(cleaning) \in 0 .. 3
                /\ calls \in Seq(Call)
                /\ deviceReported \in DeviceStatuses /\ coreDevice \in DeviceStatuses
                /\ lastRun \in {"ok", "failed"} /\ unsure \subseteq Keys \cup {"device"}
  /\ ReportTypeOK' <=> /\ EntryTypeOK' /\ StatusTypeOK(reported') /\ StatusTypeOK(core')
                 /\ managerStatus' \in Values
                 /\ sendTimer' \in BOOLEAN /\ runAgain' \in BOOLEAN /\ connected' \in BOOLEAN
                 /\ BatchTypeOK'
                 /\ cleaning' \in Seq(SUBSET Keys) /\ Len(cleaning') \in 0 .. 3
                 /\ calls' \in Seq(Call)
                 /\ deviceReported' \in DeviceStatuses /\ coreDevice' \in DeviceStatuses
                 /\ lastRun' \in {"ok", "failed"} /\ unsure' \subseteq Keys \cup {"device"}
BY DEF ReportTypeOK, EntryTypeOK, StatusTypeOK, BatchTypeOK

(* What Core makes of a change is a status; when the change starts from what Core    *)
(* has, it is the status that was reported.                                          *)
LEMMA InCoreFacts ==
  ASSUME NEW k \in Keys, Running, batch.changes[k] \in Change(k),
         core[k] \in Status(k) \cup {Null}
  PROVE  /\ InCore(k) \in Status(k) \cup {Null}
         /\ core[k] = batch.changes[k].base => InCore(k) = batch.changes[k].status
<1> DEFINE c == batch.changes[k]
           old == core[k]
<1>1. c.status \in Status(k) \cup {Null} /\ c.base \in Status(k) \cup {Null}
  BY DEF Change
<1> HIDE DEF c, old
<1>2. InCore(k) = IF c.status = Null \/ c.base = Null \/ k \notin ExpectationKeys THEN c.status
                  ELSE IF old = Null THEN Null
                  ELSE [f \in Fields(k) |-> IF c.status[f] # c.base[f] THEN c.status[f]
                                            ELSE old[f]]
  BY DEF InCore, c, old
<1>3. CASE c.status = Null \/ c.base = Null \/ k \notin ExpectationKeys
  BY <1>1, <1>2, <1>3 DEF c
<1>4. CASE c.status # Null /\ c.base # Null /\ k \in ExpectationKeys /\ old = Null
  <2>1. InCore(k) = Null
    BY <1>2, <1>4
  <2> QED BY <2>1, <1>4 DEF c, old
<1>5. CASE c.status # Null /\ c.base # Null /\ k \in ExpectationKeys /\ old # Null
  <2>1. c.status \in [Fields(k) -> Values] /\ old \in [Fields(k) -> Values]
    BY <1>1, <1>5 DEF Status, old
  <2> DEFINE new == [f \in Fields(k) |-> IF c.status[f] # c.base[f] THEN c.status[f] ELSE old[f]]
  <2>2. InCore(k) = new
    BY <1>2, <1>5
  <2>3. new \in Status(k)
    BY <2>1 DEF Status
  <2>4. old = c.base => new = c.status
    BY <2>1
  <2> QED BY <2>2, <2>3, <2>4 DEF c, old
<1> QED BY <1>3, <1>4, <1>5

LEMMA ApplyFacts ==
  ASSUME ReportTypeOK, Running, NEW ks \in SUBSET DOMAIN batch.changes, Apply(ks)
  PROVE  /\ StatusTypeOK(core')
         /\ \A k \in Keys : core'[k] = IF k \in ks THEN InCore(k) ELSE core[k]
<1>1. /\ core' = [k \in Keys |-> IF k \in ks THEN InCore(k) ELSE core[k]]
      /\ \A k \in Keys : core[k] \in Status(k) \cup {Null}
      /\ \A k \in ks : batch.changes[k] \in Change(k)
  BY DEF Apply, ReportTypeOK
<1>2. \A k \in Keys : k \in ks => InCore(k) \in Status(k) \cup {Null}
  BY <1>1, InCoreFacts
<1> QED BY <1>1, <1>2 DEF StatusTypeOK

-----------------------------------------------------------------------------
(* The changes are sent *)

(* What the entries are after the changes have been sent: what was sent is done, or  *)
(* forgotten; what has been reported anew still waits.                               *)
LEMMA SentFacts ==
  ASSUME ReportTypeOK, BatchIsOfEntries, Running, NEW k \in DOMAIN batch.changes
  PROVE  /\ k \in Keys /\ Sent(k) \in Entry(k) \cup {Null}
         /\ k \in batch.latest =>
              \/ Sent(k) = Null /\ batch.changes[k].status = Null
              \/ /\ Sent(k) # Null /\ Sent(k).sent
                 /\ Sent(k).status = batch.changes[k].status
         /\ k \notin batch.latest =>
              Sent(k) = toReport[k] /\ Sent(k) # Null /\ ~Sent(k).sent /\ runAgain
<1>1. /\ k \in Keys /\ toReport[k] \in Entry(k) /\ ~toReport[k].sent
      /\ IF k \in batch.latest THEN toReport[k].status = batch.changes[k].status ELSE runAgain
  <2>1. batch.kind \in 1 .. 3
    BY KindsFacts DEF ReportTypeOK, Running, Batch
  <2>2. k \in Keys
    BY <2>1, KindsFacts DEF ReportTypeOK
  <2> QED BY <2>2 DEF ReportTypeOK, BatchIsOfEntries
<1> DEFINE e == toReport[k]
<1>2. /\ e # Null /\ [e EXCEPT !.sent = TRUE] \in Entry(k) /\ [e EXCEPT !.sent = TRUE] # Null
      /\ [e EXCEPT !.sent = TRUE].sent /\ [e EXCEPT !.sent = TRUE].status = e.status
  BY <1>1, EntryFacts
<1> HIDE DEF e
<1>3. Sent(k) = IF k \notin batch.latest THEN e
                ELSE IF batch.changes[k].status = Null THEN Null
                ELSE [e EXCEPT !.sent = TRUE]
  BY DEF Sent, e
<1>4. CASE k \notin batch.latest
  BY <1>1, <1>2, <1>3, <1>4 DEF e
<1>5. CASE k \in batch.latest /\ batch.changes[k].status = Null
  BY <1>1, <1>3, <1>5
<1>6. CASE k \in batch.latest /\ batch.changes[k].status # Null
  <2>1. Sent(k) = [e EXCEPT !.sent = TRUE]
    BY <1>3, <1>6
  <2> QED BY <2>1, <1>1, <1>2, <1>6 DEF e
<1> QED BY <1>4, <1>5, <1>6

(* After the changes have been sent, the invariant holds again, when Core has made   *)
(* of the changes what InCore says, but for the keys of which that is not known.     *)
LEMMA ChangesAreSentStep ==
  ASSUME IInv, NextCall("update"), ChangesAreSent,
         UNCHANGED <<managerStatus, cleaning, connected, coreDevice>>,
         StatusTypeOK(core'), unsure' \subseteq Keys \cup {"device"},
         "device" \notin unsure' => "device" \notin unsure,
         \A k \in Keys \ unsure' :
           IF k \in DOMAIN batch.changes
           THEN core'[k] = batch.changes[k].status \/ (k \notin unsure /\ core'[k] = InCore(k))
           ELSE k \notin unsure /\ core'[k] = core[k]
  PROVE  IInv'
<1> DEFINE sent == DOMAIN batch.changes
           entries == [k \in Keys |-> IF k \in sent THEN Sent(k) ELSE toReport[k]]
           base == [k \in Keys |-> IF k \in sent /\ ~batch.old THEN batch.changes[k].status
                                   ELSE reported[k]]
<1>1. /\ ReportTypeOK /\ OneCallEach /\ OneRun /\ BatchIsOfEntries /\ NothingIsSkipped
      /\ DeviceCallsAreInOrder /\ CleanBeforeReports /\ CoreIsAsReported
  BY DEF IInv
<1>2. /\ calls \in Seq(Call) /\ calls # <<>> /\ Head(calls).type = "update"
  BY <1>1 DEF NextCall, ReportTypeOK
<1>3. Running
  BY <1>1, <1>2, TailCall, CallFacts
<1>4. /\ sent \subseteq Keys /\ sent # {}
      /\ batch.kind \in 1 .. 3 /\ sent \subseteq Kinds[batch.kind] /\ batch.latest \subseteq sent
      /\ \A k \in sent : batch.changes[k] \in Change(k)
  <2>1. batch.kind \in 1 .. 3
    BY <1>1, <1>3, KindsFacts DEF ReportTypeOK, Batch, Running
  <2> QED BY <2>1, <1>1, <1>3, KindsFacts DEF ReportTypeOK
<1>5. toReport' = entries /\ reported' = base
      /\ SendFrom(batch.kind + 1, entries, base, Tail(calls))
  BY DEF ChangesAreSent
<1>6. /\ DOMAIN entries = Keys /\ DOMAIN base = Keys
      /\ \A k \in Keys : /\ entries[k] = IF k \in sent THEN Sent(k) ELSE toReport[k]
                         /\ base[k] = IF k \in sent /\ ~batch.old THEN batch.changes[k].status
                                      ELSE reported[k]
  OBVIOUS
<1> HIDE DEF sent, entries, base
<1>7. \A k \in Keys : entries[k] \in Entry(k) \cup {Null} /\ base[k] \in Status(k) \cup {Null}
  <2> TAKE k \in Keys
  <2>1. entries[k] \in Entry(k) \cup {Null}
    BY <1>1, <1>3, <1>6, SentFacts DEF sent, ReportTypeOK
  <2>2. base[k] \in Status(k) \cup {Null}
    BY <1>1, <1>4, <1>6 DEF ReportTypeOK, Change
  <2> QED BY <2>1, <2>2
<1>8. /\ Tail(calls) \in Seq(Call) /\ ~Has(Tail(calls), "update")
      /\ Has(Tail(calls), "clean") <=> cleaning' # <<>>
      /\ Has(Tail(calls), "setStatus") <=> Has(calls, "setStatus")
      /\ OneOfEach(Tail(calls)) /\ LastIs(Tail(calls), deviceReported)
  BY <1>1, <1>2, TailCall, CallFacts
<1>9. ASSUME NEW k \in Keys, Changed(k, entries, base)
      PROVE  runAgain \/ \E j \in (batch.kind + 1) .. 3 : k \in Kinds[j]
  <2>1. CASE k \in sent
    BY <2>1, <1>9, <1>1, <1>3, <1>6, SentFacts DEF sent, Changed
  <2>2. CASE k \notin sent
    <3>1. Changed(k, toReport, reported)
      BY <2>2, <1>9, <1>6 DEF Changed
    <3>2. Pending(k)
      BY <3>1, PendingFacts
    <3>3. runAgain \/ \E j \in 1 .. 3 : j > batch.kind /\ k \in Kinds[j]
      BY <3>2, <2>2, <1>1, <1>3, <1>4, KindsFacts DEF NothingIsSkipped
    <3> QED BY <3>3, <1>4
  <2> QED BY <2>1, <2>2
<1>10. batch.kind + 1 \in 1 .. 4
  BY <1>4
<1>11. /\ sendTimer' \in BOOLEAN /\ runAgain' \in BOOLEAN /\ lastRun' \in {"ok", "failed"}
       /\ BatchTypeOK' /\ calls' \in Seq(Call) /\ deviceReported' \in DeviceStatuses
       /\ OneCallEach' /\ OneRun' /\ BatchIsOfEntries' /\ NothingIsSkipped'
       /\ LastIs(calls', deviceReported')
       /\ \/ Has(calls', "setStatus")
          \/ ~Has(Tail(calls), "setStatus") /\ deviceReported' = deviceReported
       /\ DeviceIsFollowed'
       /\ Running' => /\ ~batch'.old
                      /\ \A k \in DOMAIN batch'.changes : batch'.changes[k].base = reported'[k]
  <2>1. /\ managerStatus' = managerStatus /\ managerStatus \in Values /\ runAgain \in BOOLEAN
        /\ deviceReported \in DeviceStatuses /\ lastRun \in {"ok", "failed"}
    BY <1>1 DEF ReportTypeOK
  <2> QED BY <2>1, <1>5, <1>7, <1>8, <1>9, <1>10, RunGoesOn
<1>12. ReportTypeOK'
  <2>1. EntryTypeOK' /\ StatusTypeOK(reported')
    BY <1>5, <1>6, <1>7 DEF EntryTypeOK, StatusTypeOK
  <2> QED BY <2>1, <1>1, <1>11, TypeParts
<1>13. DeviceCallsAreInOrder'
  BY <1>1, <1>8, <1>11, CallFacts, NextCallFacts
<1>14. ASSUME ~EarlyReports
       PROVE  cleaning = <<>>
  <2>1. PICK k \in sent : TRUE
    BY <1>4
  <2>2. toReport[k] # Null
    BY <1>1, <1>3, SentFacts DEF BatchIsOfEntries, sent
  <2> QED BY <2>2, <1>1, <1>4, <1>14 DEF CleanBeforeReports
<1>15. CleanBeforeReports'
  <2>1. \A j \in DOMAIN cleaning' : cleaning'[j] = Kinds[3 - Len(cleaning') + j]
    BY <1>1 DEF CleanBeforeReports
  <2> QED BY <2>1, <1>14 DEF CleanBeforeReports
<1>16. CoreIsAsReported'
  <2> SUFFICES ASSUME ~EarlyReports, cleaning = <<>>
               PROVE  /\ \A k \in Keys \ unsure' : core'[k] = base[k]
                      /\ \A k \in Keys : entries[k] = Null \/ entries[k].sent =>
                           base[k] = IF entries[k] = Null THEN Null ELSE entries[k].status
    BY <1>5, <1>11 DEF CoreIsAsReported
  <2>1. /\ \A k \in Keys \ unsure : core[k] = reported[k]
        /\ \A k \in Keys : toReport[k] = Null \/ toReport[k].sent =>
             reported[k] = IF toReport[k] = Null THEN Null ELSE toReport[k].status
        /\ ~batch.old /\ \A k \in sent : batch.changes[k].base = reported[k]
    BY <1>1, <1>3 DEF CoreIsAsReported, sent
  <2>2. ASSUME NEW k \in Keys \ unsure'
        PROVE  core'[k] = base[k]
    <3>1. CASE k \in sent
      <4>1. base[k] = batch.changes[k].status
        BY <2>1, <3>1, <1>6
      <4>2. k \notin unsure => core[k] = batch.changes[k].base
        BY <2>1, <3>1
      <4>3. k \notin unsure => InCore(k) = batch.changes[k].status
        BY <4>2, <3>1, <1>1, <1>3, <1>4, InCoreFacts DEF ReportTypeOK
      <4> QED BY <4>1, <4>3, <3>1 DEF sent
    <3>2. CASE k \notin sent
      BY <3>2, <2>1, <1>6 DEF sent
    <3> QED BY <3>1, <3>2
  <2>3. ASSUME NEW k \in Keys, entries[k] = Null \/ entries[k].sent
        PROVE  base[k] = IF entries[k] = Null THEN Null ELSE entries[k].status
    <3>1. CASE k \in sent
      <4>1. base[k] = batch.changes[k].status /\ entries[k] = Sent(k)
        BY <2>1, <3>1, <1>6
      <4> QED BY <4>1, <2>3, <3>1, <1>1, <1>3, SentFacts DEF sent
    <3>2. CASE k \notin sent
      BY <3>2, <2>1, <2>3, <1>6
    <3> QED BY <3>1, <3>2
  <2> QED BY <2>2, <2>3
<1> QED BY <1>11, <1>12, <1>13, <1>15, <1>16 DEF IInv

-----------------------------------------------------------------------------
(* The inductive invariant *)

LEMMA InitInvariant == InitReport => IInv
<1> SUFFICES ASSUME InitReport
             PROVE  IInv
  OBVIOUS
<1>1. calls = <<[type |-> "clean"]>> /\ [type |-> "clean"] \in Call
  BY DEF InitReport, Call
<1>2. /\ calls \in Seq(Call) /\ DOMAIN calls = 1 .. 1 /\ calls[1].type = "clean"
  BY <1>1
<1>3. cleaning = <<ExpectationKeys, PackageKeys, ContainerKeys>>
  BY DEF InitReport
<1>4. /\ cleaning \in Seq(SUBSET Keys) /\ Len(cleaning) = 3 /\ DOMAIN cleaning = 1 .. 3
      /\ cleaning # <<>> /\ cleaning = Kinds
  BY <1>3 DEF Keys, Kinds
<1>5. \A k \in Keys : DefaultStatus(k) \in Status(k)
  BY KeysAssumption DEF DefaultStatus, Status
<1>6. StatusTypeOK(core)
  BY <1>5 DEF InitReport, StatusTypeOK
<1>7. ReportTypeOK
  <2>1. EntryTypeOK /\ StatusTypeOK(reported) /\ BatchTypeOK
    BY DEF InitReport, EntryTypeOK, StatusTypeOK, BatchTypeOK, Running
  <2>2. managerStatus \in Values /\ {} \in DeviceStatuses
    BY KeysAssumption DEF InitReport, DeviceStatuses
  <2>3. /\ sendTimer = FALSE /\ runAgain = FALSE /\ connected = TRUE
        /\ deviceReported = {} /\ coreDevice = {} /\ lastRun = "ok" /\ unsure = {}
    BY DEF InitReport
  <2>4. Len(cleaning) \in 0 .. 3
    BY <1>4
  <2> QED BY <2>1, <2>2, <2>3, <2>4, <1>2, <1>4, <1>6, TypeParts
<1>8. OneCallEach /\ DeviceCallsAreInOrder
  BY <1>2, <1>4 DEF OneCallEach, DeviceCallsAreInOrder, Called, InitReport, Running
<1>9. OneRun /\ BatchIsOfEntries
  BY DEF InitReport, OneRun, BatchIsOfEntries, Running
<1>10. NothingIsSkipped
  BY PendingFacts DEF InitReport, NothingIsSkipped, Changed
<1>11. DeviceIsFollowed
  <2>1. \A c \in ContainerKeys : toReport[c] = Null
    BY DEF InitReport, Keys
  <2>2. DeviceStatus(toReport) = {}
    BY <2>1 DEF DeviceStatus, InitReport
  <2> QED BY <2>2 DEF DeviceIsFollowed, InitReport
<1>12. CleanBeforeReports /\ CoreIsAsReported
  <2>1. \A j \in DOMAIN cleaning : cleaning[j] = Kinds[3 - Len(cleaning) + j]
    BY <1>4
  <2>2. \A i \in 1 .. 3 - Len(cleaning) : FALSE
    BY <1>4
  <2> QED BY <2>1, <2>2, <1>4 DEF CleanBeforeReports, CoreIsAsReported, InitReport
<1> QED BY <1>7, <1>8, <1>9, <1>10, <1>11, <1>12 DEF IInv

(* A step that leaves the calls, the run and the cleaning alone. *)
LEMMA CallsStay ==
  ASSUME IInv, UNCHANGED <<calls, cleaning, deviceReported, coreDevice>>,
         Running' <=> Running, "device" \notin unsure' => "device" \notin unsure
  PROVE  OneCallEach' /\ DeviceCallsAreInOrder'
BY CallFacts, NextCallFacts DEF IInv

(* A report: it waits for the next run, or for the one that goes on to be repeated.  *)
LEMMA ReportStep ==
  ASSUME IInv, NEW k \in Keys, NEW status \in Status(k) \cup {Null}, Report(k, status)
  PROVE  IInv'
<1> DEFINE e == [status |-> status, sent |-> FALSE]
<1>1. e \in Entry(k) /\ e # Null /\ ~e.sent
  BY NewEntryFacts
<1> HIDE DEF e
<1>2. /\ toReport' = [toReport EXCEPT ![k] = e]
      /\ batch' = IF Running THEN [batch EXCEPT !.latest = @ \ {k}] ELSE Null
      /\ sendTimer' = (sendTimer \/ ~Running) /\ runAgain' = (runAgain \/ Running)
      /\ EarlyReports \/ cleaning = <<>>
      /\ UNCHANGED <<reported, managerStatus, cleaning, deviceReported, connected,
                     calls, core, coreDevice, lastRun, unsure>>
  BY DEF Report, Store, Trigger, MayReport, e
<1>3. ReportTypeOK /\ OneRun /\ BatchIsOfEntries /\ CleanBeforeReports /\ CoreIsAsReported
  BY DEF IInv
<1>4. /\ EntryTypeOK'
      /\ \A l \in Keys : toReport'[l] = IF l = k THEN e ELSE toReport[l]
  BY <1>1, <1>2, <1>3 DEF ReportTypeOK, EntryTypeOK
<1>5. Running => /\ batch'.kind = batch.kind /\ batch'.changes = batch.changes
                 /\ batch'.latest = batch.latest \ {k} /\ batch'.old = batch.old
                 /\ batch' \in Batch /\ Running'
  <2> SUFFICES ASSUME Running
               PROVE  /\ batch'.kind = batch.kind /\ batch'.changes = batch.changes
                      /\ batch'.latest = batch.latest \ {k} /\ batch'.old = batch.old
                      /\ batch' \in Batch /\ Running'
    OBVIOUS
  <2>1. batch \in Batch /\ batch' = [batch EXCEPT !.latest = batch.latest \ {k}]
    BY <1>2, <1>3 DEF ReportTypeOK, Running
  <2>2. /\ batch'.kind = batch.kind /\ batch'.changes = batch.changes
        /\ batch'.latest = batch.latest \ {k} /\ batch'.old = batch.old /\ batch' \in Batch
    BY <2>1 DEF Batch
  <2> QED BY <2>2, NullAssumption DEF Running
<1>6. ~Running => ~Running'
  BY <1>2 DEF Running
<1>7. BatchTypeOK'
  BY <1>3, <1>5, <1>6 DEF ReportTypeOK, BatchTypeOK, Running
<1>8. ReportTypeOK'
  BY <1>2, <1>3, <1>4, <1>7, TypeParts
<1>9. OneCallEach' /\ DeviceCallsAreInOrder'
  BY <1>2, <1>5, <1>6, CallsStay
<1>10. OneRun' /\ NothingIsSkipped' /\ DeviceIsFollowed'
  BY <1>2, <1>3, <1>5, <1>6 DEF OneRun, NothingIsSkipped, DeviceIsFollowed
<1>11. BatchIsOfEntries'
  <2> SUFFICES ASSUME Running, NEW l \in DOMAIN batch.changes
               PROVE  /\ toReport'[l] # Null /\ ~toReport'[l].sent
                      /\ l \in batch'.latest => toReport'[l].status = batch'.changes[l].status
    BY <1>2, <1>5, <1>6 DEF BatchIsOfEntries
  <2>1. l \in Keys /\ toReport[l] # Null /\ ~toReport[l].sent
    BY <1>3, SentFacts DEF BatchIsOfEntries
  <2>2. l \in batch.latest => toReport[l].status = batch.changes[l].status
    BY <1>3 DEF BatchIsOfEntries
  <2> QED BY <2>1, <2>2, <1>1, <1>4, <1>5
<1>12. CleanBeforeReports'
  BY <1>2, <1>3 DEF CleanBeforeReports
<1>13. CoreIsAsReported'
  <2> SUFFICES ASSUME ~EarlyReports, cleaning = <<>>
               PROVE  /\ \A l \in Keys \ unsure : core[l] = reported[l]
                      /\ \A l \in Keys : toReport'[l] = Null \/ toReport'[l].sent =>
                           reported[l] = IF toReport'[l] = Null THEN Null ELSE toReport'[l].status
                      /\ Running' => /\ ~batch'.old
                                     /\ \A l \in DOMAIN batch'.changes :
                                          batch'.changes[l].base = reported[l]
    BY <1>2 DEF CoreIsAsReported
  <2> QED BY <1>1, <1>3, <1>4, <1>5, <1>6 DEF CoreIsAsReported
<1> QED BY <1>8, <1>9, <1>10, <1>11, <1>12, <1>13 DEF IInv

(* What the handlers report is a status. *)
LEMMA MergedType ==
  ASSUME ReportTypeOK, NEW k \in Keys, NEW info \in StatusInfo(k), info # Null
  PROVE  Merged(k, info) \in Status(k)
<1>1. PICK F : F \in SUBSET Fields(k) /\ info \in [F -> Values]
  <2> DEFINE infos == UNION {[F -> Values] : F \in (SUBSET Fields(k)) \ {{}}}
  <2>0. StatusInfo(k) = infos \cup {Null}
    BY DEF StatusInfo
  <2> HIDE DEF infos
  <2>1. info \in infos
    BY <2>0
  <2>2. PICK S \in {[F -> Values] : F \in (SUBSET Fields(k)) \ {{}}} : info \in S
    BY <2>1 DEF infos
  <2>3. PICK F \in (SUBSET Fields(k)) \ {{}} : S = [F -> Values]
    BY <2>2
  <2> QED BY <2>2, <2>3
<1> DEFINE previous == IF LastStatus(k) = Null THEN DefaultStatus(k) ELSE LastStatus(k)
<1>2. previous \in Status(k)
  <2>1. DefaultStatus(k) \in Status(k)
    BY KeysAssumption DEF DefaultStatus, Status
  <2>2. LastStatus(k) \in Status(k) \cup {Null}
    BY EntryFacts DEF LastStatus, ReportTypeOK
  <2> QED BY <2>1, <2>2
<1> HIDE DEF previous
<1>3. Merged(k, info) = [f \in Fields(k) |-> IF f \in DOMAIN info THEN info[f] ELSE previous[f]]
  BY DEF Merged, previous
<1> QED BY <1>1, <1>2, <1>3 DEF Status

LEMMA HandlersReport ==
  ASSUME ReportTypeOK, NEW k \in Keys, NEW info \in StatusInfo(k),
         \/ reportExpectationStatus(k, info)
         \/ reportPackageContainerPackageStatus(k, info)
         \/ reportPackageContainerExpectationStatus(k, info)
  PROVE  \E status \in Status(k) \cup {Null} : Report(k, status)
<1>1. info # Null => Merged(k, info) \in Status(k)
  BY MergedType
<1> QED BY <1>1 DEF reportExpectationStatus, reportPackageContainerPackageStatus,
                    reportPackageContainerExpectationStatus

(* A step that only triggers a run: a status of the manager, or a new connection.    *)
LEMMA TriggerStep ==
  ASSUME IInv, Trigger, managerStatus' \in Values, connected' \in BOOLEAN,
         UNCHANGED <<toReport, reported, batch, cleaning, deviceReported, calls, core,
                     coreDevice, lastRun, unsure>>
  PROVE  IInv'
<1>1. /\ sendTimer' = (sendTimer \/ ~Running) /\ runAgain' = (runAgain \/ Running)
      /\ Running' <=> Running
  BY DEF Trigger, Running
<1>2. ReportTypeOK /\ OneRun /\ BatchIsOfEntries /\ CleanBeforeReports /\ CoreIsAsReported
  BY DEF IInv
<1>3. ReportTypeOK'
  BY <1>1, <1>2, TypeParts DEF EntryTypeOK, StatusTypeOK, BatchTypeOK
<1>4. OneCallEach' /\ DeviceCallsAreInOrder'
  BY <1>1, CallsStay
<1>5. OneRun' /\ NothingIsSkipped' /\ DeviceIsFollowed'
  BY <1>1, <1>2 DEF OneRun, NothingIsSkipped, DeviceIsFollowed
<1>6. BatchIsOfEntries'
  BY <1>1, <1>2 DEF BatchIsOfEntries
<1>7. CleanBeforeReports' /\ CoreIsAsReported'
  BY <1>1, <1>2 DEF CleanBeforeReports, CoreIsAsReported
<1> QED BY <1>3, <1>4, <1>5, <1>6, <1>7 DEF IInv

LEMMA DisconnectStep ==
  ASSUME IInv, Disconnect
  PROVE  IInv'
<1>1. /\ connected' = FALSE
      /\ UNCHANGED <<pm, deviceReported, calls, core, coreDevice, lastRun, unsure>>
      /\ Running' <=> Running
  BY DEF Disconnect, pm, Running
<1>2. UNCHANGED <<toReport, reported, managerStatus, sendTimer, batch, runAgain, cleaning>>
  BY <1>1 DEF pm
<1>3. ReportTypeOK /\ OneRun /\ BatchIsOfEntries /\ CleanBeforeReports /\ CoreIsAsReported
      /\ NothingIsSkipped
  BY DEF IInv
<1>4. ReportTypeOK'
  BY <1>1, <1>2, <1>3, TypeParts DEF EntryTypeOK, StatusTypeOK, BatchTypeOK
<1>5. OneCallEach' /\ DeviceCallsAreInOrder'
  BY <1>1, <1>2, CallsStay
<1>6. OneRun' /\ DeviceIsFollowed'
  BY <1>1, <1>2, <1>3 DEF OneRun, DeviceIsFollowed
<1>7. NothingIsSkipped'
  BY <1>1, <1>2, <1>3, PendingFacts DEF NothingIsSkipped
<1>8. BatchIsOfEntries'
  BY <1>1, <1>2, <1>3 DEF BatchIsOfEntries
<1>9. CleanBeforeReports' /\ CoreIsAsReported'
  BY <1>1, <1>2, <1>3 DEF CleanBeforeReports, CoreIsAsReported
<1> QED BY <1>4, <1>5, <1>6, <1>7, <1>8, <1>9 DEF IInv

LEMMA SetStatusAnsweredStep ==
  ASSUME IInv, SetStatusAnswered
  PROVE  IInv'
<1>1. /\ calls # <<>> /\ Head(calls).type = "setStatus" /\ calls' = Tail(calls)
      /\ \/ coreDevice' = Head(calls).status /\ unsure' = unsure \ {"device"}
         \/ coreDevice' = coreDevice /\ unsure' = unsure \cup {"device"}
      /\ UNCHANGED <<pm, deviceReported, connected, core, lastRun>>
  BY DEF SetStatusAnswered, NextCall
<1>2. UNCHANGED <<toReport, reported, managerStatus, sendTimer, batch, runAgain, cleaning>>
      /\ Running' = Running
  BY <1>1 DEF pm, Running
<1>3. /\ ReportTypeOK /\ OneCallEach /\ OneRun /\ BatchIsOfEntries /\ NothingIsSkipped
      /\ DeviceCallsAreInOrder /\ DeviceIsFollowed /\ CleanBeforeReports /\ CoreIsAsReported
  BY DEF IInv
<1>4. calls \in Seq(Call)
  BY <1>3 DEF ReportTypeOK
<1>5. /\ Tail(calls) \in Seq(Call) /\ Head(calls) \in Call
      /\ Has(Tail(calls), "update") <=> Has(calls, "update")
      /\ Has(Tail(calls), "clean") <=> Has(calls, "clean")
      /\ OneOfEach(Tail(calls)) /\ LastIs(Tail(calls), deviceReported)
      /\ ~Has(Tail(calls), "setStatus") => Head(calls).status = deviceReported
  BY <1>1, <1>3, <1>4, TailCall, CallFacts
<1>6. Head(calls).status \in DeviceStatuses
  BY <1>1, <1>5 DEF Call
<1>7. ReportTypeOK'
  <2>1. /\ calls' \in Seq(Call) /\ coreDevice' \in DeviceStatuses
        /\ unsure' \subseteq Keys \cup {"device"}
    BY <1>1, <1>3, <1>5, <1>6 DEF ReportTypeOK
  <2> QED BY <2>1, <1>1, <1>2, <1>3, TypeParts DEF EntryTypeOK, BatchTypeOK
<1>8. OneCallEach'
  BY <1>1, <1>2, <1>3, <1>5, CallFacts, NextCallFacts
<1>9. DeviceCallsAreInOrder'
  <2>1. LastIs(calls', deviceReported')
    BY <1>1, <1>5
  <2>2. "device" \notin unsure' => coreDevice' = Head(calls).status
    BY <1>1
  <2> QED BY <2>1, <2>2, <1>1, <1>5, NextCallFacts
<1>10. OneRun' /\ BatchIsOfEntries'
  BY <1>2, <1>3 DEF OneRun, BatchIsOfEntries
<1>11. NothingIsSkipped'
  BY <1>1, <1>2, <1>3, PendingFacts DEF NothingIsSkipped
<1>12. DeviceIsFollowed'
  <2>1. DeviceStatus(toReport)' = DeviceStatus(toReport)
    BY <1>2 DEF DeviceStatus
  <2> QED BY <2>1, <1>1, <1>2, <1>3 DEF DeviceIsFollowed
<1>13. CleanBeforeReports'
  BY <1>1, <1>2, <1>3 DEF CleanBeforeReports
<1>14. CoreIsAsReported'
  <2>1. Keys \ unsure' = Keys \ unsure
    BY <1>1, KeysAssumption
  <2> QED BY <2>1, <1>1, <1>2, <1>3 DEF CoreIsAsReported
<1> QED BY <1>7, <1>8, <1>9, <1>10, <1>11, <1>12, <1>13, <1>14 DEF IInv

(* The call of a run fails: then nothing is said of what waits. *)
LEMMA UpdateFailsStep ==
  ASSUME IInv, UpdateFails
  PROVE  IInv'
<1>1. /\ calls # <<>> /\ Head(calls).type = "update"
      /\ \/ core' = core /\ unsure' = unsure
         \/ Apply(DOMAIN batch.changes) /\ unsure' = unsure \cup DOMAIN batch.changes
      /\ batch' = Null /\ lastRun' = "failed" /\ sendTimer' = runAgain /\ runAgain' = FALSE
      /\ calls' = Tail(calls) /\ deviceReported' = deviceReported
      /\ UNCHANGED <<toReport, reported, managerStatus, cleaning, connected, coreDevice>>
  BY DEF UpdateFails, NextCall, EndRun
<1>2. /\ ReportTypeOK /\ OneCallEach /\ OneRun /\ BatchIsOfEntries
      /\ DeviceCallsAreInOrder /\ CleanBeforeReports /\ CoreIsAsReported
  BY DEF IInv
<1>3. calls \in Seq(Call)
  BY <1>2 DEF ReportTypeOK
<1>4. /\ Tail(calls) \in Seq(Call) /\ ~Has(Tail(calls), "update") /\ Has(calls, "update")
      /\ Has(Tail(calls), "clean") <=> Has(calls, "clean")
      /\ Has(Tail(calls), "setStatus") <=> Has(calls, "setStatus")
      /\ OneOfEach(Tail(calls)) /\ LastIs(Tail(calls), deviceReported)
  BY <1>1, <1>2, <1>3, TailCall, CallFacts
<1>5. Running /\ ~Running'
  BY <1>1, <1>2, <1>4, CallFacts DEF Running
<1>6. DOMAIN batch.changes \subseteq Keys /\ DOMAIN batch.changes # {}
  BY <1>2, <1>5, SentFacts DEF ReportTypeOK
<1>7. /\ StatusTypeOK(core') /\ unsure' \subseteq Keys \cup {"device"}
      /\ "device" \in unsure' <=> "device" \in unsure
      /\ \A k \in Keys \ unsure' : k \notin unsure /\ core'[k] = core[k]
  <2>1. CASE core' = core /\ unsure' = unsure
    BY <2>1, <1>2, TypeParts
  <2>2. CASE Apply(DOMAIN batch.changes) /\ unsure' = unsure \cup DOMAIN batch.changes
    <3>1. /\ StatusTypeOK(core')
          /\ \A k \in Keys : core'[k] = IF k \in DOMAIN batch.changes THEN InCore(k) ELSE core[k]
      BY <2>2, <1>2, <1>5, ApplyFacts
    <3>2. unsure \subseteq Keys \cup {"device"}
      BY <1>2 DEF ReportTypeOK
    <3> QED BY <3>1, <3>2, <2>2, <1>6, KeysAssumption
  <2> QED BY <2>1, <2>2, <1>1
<1>8. ReportTypeOK'
  <2>1. EntryTypeOK' /\ StatusTypeOK(reported') /\ BatchTypeOK'
    BY <1>1, <1>2, <1>5, TypeParts DEF EntryTypeOK, BatchTypeOK
  <2> QED BY <2>1, <1>1, <1>2, <1>4, <1>7, TypeParts
<1>9. OneCallEach' /\ DeviceCallsAreInOrder'
  BY <1>1, <1>2, <1>4, <1>5, <1>7, CallFacts, NextCallFacts
<1>10. OneRun' /\ BatchIsOfEntries' /\ NothingIsSkipped' /\ DeviceIsFollowed'
  BY <1>1, <1>5 DEF OneRun, BatchIsOfEntries, NothingIsSkipped, DeviceIsFollowed
<1>11. ASSUME ~EarlyReports
       PROVE  cleaning = <<>>
  BY <1>2, <1>5, <1>6, <1>11 DEF CleanBeforeReports, BatchIsOfEntries
<1>12. CleanBeforeReports'
  BY <1>1, <1>2, <1>11 DEF CleanBeforeReports
<1>13. CoreIsAsReported'
  BY <1>1, <1>2, <1>5, <1>7 DEF CoreIsAsReported
<1> QED BY <1>8, <1>9, <1>10, <1>12, <1>13 DEF IInv

LEMMA UpdateSucceedsStep ==
  ASSUME IInv, UpdateSucceeds \/ PackageNotFound
  PROVE  IInv'
<1>1. /\ NextCall("update") /\ ChangesAreSent
      /\ UNCHANGED <<managerStatus, cleaning, connected, coreDevice>>
  BY DEF UpdateSucceeds, PackageNotFound
<1>2. ReportTypeOK /\ OneCallEach /\ BatchIsOfEntries
  BY DEF IInv
<1>3. Running
  <2>1. calls \in Seq(Call) /\ calls # <<>> /\ Head(calls).type = "update"
    BY <1>1, <1>2 DEF ReportTypeOK, NextCall
  <2> QED BY <2>1, <1>2, TailCall, CallFacts
<1>4. DOMAIN batch.changes \subseteq Keys /\ unsure \subseteq Keys \cup {"device"}
  BY <1>2, <1>3, SentFacts DEF ReportTypeOK
<1>5. CASE UpdateSucceeds
  <2>1. /\ Apply(DOMAIN batch.changes)
        /\ unsure' = unsure \ {k \in DOMAIN batch.changes : core'[k] = batch.changes[k].status}
    BY <1>5 DEF UpdateSucceeds
  <2>2. /\ StatusTypeOK(core')
        /\ \A k \in Keys : core'[k] = IF k \in DOMAIN batch.changes THEN InCore(k) ELSE core[k]
    BY <2>1, <1>2, <1>3, ApplyFacts
  <2>3. "device" \notin unsure' => "device" \notin unsure
    BY <2>1, <1>4, KeysAssumption
  <2>4. ASSUME NEW k \in Keys \ unsure'
        PROVE  IF k \in DOMAIN batch.changes
               THEN core'[k] = batch.changes[k].status \/ (k \notin unsure /\ core'[k] = InCore(k))
               ELSE k \notin unsure /\ core'[k] = core[k]
    BY <2>1, <2>2
  <2>5. unsure' \subseteq Keys \cup {"device"}
    BY <2>1, <1>4
  <2> QED BY <2>2, <2>3, <2>4, <2>5, <1>1, ChangesAreSentStep
<1>6. CASE PackageNotFound
  <2>1. /\ \E ks \in SUBSET DOMAIN batch.changes : Apply(ks)
        /\ unsure' = unsure \cup DOMAIN batch.changes
    BY <1>6 DEF PackageNotFound
  <2>2. PICK ks \in SUBSET DOMAIN batch.changes : Apply(ks)
    BY <2>1
  <2>3. /\ StatusTypeOK(core')
        /\ \A k \in Keys : core'[k] = IF k \in ks THEN InCore(k) ELSE core[k]
    BY <2>2, <1>2, <1>3, ApplyFacts
  <2>4. ASSUME NEW k \in Keys \ unsure'
        PROVE  IF k \in DOMAIN batch.changes
               THEN core'[k] = batch.changes[k].status \/ (k \notin unsure /\ core'[k] = InCore(k))
               ELSE k \notin unsure /\ core'[k] = core[k]
    BY <2>1, <2>2, <2>3
  <2>5. unsure' \subseteq Keys \cup {"device"} /\ ("device" \notin unsure' => "device" \notin unsure)
    BY <2>1, <1>4
  <2> QED BY <2>3, <2>4, <2>5, <1>1, ChangesAreSentStep
<1> QED BY <1>5, <1>6

LEMMA SendUpdatedStatusesStep ==
  ASSUME IInv, SendUpdatedStatuses
  PROVE  IInv'
<1>1. /\ sendTimer
      /\ IF connected
           THEN SendFrom(1, toReport, reported, calls)
           ELSE sendTimer' = FALSE /\ UNCHANGED <<batch, runAgain, lastRun, deviceReported, calls>>
      /\ UNCHANGED <<toReport, reported, managerStatus, cleaning, connected, core,
                     coreDevice, unsure>>
  BY DEF SendUpdatedStatuses
<1>2. /\ ReportTypeOK /\ OneCallEach /\ OneRun /\ BatchIsOfEntries
      /\ DeviceCallsAreInOrder /\ CleanBeforeReports /\ CoreIsAsReported
  BY DEF IInv
<1>3. ~Running /\ runAgain = FALSE
  BY <1>1, <1>2 DEF OneRun, ReportTypeOK
<1>4. CASE connected
  <2>1. /\ calls \in Seq(Call) /\ ~Has(calls, "update")
        /\ Has(calls, "clean") <=> cleaning' # <<>>
        /\ OneOfEach(calls) /\ LastIs(calls, deviceReported)
    BY <1>1, <1>2, <1>3, CallFacts DEF ReportTypeOK
  <2>2. \A k \in Keys : Changed(k, toReport, reported) =>
          runAgain \/ \E j \in 1 .. 3 : k \in Kinds[j]
    BY KindsFacts
  <2>3. \A k \in Keys : /\ toReport[k] \in Entry(k) \cup {Null}
                        /\ reported[k] \in Status(k) \cup {Null}
    BY <1>2 DEF ReportTypeOK
  <2>4. /\ managerStatus' = managerStatus /\ managerStatus \in Values /\ runAgain \in BOOLEAN
        /\ deviceReported \in DeviceStatuses /\ lastRun \in {"ok", "failed"}
        /\ SendFrom(1, toReport, reported, calls) /\ 1 \in 1 .. 4
        /\ toReport' = toReport /\ reported' = reported
    BY <1>1, <1>2, <1>4 DEF ReportTypeOK
  <2>5. /\ sendTimer' \in BOOLEAN /\ runAgain' \in BOOLEAN /\ lastRun' \in {"ok", "failed"}
        /\ BatchTypeOK' /\ calls' \in Seq(Call) /\ deviceReported' \in DeviceStatuses
        /\ OneCallEach' /\ OneRun' /\ BatchIsOfEntries' /\ NothingIsSkipped'
        /\ LastIs(calls', deviceReported')
        /\ \/ Has(calls', "setStatus")
           \/ ~Has(calls, "setStatus") /\ deviceReported' = deviceReported
        /\ DeviceIsFollowed'
        /\ Running' => /\ ~batch'.old
                       /\ \A k \in DOMAIN batch'.changes : batch'.changes[k].base = reported'[k]
    BY <2>1, <2>2, <2>3, <2>4, RunGoesOn
  <2>6. ReportTypeOK'
    <3>1. EntryTypeOK'
      BY <1>1, <1>2 DEF ReportTypeOK, EntryTypeOK
    <3> QED BY <3>1, <2>5, <1>1, <1>2, TypeParts
  <2>7. DeviceCallsAreInOrder'
    BY <2>5, <1>1, <1>2, CallFacts, NextCallFacts
  <2>8. CleanBeforeReports' /\ CoreIsAsReported'
    BY <2>5, <1>1, <1>2 DEF CleanBeforeReports, CoreIsAsReported
  <2> QED BY <2>5, <2>6, <2>7, <2>8 DEF IInv
<1>5. CASE ~connected
  <2>1. sendTimer' = FALSE /\ UNCHANGED <<batch, runAgain, lastRun, deviceReported, calls>>
    BY <1>1, <1>5
  <2>2. Running' = Running
    BY <2>1 DEF Running
  <2>3. ReportTypeOK'
    <3>1. EntryTypeOK' /\ BatchTypeOK'
      BY <1>1, <1>2, <2>1, <2>2 DEF ReportTypeOK, EntryTypeOK, BatchTypeOK
    <3> QED BY <3>1, <2>1, <1>1, <1>2, TypeParts
  <2>4. OneCallEach' /\ DeviceCallsAreInOrder'
    BY <1>1, <2>1, <2>2, CallsStay
  <2>5. OneRun' /\ BatchIsOfEntries' /\ NothingIsSkipped' /\ DeviceIsFollowed'
    BY <1>1, <1>3, <1>5, <2>1, <2>2
       DEF OneRun, BatchIsOfEntries, NothingIsSkipped, DeviceIsFollowed
  <2>6. CleanBeforeReports' /\ CoreIsAsReported'
    BY <1>1, <1>2, <2>1, <2>2 DEF CleanBeforeReports, CoreIsAsReported
  <2> QED BY <2>3, <2>4, <2>5, <2>6 DEF IInv
<1> QED BY <1>4, <1>5

(* A kind has been removed from Core. *)
LEMMA CleaningStepStep ==
  ASSUME IInv, CleaningStep
  PROVE  IInv'
<1> DEFINE forgotten == Forgotten(cleaning')
<1>1. /\ calls # <<>> /\ Head(calls).type = "clean"
      /\ core' = [k \in Keys |-> IF k \in Head(cleaning) THEN Null ELSE core[k]]
      /\ cleaning' = Tail(cleaning)
      /\ cleaning' = <<>> => calls' = Tail(calls) /\ reported' = reported /\ batch' = batch
      /\ cleaning' # <<>> =>
           /\ reported' = [k \in Keys |-> IF k \in forgotten THEN Null ELSE reported[k]]
           /\ batch' = IF Running /\ Kinds[batch.kind] = forgotten
                       THEN [batch EXCEPT !.old = TRUE] ELSE batch
           /\ calls' = Append(Tail(calls), [type |-> "clean"])
      /\ UNCHANGED <<toReport, managerStatus, sendTimer, runAgain, deviceReported, connected,
                     coreDevice, lastRun, unsure>>
  BY DEF CleaningStep, NextCall
<1> HIDE DEF forgotten
<1>2. /\ ReportTypeOK /\ OneCallEach /\ OneRun /\ BatchIsOfEntries /\ NothingIsSkipped
      /\ DeviceCallsAreInOrder /\ DeviceIsFollowed /\ CleanBeforeReports /\ CoreIsAsReported
  BY DEF IInv
<1>3. /\ calls \in Seq(Call) /\ cleaning \in Seq(SUBSET Keys) /\ Len(cleaning) \in 0 .. 3
  BY <1>2 DEF ReportTypeOK
<1>4. /\ Tail(calls) \in Seq(Call) /\ ~Has(Tail(calls), "clean") /\ Has(calls, "clean")
      /\ Has(Tail(calls), "update") <=> Has(calls, "update")
      /\ Has(Tail(calls), "setStatus") <=> Has(calls, "setStatus")
      /\ OneOfEach(Tail(calls)) /\ LastIs(Tail(calls), deviceReported)
  BY <1>1, <1>2, <1>3, TailCall, CallFacts
<1>5. cleaning # <<>>
  BY <1>2, <1>4, CallFacts
<1>6. /\ cleaning' \in Seq(SUBSET Keys) /\ Len(cleaning') = Len(cleaning) - 1
      /\ Head(cleaning) = cleaning[1] /\ 1 \in DOMAIN cleaning /\ Len(cleaning) \in 1 .. 3
      /\ DOMAIN cleaning = 1 .. Len(cleaning) /\ DOMAIN cleaning' = 1 .. Len(cleaning')
      /\ \A j \in DOMAIN cleaning' : cleaning'[j] = cleaning[j + 1]
  <2>1. /\ cleaning' \in Seq(SUBSET Keys) /\ Len(cleaning') = Len(cleaning) - 1
        /\ \A j \in 1 .. Len(cleaning') : cleaning'[j] = cleaning[j + 1]
    BY <1>1, <1>3, <1>5, HeadTailProperties
  <2>2. Len(cleaning) # 0
    BY <1>3, <1>5, EmptySeq
  <2> QED BY <2>1, <2>2, <1>3, LenProperties
<1>7. /\ Head(cleaning) = Kinds[3 - Len(cleaning')]
      /\ \A j \in DOMAIN cleaning' : cleaning'[j] = Kinds[3 - Len(cleaning') + j]
  <2>1. \A j \in DOMAIN cleaning : cleaning[j] = Kinds[3 - Len(cleaning) + j]
    BY <1>2 DEF CleanBeforeReports
  <2>2. cleaning[1] = Kinds[3 - Len(cleaning')]
    <3>1. 3 - Len(cleaning) + 1 = 3 - Len(cleaning')
      BY <1>6
    <3> QED BY <3>1, <2>1, <1>6
  <2>3. ASSUME NEW j \in DOMAIN cleaning'
        PROVE  cleaning'[j] = Kinds[3 - Len(cleaning') + j]
    <3>1. /\ j + 1 \in DOMAIN cleaning /\ 3 - Len(cleaning) + (j + 1) = 3 - Len(cleaning') + j
      BY <1>6
    <3> QED BY <3>1, <2>1, <1>6
  <2> QED BY <2>2, <2>3, <1>6
<1>8. \A k \in Keys : /\ core'[k] = IF k \in Head(cleaning) THEN Null ELSE core[k]
                      /\ reported'[k] = reported[k] \/ reported'[k] = Null
  BY <1>1
<1>9. StatusTypeOK(core') /\ StatusTypeOK(reported')
  BY <1>1, <1>2 DEF ReportTypeOK, StatusTypeOK
<1>10. /\ Running' <=> Running
       /\ Running => /\ batch'.kind = batch.kind /\ batch'.changes = batch.changes
                     /\ batch'.latest = batch.latest /\ batch' \in Batch
  <2>1. CASE batch' = batch
    BY <2>1, <1>2 DEF Running, ReportTypeOK
  <2>2. CASE Running /\ batch' = [batch EXCEPT !.old = TRUE]
    <3>1. batch \in Batch
      BY <2>2, <1>2 DEF Running, ReportTypeOK
    <3>2. /\ batch'.kind = batch.kind /\ batch'.changes = batch.changes
          /\ batch'.latest = batch.latest /\ batch' \in Batch
      BY <2>2, <3>1 DEF Batch
    <3> QED BY <2>2, <3>2, NullAssumption DEF Running
  <2> QED BY <2>1, <2>2, <1>1
<1>11. /\ calls' \in Seq(Call)
       /\ Has(calls', "update") <=> Has(calls, "update")
       /\ Has(calls', "setStatus") <=> Has(calls, "setStatus")
       /\ Has(calls', "clean") <=> cleaning' # <<>>
       /\ OneOfEach(calls') /\ LastIs(calls', deviceReported')
  <2>1. CASE cleaning' = <<>>
    BY <2>1, <1>1, <1>4
  <2>2. CASE cleaning' # <<>>
    <3> DEFINE c == [type |-> "clean"]
    <3>1. c \in Call /\ c.type = "clean"
      BY DEF Call
    <3>2. calls' = Append(Tail(calls), c) /\ deviceReported' = deviceReported
      BY <2>2, <1>1
    <3> HIDE DEF c
    <3> QED BY <3>1, <3>2, <2>2, <1>4, AppendCall
  <2> QED BY <2>1, <2>2
<1>12. ReportTypeOK'
  <2>1. EntryTypeOK' /\ BatchTypeOK'
    BY <1>1, <1>2, <1>10 DEF ReportTypeOK, EntryTypeOK, BatchTypeOK, Running
  <2>2. Len(cleaning') \in 0 .. 3
    BY <1>6
  <2> QED BY <2>1, <2>2, <1>1, <1>2, <1>6, <1>9, <1>11, TypeParts
<1>13. OneCallEach' /\ DeviceCallsAreInOrder'
  BY <1>1, <1>2, <1>10, <1>11, CallFacts, NextCallFacts
<1>14. OneRun' /\ BatchIsOfEntries'
  BY <1>1, <1>2, <1>10 DEF OneRun, BatchIsOfEntries
<1>15. NothingIsSkipped'
  <2>1. \A k \in Keys : Pending(k)' => Pending(k)
    BY <1>1, <1>8, PendingFacts DEF Changed
  <2> QED BY <2>1, <1>1, <1>2, <1>10 DEF NothingIsSkipped
<1>16. DeviceIsFollowed'
  <2>1. DeviceStatus(toReport)' = DeviceStatus(toReport)
    BY <1>1 DEF DeviceStatus
  <2> QED BY <2>1, <1>1, <1>2, <1>10 DEF DeviceIsFollowed
<1>17. ASSUME ~EarlyReports
       PROVE  /\ \A k \in Keys : toReport'[k] = Null /\ reported'[k] = Null
              /\ \A i \in 1 .. 3 - Len(cleaning') : \A k \in Kinds[i] : core'[k] = Null
              /\ ~Running'
  <2>1. /\ \A k \in Keys : toReport[k] = Null /\ reported[k] = Null
        /\ \A i \in 1 .. 3 - Len(cleaning) : \A k \in Kinds[i] : core[k] = Null
    BY <1>2, <1>5, <1>17 DEF CleanBeforeReports
  <2>2. ASSUME NEW i \in 1 .. 3 - Len(cleaning'), NEW k \in Kinds[i]
        PROVE  core'[k] = Null
    <3>1. k \in Keys /\ (i \in 1 .. 3 - Len(cleaning) \/ i = 3 - Len(cleaning'))
      BY <1>6, KindsFacts
    <3> QED BY <3>1, <2>1, <1>7, <1>8
  <2>3. ~Running
    <3> SUFFICES ASSUME Running
                 PROVE  FALSE
      OBVIOUS
    <3>1. DOMAIN batch.changes \subseteq Keys /\ DOMAIN batch.changes # {}
      BY <1>2, SentFacts DEF ReportTypeOK
    <3> QED BY <3>1, <2>1, <1>2 DEF BatchIsOfEntries
  <2> QED BY <2>1, <2>2, <2>3, <1>1, <1>8, <1>10
<1>18. CleanBeforeReports'
  BY <1>7, <1>17 DEF CleanBeforeReports
<1>19. CoreIsAsReported'
  <2> SUFFICES ASSUME ~EarlyReports, cleaning' = <<>>
               PROVE  \A k \in Keys : core'[k] = Null
    BY <1>17 DEF CoreIsAsReported
  <2>1. Len(cleaning') = 0
    BY <1>6, EmptySeq
  <2> QED BY <2>1, <1>17, KindsFacts
<1> QED BY <1>12, <1>13, <1>14, <1>15, <1>16, <1>18, <1>19 DEF IInv

(* A step in which nothing happens. *)
LEMMA StutteringStep ==
  ASSUME IInv, UNCHANGED reportVars
  PROVE  IInv'
<1>1. /\ Running' = Running
      /\ DeviceStatus(toReport)' = DeviceStatus(toReport)
      /\ UNCHANGED <<toReport, reported, managerStatus, sendTimer, batch, runAgain, cleaning,
                     deviceReported, connected, calls, core, coreDevice, lastRun, unsure>>
  BY DEF reportVars, Running, DeviceStatus
<1>2. /\ ReportTypeOK /\ OneCallEach /\ OneRun /\ BatchIsOfEntries /\ NothingIsSkipped
      /\ DeviceCallsAreInOrder /\ DeviceIsFollowed /\ CleanBeforeReports /\ CoreIsAsReported
  BY DEF IInv
<1>3. ReportTypeOK'
  <2>1. EntryTypeOK' /\ BatchTypeOK'
    BY <1>1, <1>2 DEF ReportTypeOK, EntryTypeOK, BatchTypeOK
  <2> QED BY <2>1, <1>1, <1>2, TypeParts
<1>4. OneCallEach' /\ DeviceCallsAreInOrder'
  BY <1>1, CallsStay
<1>5. OneRun' /\ BatchIsOfEntries' /\ DeviceIsFollowed'
  BY <1>1, <1>2 DEF OneRun, BatchIsOfEntries, DeviceIsFollowed
<1>6. NothingIsSkipped'
  BY <1>1, <1>2, PendingFacts DEF NothingIsSkipped
<1>7. CleanBeforeReports' /\ CoreIsAsReported'
  BY <1>1, <1>2 DEF CleanBeforeReports, CoreIsAsReported
<1> QED BY <1>3, <1>4, <1>5, <1>6, <1>7 DEF IInv

LEMMA NextInvariant == IInv /\ [NextReport]_reportVars => IInv'
<1> SUFFICES ASSUME IInv, [NextReport]_reportVars
             PROVE  IInv'
  OBVIOUS
<1>0. ReportTypeOK
  BY DEF IInv
<1>1. ASSUME NEW k \in ExpectationKeys, NEW info \in StatusInfo(k), reportExpectationStatus(k, info)
      PROVE  IInv'
  BY <1>0, <1>1, HandlersReport, ReportStep DEF Keys
<1>2. ASSUME NEW k \in PackageKeys, NEW info \in StatusInfo(k),
             reportPackageContainerPackageStatus(k, info)
      PROVE  IInv'
  BY <1>0, <1>2, HandlersReport, ReportStep DEF Keys
<1>3. ASSUME NEW k \in ContainerKeys, NEW info \in StatusInfo(k),
             reportPackageContainerExpectationStatus(k, info)
      PROVE  IInv'
  BY <1>0, <1>3, HandlersReport, ReportStep DEF Keys
<1>4. ASSUME NEW v \in Values, reportManagerStatus(v)
      PROVE  IInv'
  BY <1>0, <1>4, TriggerStep DEF reportManagerStatus, ReportTypeOK
<1>5. CASE Connect
  BY <1>0, <1>5, TriggerStep DEF Connect, ReportTypeOK
<1>6. CASE SendUpdatedStatuses \/ CleaningStep \/ Disconnect
  BY <1>6, SendUpdatedStatusesStep, CleaningStepStep, DisconnectStep
<1>7. CASE UpdateSucceeds \/ PackageNotFound \/ UpdateFails \/ SetStatusAnswered
  BY <1>7, UpdateSucceedsStep, UpdateFailsStep, SetStatusAnsweredStep
<1>8. CASE UNCHANGED reportVars
  BY <1>8, StutteringStep
<1> QED BY <1>1, <1>2, <1>3, <1>4, <1>5, <1>6, <1>7, <1>8 DEF NextReport

-----------------------------------------------------------------------------
(* Theorems *)

(* What waits, the run, the calls and Core's copies agree: nothing that a run does   *)
(* not reach any more is left without one, and Core is thought to have what it has.  *)
THEOREM StatusesAgree == ReportSpec => []IInv
BY InitInvariant, NextInvariant, PTL DEF ReportSpec

(* No report is forgotten, and the status of the device in Core is the present one,  *)
(* for any number of expectations, packages and containers, whatever fails.          *)
THEOREM NoReportIsForgotten == ReportSpec => []StatusesInv
<1>1. IInv => StatusesInv
  <2> SUFFICES ASSUME IInv
               PROVE  StatusesInv
    OBVIOUS
  <2>1. ReportTypeOK /\ OneCallEach
    BY DEF IInv
  <2>2. NothingIsForgotten
    BY DEF IInv, NothingIsSkipped, NothingIsForgotten
  <2>3. DeviceIsCurrent
    <3> SUFFICES ASSUME lastRun = "ok", ~sendTimer, ~Running, calls = <<>>, connected,
                        "device" \notin unsure
                 PROVE  coreDevice = DeviceStatus(toReport)
      BY DEF DeviceIsCurrent
    <3>1. deviceReported = DeviceStatus(toReport)
      BY DEF IInv, DeviceIsFollowed
    <3>2. ~Called("setStatus")
      BY DEF Called
    <3> QED BY <3>1, <3>2 DEF IInv, DeviceCallsAreInOrder
  <2> QED BY <2>1, <2>2, <2>3 DEF StatusesInv
<1> QED BY <1>1, StatusesAgree, PTL

(* When nothing is reported before Core has been cleaned, Core has what was reported *)
(* last, but for the keys of which a call's effect is not known.                     *)
THEOREM CoreHasTheReports ==
  ASSUME ~EarlyReports
  PROVE  ReportSpec => []CoreIsCurrent
<1>1. IInv => CoreIsCurrent
  <2> SUFFICES ASSUME IInv, cleaning = <<>>, NEW k \in Keys \ unsure
               PROVE  /\ toReport[k] = Null => core[k] = Null
                      /\ toReport[k] # Null /\ toReport[k].sent => core[k] = toReport[k].status
    BY DEF CoreIsCurrent
  <2>1. /\ core[k] = reported[k]
        /\ toReport[k] = Null \/ toReport[k].sent =>
             reported[k] = IF toReport[k] = Null THEN Null ELSE toReport[k].status
    BY DEF IInv, CoreIsAsReported
  <2> QED BY <2>1
<1> QED BY <1>1, StatusesAgree, PTL
=============================================================================
