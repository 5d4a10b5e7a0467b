--------------------------- MODULE JsonFile_proofs ---------------------------
(***************************************************************************)
(* JsonFileInv is an invariant of JsonFile, for any number of processes,   *)
(* updates and attempts; its parts and OneWriter follow.                   *)
(***************************************************************************)
EXTENDS JsonFile, TLAPS

USE DEF Holding, Active, Stolen, Content, OnDisk

-----------------------------------------------------------------------------
(* What the parts of updateJSONFile do to the variables of the batches. *)

BatchType == [callbacks : SUBSET Update, attempts : 0 .. RETRY_COUNT - 1,
              newValue : Content, compromised : BOOLEAN]

LocalType ==
  /\ pc \in [Update -> Active \cup {"unused", "done", "failed", "unreleased", "dead"}]
  /\ batch \in [Update -> BatchType]
  /\ call \in [Update -> {"none", "waiting", "resolved", "rejected", "lost"}]

OthersKeepTheirs(b) ==
  \A c \in Update \ {b} : pc'[c] = pc[c] /\ batch'[c] = batch[c]

LEMMA NoBatchType == NoBatch \in BatchType
  BY ConstantsAssumption DEF NoBatch, BatchType

\* A batch that ends forgets everything, and answers those that have joined it.
LEMMA EndsEffect ==
  ASSUME LocalType, NEW b \in Update,
         NEW to \in {"done", "failed", "unreleased"}, NEW answer \in {"resolved", "rejected"},
         Ends(b, to, answer)
  PROVE  /\ LocalType' /\ OthersKeepTheirs(b)
         /\ pc'[b] = to /\ ~batch'[b].compromised
         /\ \A u \in Update : call'[u] = IF u \in batch[b].callbacks THEN answer ELSE call[u]
  BY NoBatchType DEF Ends, Goes, Settle, LocalType, OthersKeepTheirs, NoBatch

\* Another attempt starts without lockCompromisedError, and resolves nothing.
LEMMA TryAgainEffect ==
  ASSUME LocalType, NEW b \in Update, TryAgain(b)
  PROVE  /\ LocalType' /\ OthersKeepTheirs(b)
         /\ pc'[b] \in {"locking", "failed"} /\ ~batch'[b].compromised
         /\ \A u \in Update : call'[u] \in {call[u], "rejected"}
<1>1. CASE Ends(b, "failed", "rejected")
  BY <1>1, EndsEffect DEF LocalType
<1>2. CASE /\ batch[b].attempts + 1 < RETRY_COUNT
           /\ Goes(b, "locking")
           /\ batch' = [batch EXCEPT ![b].attempts = @ + 1, ![b].newValue = {}, ![b].compromised = FALSE]
           /\ UNCHANGED call
  <2>1. batch[b] \in BatchType
    BY DEF LocalType
  <2>2. batch'[b] = [batch[b] EXCEPT !.attempts = @ + 1, !.newValue = {}, !.compromised = FALSE]
    BY <1>2 DEF LocalType
  <2>3. batch[b].attempts + 1 \in 0 .. RETRY_COUNT - 1
    BY <1>2, <2>1, ConstantsAssumption DEF BatchType
  <2>4. batch'[b] \in BatchType /\ ~batch'[b].compromised
    BY <2>1, <2>2, <2>3 DEF BatchType
  <2>5. batch' \in [Update -> BatchType] /\ \A c \in Update \ {b} : batch'[c] = batch[c]
    BY <1>2, <2>4 DEF LocalType
  <2> QED  BY <1>2, <2>4, <2>5 DEF LocalType, Goes, OthersKeepTheirs
<1> QED  BY <1>1, <1>2 DEF TryAgain

LEMMA TypeOfLocals == TypeOK => LocalType
  BY DEF TypeOK, LocalType, BatchType

-----------------------------------------------------------------------------
(* Each action keeps the invariant. *)

LEMMA FileIsMissingKeepsInv ==
  ASSUME JsonFileInv, NEW b \in Update, FileIsMissing(b)
  PROVE  JsonFileInv'
<1>1. /\ LocalType /\ LocalType' /\ OthersKeepTheirs(b)
      /\ pc'[b] = "creating" /\ batch' = batch /\ call' = call
  BY TypeOfLocals DEF FileIsMissing, Goes, JsonFileInv, LocalType, OthersKeepTheirs
<1>2. JsonFileInv'
  BY <1>1, NoneAssumption
  DEF FileIsMissing, diskVars, lockVars, JsonFileInv, LocalType, OthersKeepTheirs, BatchType,
      CalledOnce, CompromisedForAReason, FileExists, FileIsReadable, LockIsGivenBack,
      NothingIsForgotten, OpenBatchIsUnread, ResolvedIsInTheFile, TmpIsWhole, TypeOK,
      WriterHasTheLock
<1> QED  BY <1>2 DEF JsonFileInv

LEMMA FileIsLockedKeepsInv ==
  ASSUME JsonFileInv, NEW b \in Update, FileIsLocked(b)
  PROVE  JsonFileInv'
<1>1. /\ LocalType /\ LocalType' /\ OthersKeepTheirs(b)
      /\ pc'[b] \in {"locking", "failed"} /\ ~batch'[b].compromised
      /\ \A u \in Update : call'[u] \in {call[u], "rejected"}
  BY TypeOfLocals, TryAgainEffect DEF FileIsLocked, JsonFileInv
<1>2. TypeOK'
  BY <1>1, NoneAssumption
  DEF FileIsLocked, diskVars, lockVars, JsonFileInv, TypeOK, LocalType, BatchType
<1>3. OpenBatchIsUnread'
  BY <1>1, NoneAssumption
  DEF FileIsLocked, diskVars, lockVars, JsonFileInv, LocalType, OthersKeepTheirs,
      OpenBatchIsUnread, CalledOnce
<1>4. CompromisedForAReason'
  BY <1>1, NoneAssumption
  DEF FileIsLocked, diskVars, lockVars, JsonFileInv, LocalType, OthersKeepTheirs,
      CompromisedForAReason
<1>5. TmpIsWhole'
  BY <1>1, NoneAssumption
  DEF FileIsLocked, diskVars, lockVars, JsonFileInv, LocalType, OthersKeepTheirs, TmpIsWhole,
      WriterHasTheLock
<1>6. NothingIsForgotten'
  BY <1>1, NoneAssumption
  DEF FileIsLocked, diskVars, lockVars, JsonFileInv, LocalType, OthersKeepTheirs,
      NothingIsForgotten, TypeOK, FileExists, WriterHasTheLock, FileIsReadable
<1>7. ResolvedIsInTheFile'
  BY <1>1, NoneAssumption
  DEF FileIsLocked, diskVars, lockVars, JsonFileInv, LocalType, OthersKeepTheirs,
      ResolvedIsInTheFile, NothingIsForgotten, TypeOK
<1>8. /\ WriterHasTheLock' /\ FileExists' /\ CalledOnce' /\ LockIsGivenBack'
      /\ FileIsReadable'
  BY <1>1, NoneAssumption
  DEF FileIsLocked, diskVars, lockVars, JsonFileInv, LocalType, OthersKeepTheirs, CalledOnce,
      CompromisedForAReason, FileExists, FileIsReadable, LockIsGivenBack, TmpIsWhole, TypeOK,
      WriterHasTheLock
<1> QED  BY <1>2, <1>3, <1>4, <1>5, <1>6, <1>7, <1>8 DEF JsonFileInv

LEMMA LockKeepsInv ==
  ASSUME JsonFileInv, NEW b \in Update, Lock(b)
  PROVE  JsonFileInv'
<1>1. /\ LocalType /\ LocalType' /\ OthersKeepTheirs(b)
      /\ pc'[b] = "reading" /\ batch' = batch /\ call' = call
  BY TypeOfLocals DEF Lock, Goes, JsonFileInv, LocalType, OthersKeepTheirs
<1>2. TypeOK'
  BY <1>1, NoneAssumption DEF Lock, diskVars, lockVars, JsonFileInv, TypeOK, LocalType, BatchType
<1>3. TmpIsWhole'
  BY <1>1, NoneAssumption
  DEF Lock, diskVars, lockVars, JsonFileInv, LocalType, OthersKeepTheirs, TmpIsWhole,
      WriterHasTheLock
<1>4. NothingIsForgotten'
  BY <1>1, NoneAssumption
  DEF Lock, diskVars, lockVars, JsonFileInv, LocalType, OthersKeepTheirs, NothingIsForgotten,
      TypeOK, FileExists, WriterHasTheLock, FileIsReadable
<1>5. WriterHasTheLock'
  BY <1>1, NoneAssumption
  DEF Lock, diskVars, lockVars, JsonFileInv, LocalType, OthersKeepTheirs, WriterHasTheLock,
      CompromisedForAReason
<1>6. CompromisedForAReason'
  BY <1>1, NoneAssumption
  DEF Lock, diskVars, lockVars, JsonFileInv, LocalType, OthersKeepTheirs, CompromisedForAReason
<1>7. LockIsGivenBack'
  BY <1>1, NoneAssumption
  DEF Lock, diskVars, lockVars, JsonFileInv, LocalType, OthersKeepTheirs, LockIsGivenBack,
      CompromisedForAReason, TypeOK
<1>8. /\ FileExists' /\ OpenBatchIsUnread' /\ CalledOnce' /\ FileIsReadable'
      /\ ResolvedIsInTheFile'
  BY <1>1, NoneAssumption
  DEF Lock, diskVars, lockVars, JsonFileInv, LocalType, OthersKeepTheirs, CalledOnce,
      FileExists, FileIsReadable, NothingIsForgotten, OpenBatchIsUnread, ResolvedIsInTheFile,
      TmpIsWhole, TypeOK
<1> QED  BY <1>2, <1>3, <1>4, <1>5, <1>6, <1>7, <1>8 DEF JsonFileInv

LEMMA OtherErrorKeepsInv ==
  ASSUME JsonFileInv, NEW b \in Update, OtherError(b)
  PROVE  JsonFileInv'
<1>1. /\ LocalType /\ LocalType' /\ OthersKeepTheirs(b)
      /\ pc'[b] = "failed" /\ ~batch'[b].compromised
      /\ \A u \in Update : call'[u] = IF u \in batch[b].callbacks THEN "rejected" ELSE call[u]
  BY TypeOfLocals, EndsEffect DEF OtherError, JsonFileInv
<1>2. TypeOK'
  BY <1>1, NoneAssumption
  DEF OtherError, diskVars, lockVars, JsonFileInv, TypeOK, LocalType, BatchType
<1>3. OpenBatchIsUnread'
  BY <1>1, NoneAssumption
  DEF OtherError, diskVars, lockVars, JsonFileInv, LocalType, OthersKeepTheirs,
      OpenBatchIsUnread, CalledOnce
<1>4. CompromisedForAReason'
  BY <1>1, NoneAssumption
  DEF OtherError, diskVars, lockVars, JsonFileInv, LocalType, OthersKeepTheirs,
      CompromisedForAReason
<1>5. TmpIsWhole'
  BY <1>1, NoneAssumption
  DEF OtherError, diskVars, lockVars, JsonFileInv, LocalType, OthersKeepTheirs, TmpIsWhole,
      WriterHasTheLock
<1>6. NothingIsForgotten'
  BY <1>1, NoneAssumption
  DEF OtherError, diskVars, lockVars, JsonFileInv, LocalType, OthersKeepTheirs,
      NothingIsForgotten, TypeOK, FileExists, WriterHasTheLock, FileIsReadable
<1>7. ResolvedIsInTheFile'
  BY <1>1, NoneAssumption
  DEF OtherError, diskVars, lockVars, JsonFileInv, LocalType, OthersKeepTheirs,
      ResolvedIsInTheFile, NothingIsForgotten, TypeOK
<1>8. /\ WriterHasTheLock' /\ FileExists' /\ CalledOnce' /\ LockIsGivenBack'
      /\ FileIsReadable'
  BY <1>1, NoneAssumption
  DEF OtherError, diskVars, lockVars, JsonFileInv, LocalType, OthersKeepTheirs, CalledOnce,
      CompromisedForAReason, FileExists, FileIsReadable, LockIsGivenBack, TmpIsWhole, TypeOK,
      WriterHasTheLock
<1> QED  BY <1>2, <1>3, <1>4, <1>5, <1>6, <1>7, <1>8 DEF JsonFileInv

LEMMA CreateFileKeepsInv ==
  ASSUME JsonFileInv, NEW b \in Update, CreateFile(b)
  PROVE  JsonFileInv'
<1>1. /\ LocalType /\ LocalType' /\ OthersKeepTheirs(b)
      /\ pc'[b] \in {"locking", "failed"} /\ ~batch'[b].compromised
      /\ \A u \in Update : call'[u] \in {call[u], "rejected"}
  BY TypeOfLocals, TryAgainEffect DEF CreateFile, JsonFileInv
<1>2. TypeOK'
  BY <1>1, NoneAssumption
  DEF CreateFile, diskVars, lockVars, JsonFileInv, TypeOK, LocalType, BatchType
<1>3. OpenBatchIsUnread'
  BY <1>1, NoneAssumption
  DEF CreateFile, diskVars, lockVars, JsonFileInv, LocalType, OthersKeepTheirs,
      OpenBatchIsUnread, CalledOnce
<1>4. CompromisedForAReason'
  BY <1>1, NoneAssumption
  DEF CreateFile, diskVars, lockVars, JsonFileInv, LocalType, OthersKeepTheirs,
      CompromisedForAReason
<1>5. TmpIsWhole'
  BY <1>1, NoneAssumption
  DEF CreateFile, diskVars, lockVars, JsonFileInv, LocalType, OthersKeepTheirs, TmpIsWhole,
      WriterHasTheLock
<1>6. FileExists'
  BY <1>1, NoneAssumption
  DEF CreateFile, diskVars, lockVars, JsonFileInv, LocalType, OthersKeepTheirs, FileExists,
      TypeOK
<1>7. NothingIsForgotten'
  BY <1>1, NoneAssumption
  DEF CreateFile, diskVars, lockVars, JsonFileInv, LocalType, OthersKeepTheirs,
      NothingIsForgotten, TypeOK, FileExists, WriterHasTheLock, FileIsReadable
<1>8. ResolvedIsInTheFile'
  BY <1>1, NoneAssumption
  DEF CreateFile, diskVars, lockVars, JsonFileInv, LocalType, OthersKeepTheirs,
      ResolvedIsInTheFile, NothingIsForgotten, TypeOK
<1>9. /\ WriterHasTheLock' /\ CalledOnce' /\ LockIsGivenBack' /\ FileIsReadable'
  BY <1>1, NoneAssumption
  DEF CreateFile, diskVars, lockVars, JsonFileInv, LocalType, OthersKeepTheirs, CalledOnce,
      CompromisedForAReason, FileIsReadable, LockIsGivenBack, TmpIsWhole, TypeOK,
      WriterHasTheLock
<1> QED  BY <1>2, <1>3, <1>4, <1>5, <1>6, <1>7, <1>8, <1>9 DEF JsonFileInv

LEMMA WriteTmpFileKeepsInv ==
  ASSUME JsonFileInv, NEW b \in Update, WriteTmpFile(b)
  PROVE  JsonFileInv'
<1>1. /\ LocalType /\ LocalType' /\ OthersKeepTheirs(b)
      /\ pc'[b] = "renaming" /\ batch' = batch /\ call' = call
  BY TypeOfLocals DEF WriteTmpFile, Goes, JsonFileInv, LocalType, OthersKeepTheirs
<1>2. TmpIsWhole'
  BY <1>1, NoneAssumption
  DEF WriteTmpFile, diskVars, lockVars, JsonFileInv, LocalType, OthersKeepTheirs, TmpIsWhole,
      WriterHasTheLock
<1>3. NothingIsForgotten'
  BY <1>1, NoneAssumption
  DEF WriteTmpFile, diskVars, lockVars, JsonFileInv, LocalType, OthersKeepTheirs,
      NothingIsForgotten, TypeOK, FileExists, WriterHasTheLock, FileIsReadable
<1>4. /\ TypeOK' /\ WriterHasTheLock' /\ FileExists' /\ OpenBatchIsUnread' /\ CalledOnce'
      /\ CompromisedForAReason' /\ LockIsGivenBack' /\ FileIsReadable'
      /\ ResolvedIsInTheFile'
  BY <1>1, NoneAssumption
  DEF WriteTmpFile, diskVars, lockVars, JsonFileInv, LocalType, OthersKeepTheirs, BatchType,
      CalledOnce, CompromisedForAReason, FileExists, FileIsReadable, LockIsGivenBack,
      NothingIsForgotten, OpenBatchIsUnread, ResolvedIsInTheFile, TmpIsWhole, TypeOK,
      WriterHasTheLock
<1> QED  BY <1>2, <1>3, <1>4 DEF JsonFileInv

LEMMA RenameKeepsInv ==
  ASSUME JsonFileInv, NEW b \in Update, Rename(b)
  PROVE  JsonFileInv'
<1>1. /\ LocalType /\ LocalType' /\ OthersKeepTheirs(b)
      /\ pc'[b] = "releasing" /\ batch' = batch /\ call' = call
      /\ ~Stolen => file' = batch[b].newValue /\ file' \notin {None, Corrupt}
  BY TypeOfLocals, NoneAssumption
  DEF Rename, Goes, JsonFileInv, LocalType, OthersKeepTheirs, TmpIsWhole, BatchType
<1>2. FileIsReadable'
  BY <1>1, NoneAssumption
  DEF Rename, diskVars, lockVars, JsonFileInv, LocalType, OthersKeepTheirs, FileIsReadable,
      TypeOK, TmpIsWhole
<1>3. TmpIsWhole'
  BY <1>1, NoneAssumption
  DEF Rename, diskVars, lockVars, JsonFileInv, LocalType, OthersKeepTheirs, TmpIsWhole,
      WriterHasTheLock
<1>4. NothingIsForgotten'
  BY <1>1, NoneAssumption
  DEF Rename, diskVars, lockVars, JsonFileInv, LocalType, OthersKeepTheirs, NothingIsForgotten,
      TypeOK, FileExists, WriterHasTheLock, FileIsReadable
<1>5. ResolvedIsInTheFile'
  BY <1>1, NoneAssumption
  DEF Rename, diskVars, lockVars, JsonFileInv, LocalType, OthersKeepTheirs,
      ResolvedIsInTheFile, NothingIsForgotten, TypeOK
<1>6. /\ TypeOK' /\ WriterHasTheLock' /\ FileExists' /\ OpenBatchIsUnread' /\ CalledOnce'
      /\ CompromisedForAReason' /\ LockIsGivenBack'
  BY <1>1, NoneAssumption
  DEF Rename, diskVars, lockVars, JsonFileInv, LocalType, OthersKeepTheirs, BatchType,
      CalledOnce, CompromisedForAReason, FileExists, LockIsGivenBack, OpenBatchIsUnread,
      TypeOK, WriterHasTheLock
<1> QED  BY <1>2, <1>3, <1>4, <1>5, <1>6 DEF JsonFileInv

LEMMA ReleaseKeepsInv ==
  ASSUME JsonFileInv, NEW b \in Update, Release(b)
  PROVE  JsonFileInv'
<1>1. /\ LocalType /\ LocalType' /\ OthersKeepTheirs(b)
      /\ pc'[b] = "done" /\ ~batch'[b].compromised
      /\ \A u \in Update : call'[u] = IF u \in batch[b].callbacks THEN "resolved" ELSE call[u]
  BY TypeOfLocals, EndsEffect DEF Release, JsonFileInv
<1>2. TypeOK'
  BY <1>1, NoneAssumption
  DEF Release, ReleaseLock, diskVars, lockVars, JsonFileInv, TypeOK, LocalType, BatchType
<1>3. OpenBatchIsUnread'
  BY <1>1, NoneAssumption
  DEF Release, ReleaseLock, diskVars, lockVars, JsonFileInv, LocalType, OthersKeepTheirs,
      OpenBatchIsUnread, CalledOnce
<1>4. CompromisedForAReason'
  BY <1>1, NoneAssumption
  DEF Release, ReleaseLock, diskVars, lockVars, JsonFileInv, LocalType, OthersKeepTheirs,
      CompromisedForAReason
<1>5. TmpIsWhole'
  BY <1>1, NoneAssumption
  DEF Release, ReleaseLock, diskVars, lockVars, JsonFileInv, LocalType, OthersKeepTheirs,
      TmpIsWhole, WriterHasTheLock
<1>6. NothingIsForgotten'
  BY <1>1, NoneAssumption
  DEF Release, ReleaseLock, diskVars, lockVars, JsonFileInv, LocalType, OthersKeepTheirs,
      NothingIsForgotten, TypeOK, FileExists, WriterHasTheLock, FileIsReadable
<1>7. WriterHasTheLock'
  BY <1>1, NoneAssumption
  DEF Release, ReleaseLock, diskVars, lockVars, JsonFileInv, LocalType, OthersKeepTheirs,
      WriterHasTheLock, CompromisedForAReason
<1>8. LockIsGivenBack'
  BY <1>1, NoneAssumption
  DEF Release, ReleaseLock, diskVars, lockVars, JsonFileInv, LocalType, OthersKeepTheirs,
      LockIsGivenBack, CompromisedForAReason, TypeOK
<1>9. ResolvedIsInTheFile'
  BY <1>1, NoneAssumption
  DEF Release, ReleaseLock, diskVars, lockVars, JsonFileInv, LocalType, OthersKeepTheirs,
      ResolvedIsInTheFile, NothingIsForgotten, TypeOK
<1>10. /\ FileExists' /\ CalledOnce' /\ FileIsReadable'
  BY <1>1, NoneAssumption
  DEF Release, ReleaseLock, diskVars, lockVars, JsonFileInv, LocalType, OthersKeepTheirs,
      CalledOnce, FileExists, FileIsReadable, TmpIsWhole, TypeOK
<1> QED  BY <1>2, <1>3, <1>4, <1>5, <1>6, <1>7, <1>8, <1>9, <1>10 DEF JsonFileInv

LEMMA AlreadyReleasedKeepsInv ==
  ASSUME JsonFileInv, NEW b \in Update, AlreadyReleased(b)
  PROVE  JsonFileInv'
<1>1. /\ LocalType /\ LocalType' /\ OthersKeepTheirs(b)
      /\ pc'[b] \in {"locking", "failed"} /\ ~batch'[b].compromised
      /\ \A u \in Update : call'[u] \in {call[u], "rejected"}
  BY TypeOfLocals, TryAgainEffect DEF AlreadyReleased, JsonFileInv
<1>2. LockIsGivenBack'
  BY <1>1, NoneAssumption
  DEF AlreadyReleased, diskVars, lockVars, JsonFileInv, LocalType, OthersKeepTheirs,
      LockIsGivenBack, CompromisedForAReason, TypeOK
<1>3. /\ TypeOK' /\ WriterHasTheLock' /\ FileExists' /\ OpenBatchIsUnread' /\ CalledOnce'
      /\ CompromisedForAReason' /\ TmpIsWhole' /\ FileIsReadable' /\ NothingIsForgotten'
      /\ ResolvedIsInTheFile'
  BY <1>1, NoneAssumption
  DEF AlreadyReleased, diskVars, lockVars, JsonFileInv, LocalType, OthersKeepTheirs, BatchType,
      CalledOnce, CompromisedForAReason, FileExists, FileIsReadable, NothingIsForgotten,
      OpenBatchIsUnread, ResolvedIsInTheFile, TmpIsWhole, TypeOK, WriterHasTheLock
<1> QED  BY <1>2, <1>3 DEF JsonFileInv

LEMMA WriteErrorKeepsInv ==
  ASSUME JsonFileInv, NEW b \in Update, WriteError(b)
  PROVE  JsonFileInv'
<1>1. /\ LocalType /\ LocalType' /\ OthersKeepTheirs(b)
      /\ pc'[b] = "failed" /\ ~batch'[b].compromised
      /\ \A u \in Update : call'[u] = IF u \in batch[b].callbacks THEN "rejected" ELSE call[u]
  BY TypeOfLocals, EndsEffect DEF WriteError, JsonFileInv
<1>2. TypeOK'
  BY <1>1, NoneAssumption
  DEF WriteError, ReleaseLock, diskVars, lockVars, JsonFileInv, TypeOK, LocalType, BatchType
<1>3. OpenBatchIsUnread'
  BY <1>1, NoneAssumption
  DEF WriteError, ReleaseLock, diskVars, lockVars, JsonFileInv, LocalType, OthersKeepTheirs,
      OpenBatchIsUnread, CalledOnce
<1>4. CompromisedForAReason'
  BY <1>1, NoneAssumption
  DEF WriteError, ReleaseLock, diskVars, lockVars, JsonFileInv, LocalType, OthersKeepTheirs,
      CompromisedForAReason
<1>5. TmpIsWhole'
  BY <1>1, NoneAssumption
  DEF WriteError, ReleaseLock, diskVars, lockVars, JsonFileInv, LocalType, OthersKeepTheirs,
      TmpIsWhole, WriterHasTheLock
<1>6. NothingIsForgotten'
  BY <1>1, NoneAssumption
  DEF WriteError, ReleaseLock, diskVars, lockVars, JsonFileInv, LocalType, OthersKeepTheirs,
      NothingIsForgotten, TypeOK, FileExists, WriterHasTheLock, FileIsReadable
<1>7. ResolvedIsInTheFile'
  BY <1>1, NoneAssumption
  DEF WriteError, ReleaseLock, diskVars, lockVars, JsonFileInv, LocalType, OthersKeepTheirs,
      ResolvedIsInTheFile, NothingIsForgotten, TypeOK
<1>8. WriterHasTheLock'
  BY <1>1, NoneAssumption
  DEF WriteError, ReleaseLock, diskVars, lockVars, JsonFileInv, LocalType, OthersKeepTheirs,
      WriterHasTheLock, CompromisedForAReason
<1>9. LockIsGivenBack'
  BY <1>1, NoneAssumption
  DEF WriteError, ReleaseLock, diskVars, lockVars, JsonFileInv, LocalType, OthersKeepTheirs,
      LockIsGivenBack, CompromisedForAReason, TypeOK
<1>10. /\ FileExists' /\ CalledOnce' /\ FileIsReadable'
  BY <1>1, NoneAssumption
  DEF WriteError, ReleaseLock, diskVars, lockVars, JsonFileInv, LocalType, OthersKeepTheirs,
      CalledOnce, FileExists, FileIsReadable, TmpIsWhole, TypeOK
<1> QED  BY <1>2, <1>3, <1>4, <1>5, <1>6, <1>7, <1>8, <1>9, <1>10 DEF JsonFileInv

LEMMA ReleaseFailsKeepsInv ==
  ASSUME JsonFileInv, NEW b \in Update, ReleaseFails(b)
  PROVE  JsonFileInv'
<1>1. /\ LocalType /\ LocalType' /\ OthersKeepTheirs(b)
      /\ pc'[b] = "unreleased" /\ ~batch'[b].compromised
      /\ \A u \in Update : call'[u] = IF u \in batch[b].callbacks THEN "rejected" ELSE call[u]
  BY TypeOfLocals, EndsEffect DEF ReleaseFails, JsonFileInv
<1>2. TypeOK'
  BY <1>1, NoneAssumption
  DEF ReleaseFails, diskVars, lockVars, JsonFileInv, TypeOK, LocalType, BatchType
<1>3. OpenBatchIsUnread'
  BY <1>1, NoneAssumption
  DEF ReleaseFails, diskVars, lockVars, JsonFileInv, LocalType, OthersKeepTheirs,
      OpenBatchIsUnread, CalledOnce
<1>4. CompromisedForAReason'
  BY <1>1, NoneAssumption
  DEF ReleaseFails, diskVars, lockVars, JsonFileInv, LocalType, OthersKeepTheirs,
      CompromisedForAReason
<1>5. TmpIsWhole'
  BY <1>1, NoneAssumption
  DEF ReleaseFails, diskVars, lockVars, JsonFileInv, LocalType, OthersKeepTheirs,
      TmpIsWhole, WriterHasTheLock
<1>6. NothingIsForgotten'
  BY <1>1, NoneAssumption
  DEF ReleaseFails, diskVars, lockVars, JsonFileInv, LocalType, OthersKeepTheirs,
      NothingIsForgotten, TypeOK, FileExists, WriterHasTheLock, FileIsReadable
<1>7. ResolvedIsInTheFile'
  BY <1>1, NoneAssumption
  DEF ReleaseFails, diskVars, lockVars, JsonFileInv, LocalType, OthersKeepTheirs,
      ResolvedIsInTheFile, NothingIsForgotten, TypeOK
<1>8. WriterHasTheLock'
  BY <1>1, NoneAssumption
  DEF ReleaseFails, diskVars, lockVars, JsonFileInv, LocalType, OthersKeepTheirs,
      WriterHasTheLock, CompromisedForAReason
<1>9. LockIsGivenBack'
  BY <1>1, NoneAssumption
  DEF ReleaseFails, diskVars, lockVars, JsonFileInv, LocalType, OthersKeepTheirs,
      LockIsGivenBack, CompromisedForAReason, TypeOK
<1>10. /\ FileExists' /\ CalledOnce' /\ FileIsReadable'
  BY <1>1, NoneAssumption
  DEF ReleaseFails, diskVars, lockVars, JsonFileInv, LocalType, OthersKeepTheirs,
      CalledOnce, FileExists, FileIsReadable, TmpIsWhole, TypeOK
<1> QED  BY <1>2, <1>3, <1>4, <1>5, <1>6, <1>7, <1>8, <1>9, <1>10 DEF JsonFileInv

\* Only lockCompromisedError changes.
LEMMA CompromisedEffect ==
  ASSUME LocalType, NEW b \in Update, Compromised(b)
  PROVE  /\ batch' \in [Update -> BatchType]
         /\ \A c \in Update : /\ batch'[c] = [batch[c] EXCEPT !.compromised = batch'[c].compromised]
                              /\ batch'[c].compromised => (batch[c].compromised \/ c = b)
<1>1. \A c \in Update : batch[c] \in BatchType
  BY DEF LocalType
<1>2. \A c \in Update \ {b} : batch'[c] = batch[c]
  BY DEF Compromised, LocalType
<1>3. batch'[b] = [batch[b] EXCEPT !.compromised = TRUE]
  BY DEF Compromised, LocalType
<1>4. \A c \in Update : batch'[c] \in BatchType
  <2>1. batch[b] \in BatchType
    BY <1>1
  <2>2. batch'[b] \in BatchType
    BY <2>1, <1>3 DEF BatchType
  <2> QED  BY <1>1, <1>2, <2>2
<1>5. batch' \in [Update -> BatchType]
  BY <1>4 DEF Compromised, LocalType
<1>6. \A c \in Update : batch'[c] = [batch[c] EXCEPT !.compromised = batch'[c].compromised]
  BY <1>1, <1>2, <1>3 DEF BatchType
<1> QED  BY <1>2, <1>5, <1>6

LEMMA CompromisedKeepsInv ==
  ASSUME JsonFileInv, NEW b \in Update, Compromised(b)
  PROVE  JsonFileInv'
<1>1. /\ LocalType /\ LocalType' /\ pc' = pc /\ call' = call
      /\ \A c \in Update : /\ batch'[c] = [batch[c] EXCEPT !.compromised = batch'[c].compromised]
                           /\ batch'[c].compromised => (batch[c].compromised \/ c = b)
  BY TypeOfLocals, CompromisedEffect DEF Compromised, JsonFileInv, LocalType
<1>2. CompromisedForAReason'
  BY <1>1, NoneAssumption
  DEF Compromised, diskVars, lockVars, JsonFileInv, LocalType, OthersKeepTheirs,
      CompromisedForAReason
<1>3. /\ TypeOK' /\ WriterHasTheLock' /\ FileExists' /\ OpenBatchIsUnread' /\ CalledOnce'
      /\ LockIsGivenBack' /\ TmpIsWhole' /\ FileIsReadable' /\ NothingIsForgotten'
      /\ ResolvedIsInTheFile'
  BY <1>1, NoneAssumption
  DEF Compromised, diskVars, lockVars, JsonFileInv, LocalType, OthersKeepTheirs, BatchType,
      CalledOnce, CompromisedForAReason, FileExists, FileIsReadable, LockIsGivenBack,
      NothingIsForgotten, OpenBatchIsUnread, ResolvedIsInTheFile, TmpIsWhole, TypeOK,
      WriterHasTheLock
<1> QED  BY <1>2, <1>3 DEF JsonFileInv

\* What the attempt that has the lock does with the file it has read.
LEMMA ManipulateEffect ==
  ASSUME JsonFileInv, NEW b \in Update, Manipulate(b)
  PROVE  /\ LocalType' /\ OthersKeepTheirs(b)
         /\ pc[b] = "reading" /\ pc'[b] \in {"releasing", "locking", "failed", "writing"}
         /\ batch'[b].compromised => batch[b].compromised /\ pc'[b] = "releasing"
         /\ pc'[b] \in {"locking", "failed"} => batch[b].compromised
         /\ \A u \in Update : call'[u] \in {call[u], "rejected"}
         /\ file' = file /\ tmp' \in {tmp, Corrupt}
         /\ ~Stolen => file \notin {None, Corrupt}
         /\ pc'[b] = "releasing" /\ interference' = {} => batch'[b].callbacks \subseteq file
         /\ pc'[b] = "writing" /\ interference' = {} => file \cup batch'[b].callbacks \subseteq batch'[b].newValue
         /\ openBatch' \in [Process -> Update \cup {None}]
         /\ \A p \in Process : openBatch'[p] # b /\ openBatch'[p] \in {openBatch[p], None}
         /\ interference' \in {interference, interference \cup {"misread"}}
         /\ UNCHANGED <<lock, stale>>
<1>0. PICK oldValue \in ReadJSONFile : ManipulateValue(b, oldValue)
  BY DEF Manipulate
<1> DEFINE newValue == batch[b].callbacks \cup IF oldValue = None THEN {} ELSE oldValue
<1>1. LocalType /\ batch[b] \in BatchType
  BY TypeOfLocals DEF JsonFileInv, LocalType
<1>2. /\ ~Stolen => file \notin {None, Corrupt}
      /\ interference' = {} => file \notin {None, Corrupt} /\ oldValue = file
      /\ interference' \in {interference, interference \cup {"misread"}}
      /\ pc[b] = "reading" /\ UNCHANGED <<lock, stale>>
  BY <1>0 DEF JsonFileInv, FileExists, FileIsReadable, Manipulate, ManipulateValue, Misread, lockVars
<1>3. /\ openBatch' \in [Process -> Update \cup {None}]
      /\ \A p \in Process : openBatch'[p] # b /\ openBatch'[p] \in {openBatch[p], None}
  BY <1>0, NoneAssumption DEF JsonFileInv, TypeOK, ManipulateValue, CloseBatch
<1>4. newValue \in Content
  BY <1>0, <1>1, NoneAssumption DEF JsonFileInv, TypeOK, ReadJSONFile, BatchType
<1>5. CASE newValue = oldValue /\ Goes(b, "releasing") /\ UNCHANGED <<diskVars, batch, call>>
  <2>1. interference' = {} => batch'[b].callbacks \subseteq file
    BY <1>2, <1>5
  <2> QED  BY <1>1, <1>2, <1>3, <1>5, <2>1 DEF Goes, LocalType, OthersKeepTheirs, diskVars
<1>6. CASE newValue # oldValue /\ batch[b].compromised /\ TryAgain(b) /\ UNCHANGED diskVars
  BY <1>1, <1>2, <1>3, <1>6, TryAgainEffect DEF diskVars
<1>7. CASE /\ newValue # oldValue /\ ~batch[b].compromised
           /\ batch' = [batch EXCEPT ![b].newValue = newValue]
           /\ StartWriting(b)
           /\ UNCHANGED call
  <2> HIDE DEF newValue
  <2>1. batch'[b] = [batch[b] EXCEPT !.newValue = newValue]
    BY <1>1, <1>7 DEF LocalType
  <2>2. batch'[b] \in BatchType /\ ~batch'[b].compromised /\ batch'[b].newValue = newValue
        /\ batch'[b].callbacks = batch[b].callbacks
    BY <1>1, <1>4, <1>7, <2>1 DEF BatchType
  <2>3. interference' = {} => file \cup batch'[b].callbacks \subseteq newValue
    BY <1>2, <2>2 DEF newValue
  <2>4. batch' \in [Update -> BatchType] /\ \A c \in Update \ {b} : batch'[c] = batch[c]
    BY <1>1, <1>7, <2>2 DEF LocalType
  <2> QED  BY <1>1, <1>2, <1>3, <1>7, <2>2, <2>3, <2>4
           DEF StartWriting, Goes, LocalType, OthersKeepTheirs
<1> QED  BY <1>0, <1>5, <1>6, <1>7 DEF ManipulateValue

LEMMA ManipulateKeepsInv ==
  ASSUME JsonFileInv, NEW b \in Update, Manipulate(b)
  PROVE  JsonFileInv'
<1>1. /\ LocalType /\ LocalType' /\ OthersKeepTheirs(b)
      /\ pc[b] = "reading" /\ pc'[b] \in {"releasing", "locking", "failed", "writing"}
      /\ batch'[b].compromised => batch[b].compromised /\ pc'[b] = "releasing"
      /\ pc'[b] \in {"locking", "failed"} => batch[b].compromised
      /\ \A u \in Update : call'[u] \in {call[u], "rejected"}
      /\ file' = file /\ tmp' \in {tmp, Corrupt}
      /\ ~Stolen => file \notin {None, Corrupt}
      /\ pc'[b] = "releasing" /\ interference' = {} => batch'[b].callbacks \subseteq file
      /\ pc'[b] = "writing" /\ interference' = {} => file \cup batch'[b].callbacks \subseteq batch'[b].newValue
      /\ openBatch' \in [Process -> Update \cup {None}]
      /\ \A p \in Process : openBatch'[p] # b /\ openBatch'[p] \in {openBatch[p], None}
      /\ interference' \in {interference, interference \cup {"misread"}}
      /\ UNCHANGED <<lock, stale>>
  BY TypeOfLocals, ManipulateEffect DEF JsonFileInv
<1>2. TypeOK'
  BY <1>1, NoneAssumption DEF JsonFileInv, TypeOK, LocalType, BatchType
<1>3. WriterHasTheLock'
  BY <1>1, NoneAssumption
  DEF JsonFileInv, LocalType, OthersKeepTheirs, WriterHasTheLock, CompromisedForAReason
<1>4. FileExists'
  BY <1>1, NoneAssumption DEF JsonFileInv, LocalType, OthersKeepTheirs, FileExists, TypeOK
<1>5. OpenBatchIsUnread'
  BY <1>1, NoneAssumption
  DEF JsonFileInv, LocalType, OthersKeepTheirs, OpenBatchIsUnread, CalledOnce
<1>6. CalledOnce'
  BY <1>1, NoneAssumption DEF JsonFileInv, LocalType, OthersKeepTheirs, CalledOnce
<1>7. CompromisedForAReason'
  BY <1>1, NoneAssumption DEF JsonFileInv, LocalType, OthersKeepTheirs, CompromisedForAReason
<1>8. LockIsGivenBack'
  BY <1>1, NoneAssumption
  DEF JsonFileInv, LocalType, OthersKeepTheirs, LockIsGivenBack, CompromisedForAReason, TypeOK
<1>9. TmpIsWhole'
  BY <1>1, NoneAssumption
  DEF JsonFileInv, LocalType, OthersKeepTheirs, TmpIsWhole, WriterHasTheLock
<1>10. FileIsReadable'
  BY <1>1, NoneAssumption
  DEF JsonFileInv, LocalType, OthersKeepTheirs, FileIsReadable, TypeOK, TmpIsWhole
<1>11. NothingIsForgotten'
  BY <1>1, NoneAssumption
  DEF JsonFileInv, LocalType, OthersKeepTheirs, NothingIsForgotten, TypeOK, FileExists,
      WriterHasTheLock, FileIsReadable
<1>12. ResolvedIsInTheFile'
  BY <1>1, NoneAssumption
  DEF JsonFileInv, LocalType, OthersKeepTheirs, ResolvedIsInTheFile, NothingIsForgotten, TypeOK
<1> QED  BY <1>2, <1>3, <1>4, <1>5, <1>6, <1>7, <1>8, <1>9, <1>10, <1>11, <1>12 DEF JsonFileInv

LEMMA UpdateJSONFileBatchKeepsInv ==
  ASSUME JsonFileInv, NEW u \in Update, UpdateJSONFileBatch(u)
  PROVE  JsonFileInv'
<1>1. LocalType /\ \A c \in Update : batch[c] \in BatchType
  BY TypeOfLocals DEF JsonFileInv, LocalType
<1> DEFINE Joined(b) ==
        /\ openBatch'[ProcessOf[u]] = b /\ openBatch' \in [Process -> Update \cup {None}]
        /\ \A p \in Process : p # ProcessOf[u] => openBatch'[p] = openBatch[p]
        /\ \/ openBatch[ProcessOf[u]] = b /\ pc' = pc
           \/ openBatch[ProcessOf[u]] = None /\ b = u /\ pc' = [pc EXCEPT ![b] = "locking"]
        /\ call' \in [Update -> {"none", "waiting", "resolved", "rejected", "lost"}]
        /\ call'[u] \in {"waiting", "rejected"} /\ \A v \in Update \ {u} : call'[v] = call[v]
        /\ \/ batch' = batch
           \/ \E cbs \in SUBSET Update : batch' = [batch EXCEPT ![b].callbacks = cbs]
<1>2. PICK b \in Update : Joined(b)
  <2>0. ProcessOf[u] \in Process /\ openBatch \in [Process -> Update \cup {None}]
    BY ConstantsAssumption DEF JsonFileInv, TypeOK
  <2>1. CASE StartBatch(u)
    <3>1. {u} \in SUBSET Update
      OBVIOUS
    <3>2. \E cbs \in SUBSET Update : batch' = [batch EXCEPT ![u].callbacks = cbs]
      BY <2>1, <3>1 DEF StartBatch
    <3> QED  BY <1>1, <2>0, <2>1, <3>2 DEF StartBatch, LocalType
  <2>2. ASSUME NEW b \in Update, JoinBatch(u, b)
        PROVE  Joined(b)
    <3>1. batch[b].callbacks \cup {u} \in SUBSET Update
      BY <1>1 DEF BatchType
    <3>2. \E cbs \in SUBSET Update : batch' = [batch EXCEPT ![b].callbacks = cbs]
      BY <1>1, <2>2, <3>1 DEF JoinBatch, LocalType
    <3> QED  BY <1>1, <2>0, <2>2, <3>2 DEF JoinBatch, LocalType
  <2>3. ASSUME NEW b \in Update, JoinFailedBatch(u, b)
        PROVE  Joined(b)
    BY <1>1, <2>0, <2>3 DEF JoinFailedBatch, LocalType
  <2> QED  BY <2>1, <2>2, <2>3 DEF UpdateJSONFileBatch
<1>3. call[u] = "none" /\ UNCHANGED <<file, tmp, lock, stale, interference>>
  BY DEF UpdateJSONFileBatch, diskVars, lockVars
<1>4. pc[b] \notin {"unused", "writing", "renaming", "releasing"} \/ (b = u /\ pc[u] = "unused")
  BY <1>2, <1>3, NoneAssumption, ConstantsAssumption
  DEF JsonFileInv, OpenBatchIsUnread, CalledOnce
<1>5. /\ batch' \in [Update -> BatchType]
      /\ \A c \in Update : /\ batch'[c].compromised = batch[c].compromised
                           /\ batch'[c].newValue = batch[c].newValue
                           /\ c # b => batch'[c] = batch[c]
  <2>1. CASE batch' = batch
    BY <1>1, <2>1 DEF LocalType
  <2>2. ASSUME NEW cbs \in SUBSET Update, batch' = [batch EXCEPT ![b].callbacks = cbs]
        PROVE  <1>5!1 /\ <1>5!2
    <3>1. batch'[b] = [batch[b] EXCEPT !.callbacks = cbs] /\ \A c \in Update \ {b} : batch'[c] = batch[c]
      BY <1>1, <2>2 DEF LocalType
    <3> QED  BY <1>1, <2>2, <3>1 DEF BatchType, LocalType
  <2> QED  BY <1>2, <2>1, <2>2
<1>6. LocalType' /\ \A c \in Update : pc'[c] = pc[c] \/ (c = u /\ pc[c] = "unused" /\ pc'[c] = "locking")
  BY <1>1, <1>2, <1>3, <1>5 DEF LocalType, JsonFileInv, CalledOnce
<1>7. TypeOK'
  BY <1>1, <1>2, <1>3, <1>4, <1>5, <1>6, NoneAssumption, ConstantsAssumption
  DEF JsonFileInv, LocalType, TypeOK, BatchType
<1>8. WriterHasTheLock'
  BY <1>1, <1>2, <1>3, <1>4, <1>5, <1>6, NoneAssumption, ConstantsAssumption
  DEF JsonFileInv, LocalType, WriterHasTheLock, CompromisedForAReason, BatchType
<1>9. FileExists'
  BY <1>1, <1>2, <1>3, <1>4, <1>5, <1>6, NoneAssumption, ConstantsAssumption
  DEF JsonFileInv, LocalType, FileExists, TypeOK, BatchType
<1>10. OpenBatchIsUnread'
  BY <1>1, <1>2, <1>3, <1>4, <1>5, <1>6, NoneAssumption, ConstantsAssumption
  DEF JsonFileInv, LocalType, OpenBatchIsUnread, CalledOnce, BatchType
<1>11. CalledOnce'
  BY <1>1, <1>2, <1>3, <1>4, <1>5, <1>6, NoneAssumption, ConstantsAssumption
  DEF JsonFileInv, LocalType, CalledOnce, BatchType
<1>12. CompromisedForAReason'
  BY <1>1, <1>2, <1>3, <1>4, <1>5, <1>6, NoneAssumption, ConstantsAssumption
  DEF JsonFileInv, LocalType, CompromisedForAReason, BatchType
<1>13. LockIsGivenBack'
  BY <1>1, <1>2, <1>3, <1>4, <1>5, <1>6, NoneAssumption, ConstantsAssumption
  DEF JsonFileInv, LocalType, LockIsGivenBack, CompromisedForAReason, TypeOK, BatchType
<1>14. TmpIsWhole'
  BY <1>1, <1>2, <1>3, <1>4, <1>5, <1>6, NoneAssumption, ConstantsAssumption
  DEF JsonFileInv, LocalType, TmpIsWhole, WriterHasTheLock, BatchType
<1>15. FileIsReadable'
  BY <1>1, <1>2, <1>3, <1>4, <1>5, <1>6, NoneAssumption, ConstantsAssumption
  DEF JsonFileInv, LocalType, FileIsReadable, TypeOK, TmpIsWhole, BatchType
<1>16. NothingIsForgotten'
  BY <1>1, <1>2, <1>3, <1>4, <1>5, <1>6, NoneAssumption, ConstantsAssumption
  DEF JsonFileInv, LocalType, NothingIsForgotten, TypeOK, FileExists, WriterHasTheLock,
      FileIsReadable, BatchType
<1>17. ResolvedIsInTheFile'
  BY <1>1, <1>2, <1>3, <1>4, <1>5, <1>6, NoneAssumption, ConstantsAssumption
  DEF JsonFileInv, LocalType, ResolvedIsInTheFile, NothingIsForgotten, TypeOK, BatchType
<1> QED  BY <1>7, <1>8, <1>9, <1>10, <1>11, <1>12, <1>13, <1>14, <1>15, <1>16, <1>17 DEF JsonFileInv

LEMMA BecomesStaleKeepsInv ==
  ASSUME JsonFileInv, BecomesStale
  PROVE  JsonFileInv'
  BY
  DEF BecomesStale, diskVars, JsonFileInv, TypeOK, WriterHasTheLock, FileExists,
      OpenBatchIsUnread,
     CalledOnce, CompromisedForAReason, LockIsGivenBack, TmpIsWhole, FileIsReadable,
     NothingIsForgotten, ResolvedIsInTheFile

LEMMA CrashKeepsInv ==
  ASSUME JsonFileInv, NEW p \in Process, Crash(p)
  PROVE  JsonFileInv'
<1>1. /\ LocalType /\ LocalType'
      /\ \A c \in Update : \/ pc'[c] = pc[c] /\ batch'[c] = batch[c]
                           \/ pc[c] \in Active /\ pc'[c] = "dead" /\ ~batch'[c].compromised
      /\ \A u \in Update : call'[u] = call[u] \/ (call[u] = "waiting" /\ call'[u] = "lost")
  <2>1. LocalType
    BY TypeOfLocals DEF JsonFileInv
  <2>2. batch' \in [Update -> BatchType]
    BY <2>1, NoBatchType DEF Crash, LocalType
  <2>3. /\ pc' \in [Update -> Active \cup {"unused", "done", "failed", "unreleased", "dead"}]
        /\ call' \in [Update -> {"none", "waiting", "resolved", "rejected", "lost"}]
    BY <2>1 DEF Crash, LocalType
  <2>4. \A c \in Update : \/ pc'[c] = pc[c] /\ batch'[c] = batch[c]
                          \/ pc[c] \in Active /\ pc'[c] = "dead" /\ ~batch'[c].compromised
    BY DEF Crash, NoBatch
  <2>5. \A u \in Update : call'[u] = call[u] \/ (call[u] = "waiting" /\ call'[u] = "lost")
    BY DEF Crash
  <2> QED  BY <2>1, <2>2, <2>3, <2>4, <2>5 DEF LocalType
<1>2. /\ openBatch' = [openBatch EXCEPT ![p] = None]
      /\ UNCHANGED <<file, tmp, lock, stale, interference>>
  BY DEF Crash, diskVars, lockVars
<1>3. TypeOK'
  BY <1>1, <1>2, NoneAssumption DEF JsonFileInv, LocalType, TypeOK, BatchType
<1>4. WriterHasTheLock'
  BY <1>1, <1>2, NoneAssumption
  DEF JsonFileInv, LocalType, WriterHasTheLock, CompromisedForAReason
<1>5. FileExists'
  BY <1>1, <1>2, NoneAssumption DEF JsonFileInv, LocalType, FileExists, TypeOK
<1>6. OpenBatchIsUnread'
  BY <1>1, <1>2, NoneAssumption DEF JsonFileInv, LocalType, OpenBatchIsUnread, CalledOnce
<1>7. CalledOnce'
  BY <1>1, <1>2, NoneAssumption DEF JsonFileInv, LocalType, CalledOnce
<1>8. CompromisedForAReason'
  BY <1>1, <1>2, NoneAssumption DEF JsonFileInv, LocalType, CompromisedForAReason
<1>9. LockIsGivenBack'
  BY <1>1, <1>2, NoneAssumption
  DEF JsonFileInv, LocalType, LockIsGivenBack, CompromisedForAReason, TypeOK
<1>10. TmpIsWhole'
  BY <1>1, <1>2, NoneAssumption DEF JsonFileInv, LocalType, TmpIsWhole, WriterHasTheLock
<1>11. FileIsReadable'
  BY <1>1, <1>2, NoneAssumption DEF JsonFileInv, LocalType, FileIsReadable, TypeOK, TmpIsWhole
<1>12. NothingIsForgotten'
  BY <1>1, <1>2, NoneAssumption
  DEF JsonFileInv, LocalType, NothingIsForgotten, TypeOK, FileExists, WriterHasTheLock,
      FileIsReadable
<1>13. ResolvedIsInTheFile'
  BY <1>1, <1>2, NoneAssumption
  DEF JsonFileInv, LocalType, ResolvedIsInTheFile, NothingIsForgotten, TypeOK
<1> QED  BY <1>3, <1>4, <1>5, <1>6, <1>7, <1>8, <1>9, <1>10, <1>11, <1>12, <1>13 DEF JsonFileInv

-----------------------------------------------------------------------------
LEMMA InitInv == Init => JsonFileInv
<1> SUFFICES ASSUME Init PROVE JsonFileInv
  OBVIOUS
<1>1. LocalType /\ \A c \in Update : batch[c] = NoBatch /\ ~batch[c].compromised
  BY NoBatchType DEF Init, LocalType, NoBatch
<1>2. TypeOK
  BY <1>1, NoneAssumption DEF Init, LocalType, BatchType, TypeOK
<1> QED
  BY <1>1, <1>2, NoneAssumption
  DEF Init, JsonFileInv, WriterHasTheLock, FileExists, OpenBatchIsUnread, CalledOnce,
      CompromisedForAReason, LockIsGivenBack, TmpIsWhole, FileIsReadable, NothingIsForgotten,
      ResolvedIsInTheFile

LEMMA StutterKeepsInv ==
  ASSUME JsonFileInv, UNCHANGED vars
  PROVE  JsonFileInv'
  BY DEF vars, diskVars, lockVars, JsonFileInv, TypeOK, WriterHasTheLock, FileExists,
     OpenBatchIsUnread, CalledOnce, CompromisedForAReason, LockIsGivenBack, TmpIsWhole,
     FileIsReadable, NothingIsForgotten, ResolvedIsInTheFile

(***************************************************************************)
(* The lock, the files and the batches agree at every point, in every      *)
(* interleaving of updateJSONFile with itself, with crashes and with locks *)
(* that turn stale.                                                        *)
(***************************************************************************)
THEOREM JsonFileInvariance == Spec => []JsonFileInv
<1>1. ASSUME JsonFileInv, [Next]_vars
      PROVE  JsonFileInv'
  <2>1. CASE \E u \in Update : UpdateJSONFileBatch(u)
    BY <1>1, <2>1, UpdateJSONFileBatchKeepsInv
  <2>2. ASSUME NEW b \in Update, Step(b)
        PROVE  JsonFileInv'
    BY <1>1, <2>2, FileIsMissingKeepsInv, FileIsLockedKeepsInv, LockKeepsInv, OtherErrorKeepsInv,
       CreateFileKeepsInv, ManipulateKeepsInv, WriteTmpFileKeepsInv, RenameKeepsInv,
       ReleaseKeepsInv, AlreadyReleasedKeepsInv, WriteErrorKeepsInv, ReleaseFailsKeepsInv DEF Step
  <2>3. CASE \E b \in Update : Compromised(b)
    BY <1>1, <2>3, CompromisedKeepsInv
  <2>4. CASE BecomesStale
    BY <1>1, <2>4, BecomesStaleKeepsInv
  <2>5. CASE \E p \in Process : Crash(p)
    BY <1>1, <2>5, CrashKeepsInv
  <2>6. CASE UNCHANGED vars
    BY <1>1, <2>6, StutterKeepsInv
  <2> QED  BY <1>1, <2>1, <2>2, <2>3, <2>4, <2>5, <2>6 DEF Next
<1> QED  BY InitInv, <1>1, PTL DEF Spec

(***************************************************************************)
(* As long as no live process loses its lock, one batch of all processes   *)
(* reads and writes the file at a time.                                    *)
(***************************************************************************)
THEOREM WritersAreAlone == Spec => []OneWriter
<1>1. JsonFileInv => OneWriter
  BY DEF JsonFileInv, WriterHasTheLock, OneWriter
<1> QED  BY <1>1, JsonFileInvariance, PTL

(***************************************************************************)
(* An update that has resolved stays in the file, through crashes at any   *)
(* point, unless the file is created twice, a lock is stolen or the file   *)
(* can not be read although it is not corrupt.                             *)
(***************************************************************************)
THEOREM UpdatesAreKept == Spec => []ResolvedIsInTheFile
<1>1. JsonFileInv => ResolvedIsInTheFile
  BY DEF JsonFileInv
<1> QED  BY <1>1, JsonFileInvariance, PTL

(***************************************************************************)
(* Neither a crash nor an error while writing leaves a corrupt file.       *)
(***************************************************************************)
THEOREM FileStaysReadable == Spec => []FileIsReadable
<1>1. JsonFileInv => FileIsReadable
  BY DEF JsonFileInv
<1> QED  BY <1>1, JsonFileInvariance, PTL

(***************************************************************************)
(* No batch ends without giving back a lock that the others would have to  *)
(* wait for, unless the lock file can not be removed.                      *)
(***************************************************************************)
THEOREM LocksAreGivenBack == Spec => []LockIsGivenBack
<1>1. JsonFileInv => LockIsGivenBack
  BY DEF JsonFileInv
<1> QED  BY <1>1, JsonFileInvariance, PTL
=============================================================================
