------------------------------ MODULE JsonFile ------------------------------
(***************************************************************************)
(* A JSON file that several processes update, each through batches         *)
(* (worker/src/worker/accessorHandlers/lib/json-write-file.ts): a lock     *)
(* file keeps the processes apart, a temporary file that is renamed keeps  *)
(* the content whole when a process dies.                                  *)
(*                                                                         *)
(* A step is the code between two awaits.  The content of the file is the  *)
(* set of updates in it, as in the tests, where each adds an entry.  The   *)
(* first update of a batch stands for the batch and for the call of        *)
(* updateJSONFile that writes it.                                          *)
(***************************************************************************)
EXTENDS Naturals

CONSTANTS
  Process, Update,
  ProcessOf,       \* the process that makes an update
  RETRY_COUNT,     \* attempts to lock the file (10)
  None, Corrupt

ASSUME ConstantsAssumption ==
  /\ ProcessOf \in [Update -> Process]
  /\ RETRY_COUNT \in Nat \ {0}

Content == SUBSET Update

ASSUME NoneAssumption ==
  None \notin Update /\ None # Corrupt /\ \A c \in Content : c \notin {None, Corrupt}

VARIABLES
  file, tmp,       \* what is on disk: a content, None (no such file) or Corrupt
  lock, stale,     \* the batch that has made the lock file; it has not been renewed in time
  openBatch,       \* updateJSONFileBatches, by process
  pc, batch,       \* where updateJSONFile is, and its variables, by batch
  call,            \* the promises of the calls of updateJSONFileBatch
  interference     \* what has happened to the file that should not

diskVars == <<file, tmp>>
lockVars == <<lock, stale>>
vars == <<diskVars, lockVars, openBatch, pc, batch, call, interference>>

-----------------------------------------------------------------------------
Holding == {"reading", "writing", "renaming", "releasing"}   \* LockFile.lock has resolved
Active  == Holding \cup {"locking", "creating"}

\* compromised: lockCompromisedError
NoBatch == [callbacks |-> {}, attempts |-> 0, newValue |-> {}, compromised |-> FALSE]

Init ==
  /\ file \in {None, {}} /\ tmp = None
  /\ lock = None /\ stale = FALSE
  /\ openBatch = [p \in Process |-> None]
  /\ pc = [u \in Update |-> "unused"]
  /\ batch = [u \in Update |-> NoBatch]
  /\ call = [u \in Update |-> "none"]
  /\ interference = {}

-----------------------------------------------------------------------------
(* updateJSONFileBatch *)

StartBatch(u) ==
  /\ openBatch[ProcessOf[u]] = None
  /\ openBatch' = [openBatch EXCEPT ![ProcessOf[u]] = u]
  /\ pc' = [pc EXCEPT ![u] = "locking"]
  /\ batch' = [batch EXCEPT ![u].callbacks = {u}]
  /\ call' = [call EXCEPT ![u] = "waiting"]

JoinBatch(u, b) ==
  /\ openBatch[ProcessOf[u]] = b /\ pc[b] # "failed"
  /\ batch' = [batch EXCEPT ![b].callbacks = @ \cup {u}]
  /\ call' = [call EXCEPT ![u] = "waiting"]
  /\ UNCHANGED <<openBatch, pc>>

\* A batch that failed to lock the file is never removed from the map.
JoinFailedBatch(u, b) ==
  /\ openBatch[ProcessOf[u]] = b /\ pc[b] = "failed"
  /\ call' = [call EXCEPT ![u] = "rejected"]
  /\ UNCHANGED <<openBatch, pc, batch>>

UpdateJSONFileBatch(u) ==
  /\ call[u] = "none"
  /\ StartBatch(u) \/ \E b \in Update : JoinBatch(u, b) \/ JoinFailedBatch(u, b)
  /\ UNCHANGED <<diskVars, lockVars, interference>>

-----------------------------------------------------------------------------
(* updateJSONFile *)

Goes(b, to) == pc' = [pc EXCEPT ![b] = to]

Settle_OnlyFirst(b, answer) == call' = [call EXCEPT ![b] = answer]   \* mutant
Settle(b, answer) ==
  call' = [u \in Update |-> IF u \in batch[b].callbacks THEN answer ELSE call[u]]

Ends(b, to, answer) ==
  /\ Goes(b, to)
  /\ Settle(b, answer)
  /\ batch' = [batch EXCEPT ![b] = NoBatch]

\* The next round of the loop, if there is one left.
TryAgain(b) ==
  \/ /\ batch[b].attempts + 1 < RETRY_COUNT
     /\ Goes(b, "locking")
     /\ batch' = [batch EXCEPT ![b].attempts = @ + 1, ![b].newValue = {}, ![b].compromised = FALSE]
     /\ UNCHANGED call
  \/ /\ batch[b].attempts + 1 = RETRY_COUNT
     /\ Ends(b, "failed", "rejected")

FileIsMissing(b) ==      \* ENOENT
  /\ pc[b] = "locking" /\ file = None
  /\ Goes(b, "creating")
  /\ UNCHANGED <<diskVars, lockVars, openBatch, batch, call, interference>>

FileIsLocked(b) ==       \* ELOCKED
  /\ pc[b] = "locking" /\ file # None
  /\ lock # None /\ ~stale
  /\ TryAgain(b)
  /\ UNCHANGED <<diskVars, lockVars, openBatch, interference>>

\* The lock is free, or taken from one that has not renewed it.
Lock(b) ==
  /\ pc[b] = "locking" /\ file # None
  /\ lock = None \/ stale
  /\ lock' = b /\ stale' = FALSE
  /\ interference' = IF lock # None /\ pc[lock] \in Holding THEN interference \cup {"stolen"}
                     ELSE interference
  /\ Goes(b, "reading")
  /\ UNCHANGED <<diskVars, openBatch, batch, call>>

\* Any other error of the lock or of fs.writeFile, the folder can not be reached for example.
OtherError(b) ==
  /\ pc[b] \in {"locking", "creating"}
  /\ Ends(b, "failed", "rejected")
  /\ UNCHANGED <<diskVars, lockVars, openBatch, interference>>

\* fs.writeFile(filePath, ''), whatever the file is by now.
CreateFile(b) ==
  /\ pc[b] = "creating"
  /\ file' = {}
  /\ interference' = IF file # None THEN interference \cup {"truncated"} ELSE interference
  /\ TryAgain(b)
  /\ UNCHANGED <<tmp, lockVars, openBatch>>

\* readJSONFile: what it may return.  The temporary file is used when the file can not be
\* parsed, and also when it can not be read, which may happen to either of them.
ReadJSONFile == ({file, tmp} \ {Corrupt}) \cup {None}

Misread(value) == file \notin {None, Corrupt} /\ value # file

CloseBatch_Never(b) == UNCHANGED openBatch   \* mutant
CloseBatch(b) == openBatch' = [p \in Process |-> IF openBatch[p] = b THEN None ELSE openBatch[p]]

StartWriting_InPlace(b) == Goes(b, "writing") /\ file' = Corrupt /\ UNCHANGED tmp   \* mutant
\* fs.writeFile begins; the temporary file is not whole until it returns.
StartWriting(b) == Goes(b, "writing") /\ tmp' = Corrupt /\ UNCHANGED file

\* The file is read, and all callbacks of the batch are applied to its value.
ManipulateValue(b, oldValue) ==
  LET newValue == batch[b].callbacks \cup IF oldValue = None THEN {} ELSE oldValue IN
  /\ CloseBatch(b)
  /\ \/ /\ newValue = oldValue
        /\ Goes(b, "releasing")
        /\ UNCHANGED <<diskVars, batch, call>>
     \/ /\ newValue # oldValue /\ batch[b].compromised
        /\ TryAgain(b)
        /\ UNCHANGED diskVars
     \/ /\ newValue # oldValue /\ ~batch[b].compromised
        /\ batch' = [batch EXCEPT ![b].newValue = newValue]
        /\ StartWriting(b)
        /\ UNCHANGED call
  /\ interference' = IF Misread(oldValue) THEN interference \cup {"misread"} ELSE interference
  /\ UNCHANGED lockVars

Manipulate(b) == pc[b] = "reading" /\ \E oldValue \in ReadJSONFile : ManipulateValue(b, oldValue)

WriteTmpFile(b) ==
  /\ pc[b] = "writing"
  /\ tmp' = batch[b].newValue
  /\ Goes(b, "renaming")
  /\ UNCHANGED <<file, lockVars, openBatch, batch, call, interference>>

Rename(b) ==
  /\ pc[b] = "renaming" /\ tmp # None
  /\ file' = tmp /\ tmp' = None
  /\ Goes(b, "releasing")
  /\ UNCHANGED <<lockVars, openBatch, batch, call, interference>>

\* releaseLock removes the lock file, whoever has made it.
ReleaseLock(b) ==
  IF batch[b].compromised THEN UNCHANGED lockVars ELSE lock' = None /\ stale' = FALSE

Release(b) ==
  /\ pc[b] = "releasing"
  /\ ReleaseLock(b)
  /\ Ends(b, "done", "resolved")
  /\ UNCHANGED <<diskVars, openBatch, interference>>

\* Another batch of this process has taken over the lock and released it: ERELEASED.
AlreadyReleased(b) ==
  /\ pc[b] = "releasing" /\ ~batch[b].compromised
  /\ lock # b
  /\ TryAgain(b)
  /\ UNCHANGED <<diskVars, lockVars, openBatch, interference>>

WriteError_KeepsLock(b) ==   \* mutant
  /\ pc[b] \in {"writing", "renaming"}
  /\ Ends(b, "failed", "rejected")
  /\ UNCHANGED <<diskVars, lockVars, openBatch, interference>>
\* Writing or renaming fails (the temporary file may be gone).
WriteError(b) ==
  /\ pc[b] \in {"writing", "renaming"}
  /\ ReleaseLock(b)
  /\ Ends(b, "failed", "rejected")
  /\ UNCHANGED <<diskVars, openBatch, interference>>

\* releaseLock fails, after the update or after an error: the lock file stays, but is not
\* renewed any more.  The second call of releaseLock, in the catch, then rejects.
ReleaseFails(b) ==
  /\ pc[b] \in {"writing", "renaming", "releasing"} /\ ~batch[b].compromised
  /\ Ends(b, "unreleased", "rejected")
  /\ UNCHANGED <<diskVars, lockVars, openBatch, interference>>

-----------------------------------------------------------------------------
(* The lock file has to be renewed; a process that is busy or dead does not. *)

BecomesStale ==
  /\ lock # None /\ ~stale
  /\ stale' = TRUE
  /\ UNCHANGED <<diskVars, lock, openBatch, pc, batch, call, interference>>

\* onCompromised
Compromised(b) ==
  /\ pc[b] \in Holding /\ ~batch[b].compromised
  /\ lock # b \/ stale
  /\ batch' = [batch EXCEPT ![b].compromised = TRUE]
  /\ UNCHANGED <<diskVars, lockVars, openBatch, pc, call, interference>>

\* A process dies, and is started again with an empty map.
Crash(p) ==
  LET dying == {b \in Update : ProcessOf[b] = p /\ pc[b] \in Active} IN
  /\ dying # {}
  /\ pc' = [b \in Update |-> IF b \in dying THEN "dead" ELSE pc[b]]
  /\ batch' = [b \in Update |-> IF b \in dying THEN NoBatch ELSE batch[b]]
  /\ call' = [u \in Update |-> IF ProcessOf[u] = p /\ call[u] = "waiting" THEN "lost" ELSE call[u]]
  /\ openBatch' = [openBatch EXCEPT ![p] = None]
  /\ UNCHANGED <<diskVars, lockVars, interference>>

-----------------------------------------------------------------------------
Step(b) ==
  \/ FileIsMissing(b)
  \/ FileIsLocked(b)
  \/ Lock(b)
  \/ OtherError(b)
  \/ CreateFile(b)
  \/ Manipulate(b)
  \/ WriteTmpFile(b)
  \/ Rename(b)
  \/ Release(b)
  \/ AlreadyReleased(b)
  \/ WriteError(b)
  \/ ReleaseFails(b)

Next ==
  \/ \E u \in Update : UpdateJSONFileBatch(u)
  \/ \E b \in Update : Step(b)
  \/ \E b \in Update : Compromised(b)
  \/ BecomesStale
  \/ \E p \in Process : Crash(p)

Spec == Init /\ [][Next]_vars

\* The operating system answers, and the timer between two attempts fires.
FairSpec == Spec /\ \A b \in Update : WF_vars(Step(b))

-----------------------------------------------------------------------------
OnDisk == {None, Corrupt} \cup Content

TypeOK ==
  /\ file \in OnDisk /\ tmp \in OnDisk
  /\ lock \in Update \cup {None} /\ stale \in BOOLEAN
  /\ openBatch \in [Process -> Update \cup {None}]
  /\ pc \in [Update -> Active \cup {"unused", "done", "failed", "unreleased", "dead"}]
  /\ batch \in [Update -> [callbacks : SUBSET Update, attempts : 0 .. RETRY_COUNT - 1,
                           newValue : Content, compromised : BOOLEAN]]
  /\ call \in [Update -> {"none", "waiting", "resolved", "rejected", "lost"}]
  /\ interference \in SUBSET {"stolen", "truncated", "misread"}

Stolen == "stolen" \in interference

(***************************************************************************)
(* An update of which the promise has resolved is in the file, whatever    *)
(* other processes do and whoever dies.  This takes it that no live        *)
(* process loses its lock to another, that the file is not created twice   *)
(* (a process that found it missing truncates it without the lock), and    *)
(* that no batch failed to read a file that is not corrupt: what it then   *)
(* writes replaces the file.                                               *)
(***************************************************************************)
ResolvedIsInTheFile ==
  interference = {} =>
    \A u \in Update : call[u] = "resolved" => file \notin {None, Corrupt} /\ u \in file

(***************************************************************************)
(* A process that dies or fails while it writes does not leave a file that *)
(* can not be read.                                                        *)
(***************************************************************************)
FileIsReadable == ~Stolen => file # Corrupt

(***************************************************************************)
(* At most one batch of all processes is between reading the file and      *)
(* releasing the lock.                                                     *)
(***************************************************************************)
OneWriter == ~Stolen => \A a, b \in Update : pc[a] \in Holding /\ pc[b] \in Holding => a = b

(***************************************************************************)
(* Whoever has made the lock file still needs it, or has left it behind:   *)
(* by dying, by being too slow, or because the lock file could not be      *)
(* removed.  It is not renewed then, turns stale and can be taken.         *)
(***************************************************************************)
LockIsGivenBack == lock # None => stale \/ pc[lock] \in Holding \cup {"dead", "unreleased"}

-----------------------------------------------------------------------------
(* The inductive invariant *)

WriterHasTheLock == ~Stolen => \A b \in Update : pc[b] \in Holding => lock = b

FileExists == \A b \in Update : pc[b] \in Holding => file # None

OpenBatchIsUnread ==
  \A p \in Process, b \in Update :
    openBatch[p] = b => pc[b] \notin {"unused", "writing", "renaming", "releasing"}

CalledOnce == \A u \in Update : call[u] = "none" => pc[u] = "unused"

CompromisedForAReason ==
  \A b \in Update : batch[b].compromised => pc[b] \in Holding /\ (lock # b \/ stale)

TmpIsWhole == ~Stolen => \A b \in Update : pc[b] = "renaming" => tmp = batch[b].newValue

NothingIsForgotten ==
  interference = {} => \A b \in Update :
    /\ pc[b] \in {"writing", "renaming"} =>
         file \notin {None, Corrupt} /\ file \cup batch[b].callbacks \subseteq batch[b].newValue
    /\ pc[b] = "releasing" => file \notin {None, Corrupt} /\ batch[b].callbacks \subseteq file

(***************************************************************************)
(* What relates the lock, the files and the batches at every point of      *)
(* updateJSONFile, from which the invariants above follow.                 *)
(***************************************************************************)
JsonFileInv ==
  /\ TypeOK
  /\ WriterHasTheLock
  /\ FileExists
  /\ OpenBatchIsUnread
  /\ CalledOnce
  /\ CompromisedForAReason
  /\ LockIsGivenBack
  /\ TmpIsWhole
  /\ FileIsReadable
  /\ NothingIsForgotten
  /\ ResolvedIsInTheFile

-----------------------------------------------------------------------------
(***************************************************************************)
(* A call of updateJSONFileBatch is answered, unless its process dies: the *)
(* ones that joined a batch too, and however often the file is locked.     *)
(***************************************************************************)
EveryCallEnds == \A u \in Update : call[u] = "waiting" ~> call[u] # "waiting"
=============================================================================
