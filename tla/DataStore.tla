------------------------------ MODULE DataStore ------------------------------
(***************************************************************************)
(* The key-value store of an AppContainer (api/src/dataStorage.ts) and the *)
(* calls its workers make (WorkerAgent.workerStorageWrite, .workerStorage- *)
(* Read): a claim waits in the queue of its key; an update is given a lock *)
(* with the current value, and writes or gives the lock back.  Locks and   *)
(* claims expire.                                                          *)
(*                                                                         *)
(* Time is abstracted: a ttl passes in a step of its own.  A lock is       *)
(* identified by the request it was given to (lockId is never reused       *)
(* before 2^53 locks).                                                     *)
(***************************************************************************)
EXTENDS Naturals, Sequences

CONSTANTS
  Key, Client,
  Request,            \* calls of workerStorageWrite and workerStorageRead
  Update,             \* the ones that write
  KeyOf, ClientOf,
  None

ASSUME DataStoreAssumption ==
  /\ Update \subseteq Request
  /\ KeyOf \in [Request -> Key] /\ ClientOf \in [Request -> Client]
  /\ None \notin Request \cup Client

VARIABLES
  data, tag,          \* storage: who wrote the value; the tag, None if there is no entry
  lock, lockExpired,  \* accessLock: who has it; its ttl has passed
  claims,             \* accessClaims
  claimExpired,       \* requests of which the claim's ttl has passed
  scheduled,          \* _handleClaimsTimeout is set
  terminated,
  state, seen,        \* of a request: how far it has come, the value it was given
  connected           \* clients that have a connection

storageVars == <<data, tag>>
lockVars    == <<lock, lockExpired>>
claimVars   == <<claims, claimExpired>>
clientVars  == <<state, seen>>
storeVars == <<storageVars, lockVars, claimVars, scheduled, terminated, clientVars, connected>>

InitStore ==
  /\ data = [k \in Key |-> None] /\ tag = [k \in Key |-> None]
  /\ lock = [k \in Key |-> None] /\ lockExpired = [k \in Key |-> FALSE]
  /\ claims = [k \in Key |-> <<>>] /\ claimExpired = {}
  /\ scheduled = FALSE /\ terminated = FALSE
  /\ state = [r \in Request |-> "new"] /\ seen = [r \in Request |-> None]
  /\ connected = Client

-----------------------------------------------------------------------------
\* _triggerHandleClaims; how long it waits is abstracted.
TriggerHandleClaims == scheduled' = (scheduled \/ ~terminated)

Becomes(r, to) == state' = [state EXCEPT ![r] = to]

\* getWriteLock or read, up to _waitForAccess.
WaitForAccess(r) ==
  /\ state[r] = "new" /\ ClientOf[r] \in connected
  /\ claims' = [claims EXCEPT ![KeyOf[r]] = Append(@, r)]
  /\ Becomes(r, "waiting")
  /\ TriggerHandleClaims
  /\ UNCHANGED <<storageVars, lockVars, claimExpired, terminated, seen, connected>>

-----------------------------------------------------------------------------
(* _handleClaims, and what getWriteLock and read do when their claim is    *)
(* resolved: they run before anything else does.                           *)

HasClaim(k) == claims[k] # <<>>

IsWaitingForLock_Expired(k) == lock[k] # None   \* mutant
IsWaitingForLock(k) == lock[k] # None /\ ~lockExpired[k]

Rejected == {r \in claimExpired : \E k \in Key : HasClaim(k) /\ Head(claims[k]) = r}
Resolved == {r \in Request \ claimExpired :
               \E k \in Key : HasClaim(k) /\ Head(claims[k]) = r /\ ~IsWaitingForLock(k)}
Handled  == Rejected \cup Resolved
HasHandledClaim(k) == HasClaim(k) /\ Head(claims[k]) \in Handled
IsLockedBy(k, r)   == HasClaim(k) /\ Head(claims[k]) = r /\ r \in Resolved \cap Update

HandleClaims ==
  /\ scheduled
  /\ claims' = [k \in Key |-> IF HasHandledClaim(k) THEN Tail(claims[k]) ELSE claims[k]]
  /\ lock' = [k \in Key |-> IF \E r \in Update : IsLockedBy(k, r) THEN Head(claims[k]) ELSE lock[k]]
  /\ lockExpired' = [k \in Key |-> lockExpired[k] /\ ~\E r \in Update : IsLockedBy(k, r)]
  /\ tag' = [k \in Key |-> IF tag[k] = None /\ \E r \in Update : IsLockedBy(k, r)
                           THEN ClientOf[Head(claims[k])] ELSE tag[k]]
  /\ state' = [r \in Request |-> IF r \in Rejected THEN "failed"
                                 ELSE IF r \in Resolved THEN IF r \in Update THEN "locked" ELSE "read"
                                 ELSE state[r]]
  /\ seen' = [r \in Request |-> IF r \in Resolved THEN data[KeyOf[r]] ELSE seen[r]]
  /\ TriggerHandleClaims
  /\ UNCHANGED <<data, claimExpired, terminated, connected>>

ClaimExpires(r) ==
  /\ state[r] = "waiting" /\ r \notin claimExpired
  /\ claimExpired' = claimExpired \cup {r}
  /\ UNCHANGED <<storageVars, lockVars, claims, scheduled, terminated, clientVars, connected>>

\* With the timeout of the lock, which comes 10 ms later.
LockExpires(k) ==
  /\ lock[k] # None /\ ~lockExpired[k]
  /\ lockExpired' = [lockExpired EXCEPT ![k] = TRUE]
  /\ TriggerHandleClaims
  /\ UNCHANGED <<storageVars, lock, claimVars, terminated, clientVars, connected>>

-----------------------------------------------------------------------------
Release(keys) ==
  /\ lock' = [k \in Key |-> IF k \in keys THEN None ELSE lock[k]]
  /\ lockExpired' = [k \in Key |-> lockExpired[k] /\ k \notin keys]
  /\ IF keys = {} THEN UNCHANGED scheduled ELSE TriggerHandleClaims

LockOf(r) == {k \in Key : k = KeyOf[r] /\ lock[k] = r}

ReleaseLock(r) ==
  /\ state[r] = "failing"
  /\ Becomes(r, "failed")
  /\ Release(LockOf(r))
  /\ UNCHANGED <<storageVars, claimVars, terminated, seen, connected>>

ReleaseLockForTag(c) == Release({k \in Key : lock[k] # None /\ tag[k] = c})

CanWrite_UnlessHeldByAnother(r) == lock[KeyOf[r]] \in {None, r}   \* mutant
CanWrite(r) == LockOf(r) # {} /\ ~lockExpired[KeyOf[r]]

Write(r) ==
  /\ state[r] = "locked" /\ CanWrite(r)
  /\ data' = [data EXCEPT ![KeyOf[r]] = r]
  /\ Release({KeyOf[r]})
  /\ Becomes(r, "written")
  /\ UNCHANGED <<tag, claimVars, terminated, seen, connected>>

\* write throws: the worker releases the lock in its catch.
WriteRefused(r) ==
  /\ state[r] = "locked" /\ ~CanWrite(r)
  /\ Becomes(r, "failing")
  /\ UNCHANGED <<storageVars, lockVars, claimVars, scheduled, terminated, seen, connected>>

\* The callback of workerStorageWrite fails or takes too long.
CallbackFails(r) ==
  /\ state[r] = "locked"
  /\ Becomes(r, "failing")
  /\ UNCHANGED <<storageVars, lockVars, claimVars, scheduled, terminated, seen, connected>>

\* The worker dies or does not get the answer.
Abandon(r) ==
  /\ state[r] \in {"locked", "failing"}
  /\ Becomes(r, "failed")
  /\ UNCHANGED <<storageVars, lockVars, claimVars, scheduled, terminated, seen, connected>>

-----------------------------------------------------------------------------
CloseConnection(c) ==
  /\ c \in connected
  /\ connected' = connected \ {c}
  /\ ReleaseLockForTag(c)
  /\ UNCHANGED <<storageVars, claimVars, terminated, clientVars>>

Connect(c) ==
  /\ c \notin connected
  /\ connected' = connected \cup {c}
  /\ UNCHANGED <<storageVars, lockVars, claimVars, scheduled, terminated, clientVars>>

IsClaimed(r) == \E k \in Key : \E i \in DOMAIN claims[k] : claims[k][i] = r

Terminate ==
  /\ ~terminated
  /\ terminated' = TRUE /\ scheduled' = FALSE
  /\ state' = [r \in Request |-> IF IsClaimed(r) THEN "failed" ELSE state[r]]
  /\ claims' = [k \in Key |-> <<>>]
  /\ UNCHANGED <<storageVars, lockVars, claimExpired, seen, connected>>

-----------------------------------------------------------------------------
NextStore ==
  \/ \E r \in Request :
       \/ WaitForAccess(r)
       \/ ClaimExpires(r)
       \/ Write(r)
       \/ WriteRefused(r)
       \/ CallbackFails(r)
       \/ ReleaseLock(r)
       \/ Abandon(r)
  \/ \E k \in Key : LockExpires(k)
  \/ \E c \in Client : CloseConnection(c) \/ Connect(c)
  \/ HandleClaims
  \/ Terminate

StoreSpec == InitStore /\ [][NextStore]_storeVars

\* Timers fire, and time passes for every lock.
FairnessOfStore == WF_storeVars(HandleClaims) /\ \A k \in Key : WF_storeVars(LockExpires(k))

-----------------------------------------------------------------------------
States == {"new", "waiting", "locked", "failing", "read", "written", "failed"}

StoreTypeOK ==
  /\ data \in [Key -> Request \cup {None}] /\ tag \in [Key -> Client \cup {None}]
  /\ lock \in [Key -> Request \cup {None}] /\ lockExpired \in [Key -> BOOLEAN]
  /\ claims \in [Key -> Seq(Request)] /\ claimExpired \in SUBSET Request
  /\ scheduled \in BOOLEAN /\ terminated \in BOOLEAN
  /\ state \in [Request -> States]
  /\ seen \in [Request -> Request \cup {None}]
  /\ connected \in SUBSET Client

(***************************************************************************)
(* Whoever has the lock of a key, be it expired, has seen its value.       *)
(***************************************************************************)
HolderIsUpToDate ==
  \A k \in Key : lock[k] # None => KeyOf[lock[k]] = k /\ seen[lock[k]] = data[k]

\* The claims are those of the requests that wait, each in the queue of its key, once.
ClaimsAreWaiting ==
  \A k \in Key : \A i \in DOMAIN claims[k] :
    /\ KeyOf[claims[k][i]] = k /\ state[claims[k][i]] = "waiting"
    /\ \A j \in DOMAIN claims[k] : claims[k][i] = claims[k][j] => i = j

HolderHasBeenAnswered ==
  \A k \in Key : lock[k] # None => state[lock[k]] \in {"locked", "failing", "failed"}

(***************************************************************************)
(* The inductive invariant: the queues, the locks and the states of the    *)
(* requests agree.                                                         *)
(***************************************************************************)
StoreInv ==
  /\ StoreTypeOK
  /\ ClaimsAreWaiting
  /\ HolderHasBeenAnswered
  /\ HolderIsUpToDate

PhaseOf(s) == CASE s \in {"new", "waiting"}    -> "pending"
                [] s \in {"locked", "failing"} -> "based"
                [] s = "read"                  -> "read"
                [] s = "written"               -> "committed"
                [] s = "failed"                -> "refused"

Abstract == INSTANCE AtomicUpdates
  WITH value <- data, phase <- [r \in Request |-> PhaseOf(state[r])], basis <- seen

(***************************************************************************)
(* No update is lost: what a write replaces is what its callback was       *)
(* given, in spite of locks that expire, are released by somebody else or  *)
(* are abandoned, and of late writes.                                      *)
(***************************************************************************)
NoUpdateIsLost == Abstract!Spec

(***************************************************************************)
(* A claim is answered, even if whoever has the lock never gives it back.  *)
(* Claims of their own time out too, but need not for that.                *)
(***************************************************************************)
EveryClaimIsAnswered ==
  \A r \in Request : (state[r] = "waiting" /\ ~terminated) ~> (state[r] # "waiting" \/ terminated)

=============================================================================
