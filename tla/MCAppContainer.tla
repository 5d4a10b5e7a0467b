--------------------------- MODULE MCAppContainer ---------------------------
(***************************************************************************)
(* The process of an AppContainer: the Workers it runs, and the store that *)
(* it keeps for them.  Neither reads the state of the other, so a          *)
(* behaviour is one of the two.                                            *)
(*                                                                         *)
(* Two types of Workers, one of which is also run for critical             *)
(* Expectations only.  Requests of two clients for one key of the store.   *)
(***************************************************************************)
EXTENDS AppContainer, DataStore, TLC

CONSTANTS w1, w2, a1, r1, r2, r3, k1, c1, c2
VARIABLE part

MCAppTypes == <<w1, w2>>
OneKey     == [r \in Request |-> k1]
TwoClients == [r \in Request |-> IF r = r1 THEN c1 ELSE c2]

NoApps ==
  /\ apps = <<>> /\ nextId = 1 /\ stray = {} /\ orphans = {} /\ conns = {}
  /\ requests = [r \in Requests |-> [pc |-> "idle", todo |-> 0, app |-> 0]]
  /\ closed = TRUE /\ faults = 0

ProcessInit ==
  /\ InitStore
  /\ \/ part = "apps" /\ Init
     \/ part = "store" /\ NoApps

ProcessNext ==
  /\ UNCHANGED part
  /\ \/ part = "apps" /\ Next /\ UNCHANGED storeVars
     \/ part = "store" /\ NextStore /\ UNCHANGED vars

ProcessSpec == ProcessInit /\ [][ProcessNext]_<<part, vars, storeVars>> /\ Fairness /\ FairnessOfStore
=============================================================================
