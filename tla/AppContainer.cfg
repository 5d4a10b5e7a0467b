CONSTANTS
  w1 = w1
  w2 = w2
  AppTypes <- MCAppTypes
  CriticalTypes = {w1}
  Requests = {a1}
  MinRunningApps = 1
  MinCriticalApps = 1
  MaxRunningApps = 4
  MaxAppId = 7
  MaxFaults = 1
  a1 = a1  r1 = r1  r2 = r2  r3 = r3  k1 = k1  c1 = c1  c2 = c2
  Key = {k1}  Client = {c1, c2}
  Request = {r1, r2, r3}  Update = {r1, r2}
  KeyOf <- OneKey  ClientOf <- TwoClients
  None = None
SPECIFICATION ProcessSpec
INVARIANTS TypeOK
PROPERTIES HealthyAppIsNeeded MinimumIsRestored RequestsEnd NoUpdateIsLost EveryClaimIsAnswered
CHECK_DEADLOCK FALSE
