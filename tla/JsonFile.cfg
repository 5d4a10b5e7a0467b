SPECIFICATION BoundedFairSpec
CONSTANTS
  u1 = u1  u2 = u2  u3 = u3  p1 = p1  p2 = p2
  Update = {u1, u2, u3}
  Process = {p1, p2}
  ProcessOf <- TwoAndOne
  RETRY_COUNT = 2
  None = None  Corrupt = Corrupt
INVARIANTS ResolvedIsInTheFile FileIsReadable LockIsGivenBack
PROPERTIES EveryCallEnds
CHECK_DEADLOCK FALSE
