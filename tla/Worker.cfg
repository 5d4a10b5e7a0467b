CONSTANTS
  j1 = j1
  c1 = c1
  Jobs = {j1}
  Containers = {c1}
  Timeout = 2
  SpinDownTime = 3
  FailurePeriodLimit = 2
  w1 = w1
  w2 = w2
  narrow = narrow
  wide = wide
  None = None
  Agents = {w1, w2}
  Contents = {narrow, wide}
  Monitored = {narrow, wide}
  Supports <- MC_Supports
  MaxUpdates = 2
  MaxMishaps = 2
  MaxVersions = 3
  MaxErrors = 1
  MaxChannels = 3
  MaxFailures = 2
  MaxUpsets = 3
  Versions <- MC_Versions
SPECIFICATION ProcessSpec
INVARIANTS MonitorsInv ToolUseInv ResolvedIsWhole LeavesNothingRunning
PROPERTIES AsksForAReason NothingAfterTheEnd JobsEnd MonitorsWork EverythingEnds
CHECK_DEADLOCK FALSE
