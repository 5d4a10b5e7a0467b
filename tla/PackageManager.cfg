SPECIFICATION ProcessSpec
CONSTANTS
  None = None  CorePackageInfo = CorePackageInfo
  TemporaryStorage = TemporaryStorage  SourceMonitor = SourceMonitor  Smartbull = Smartbull
  target = target  thumbs = thumbs  r1 = r1  m1 = m1
  CorePackages <- PackagesInCore
  FoundPackages <- Found
  Containers = {target, thumbs, TemporaryStorage, SourceMonitor, Smartbull}
  Writeable = {target, thumbs}
  Rundowns <- ActiveRundowns
  Monitors = {m1}
  MaxPackages = 2
  MaxChanges = 1
  e1 = e1  p1 = p1  c1 = c1
  ExpectationKeys = {e1}
  PackageKeys = {p1}
  ContainerKeys = {c1}
  Good = Good  Bad = Bad
  Values = {Good, Bad}
  Null = Null
  EarlyReports = FALSE
  Faults = {"disconnect", "rejected", "replyLost", "packageNotFound"}
  MaxCalls = 2  MaxReports = 3
INVARIANTS PackageManagerInv GivenIsCurrent EveryPackageIsExpected StatusesInv CoreIsCurrent
PROPERTIES ScheduledIsSent
CHECK_DEADLOCK FALSE
