SPECIFICATION CalmSpec
CONSTANTS
  e1 = e1  e2 = e2  w1 = w1
  Exp = {e1,e2}
  Requirement = {1}
  WorkOption = {1}
  Priority = {1}
  Worker = {w1}
  WipId = {1,2}
  DependsOn <- NoLinks
  TriggerBy <- NoLinks
  FAILED_REMOVE_COUNT = 0
  Inputs = {"restart","abort","cancelFails"}
  None = None
PROPERTIES AbortCancelsTheWork
