SPECIFICATION FairManagerSpec
CONSTANTS
  e1 = e1  w1 = w1
  Exp = {e1}
  Requirement = {1,2}
  WorkOption = {1}
  Priority = {1}
  Worker = {w1}
  WipId={1}
  DependsOn <- NoLinks
  TriggerBy <- NoLinks
  FAILED_REMOVE_COUNT = 0
  Inputs = {"workerRestarts","cancelFails","containers"}
  None = None
INVARIANTS EvaluationsAreScheduled
PROPERTIES WorkEnds UpdatesArePulledIn
