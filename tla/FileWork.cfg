CONSTANTS
  Works = {1, 2}
  Expectations <- MC_Expectations
  MaxVersion = 2
  MaxUpsets = 2
SPECIFICATION Spec
INVARIANTS FileWorkInv FulfilledIsComplete
PROPERTIES WantedIsFulfilled UnwantedIsRemoved
CHECK_DEADLOCK FALSE
