SPECIFICATION Spec
CONSTANTS
  Puts = {p1, p2}
  Lookups = {u1, u2}
  None = None
  Environments = {{}, {"parallel"}}
INVARIANTS CallIsAccepted SavedChoiceStays
CHECK_DEADLOCK FALSE
