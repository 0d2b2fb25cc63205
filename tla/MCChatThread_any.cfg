SPECIFICATION Spec
CONSTANTS
  t1 = t1
  t2 = t2
  t3 = t3
  c1 = c1
  c2 = c2
  Turns = {t1, t2, t3}
  Continues = {c1}
  Earlier = {t1}
  None = None
  WebConcept = TRUE
  MaxAttempts = 2
  Client = {"parallel", "background", "late"}
  Faults = {"node", "retrieval", "disconnect"}
SYMMETRY SymTurns
CHECK_DEADLOCK FALSE
INVARIANTS PaperWasRequested ShortOnlyAfterAllAttempts EvidenceHasOwner
