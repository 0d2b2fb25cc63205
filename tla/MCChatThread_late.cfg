SPECIFICATION Spec
CONSTANTS
  t1 = t1
  t2 = t2
  t3 = t3
  t4 = t4
  c1 = c1
  c2 = c2
  Turns = {t1, t2, t3, t4}
  Continues = {c1, c2}
  Earlier = {t1}
  None = None
  WebConcept = TRUE
  MaxAttempts = 2
  Client = {"late"}
  Faults = {"node", "retrieval", "disconnect", "restart"}
SYMMETRY SymTurns
CHECK_DEADLOCK FALSE
INVARIANTS OneReplyPerMessage OneVersionPerMessage
PROPERTIES HistoryAccumulates
