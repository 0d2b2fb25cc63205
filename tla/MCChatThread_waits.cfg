SPECIFICATION FairSpec
CONSTANTS
  t1 = t1
  t2 = t2
  t3 = t3
  c1 = c1
  c2 = c2
  Turns = {t1, t2, t3}
  Continues = {c1, c2}
  Earlier = {}
  None = None
  WebConcept = TRUE
  MaxAttempts = 2
  Client = {}
  Faults = {"node", "disconnect"}
CHECK_DEADLOCK FALSE
INVARIANTS OpeningOnce RepliesToOwnTurn MessagesReachThread
PROPERTIES AckedDocumentIsSaved
