SPECIFICATION Spec
CONSTANTS
  t1 = t1
  t2 = t2
  t3 = t3
  c1 = c1
  c2 = c2
  Turns = {t1, t2, t3}
  Continues = {c1, c2}
  Earlier = {t1}
  None = None
  WebConcept = TRUE
  MaxAttempts = 2
  Client = {"late"}
  Faults = {}
CHECK_DEADLOCK FALSE
INVARIANTS ContinueAnswersItsMessage
