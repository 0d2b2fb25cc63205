SPECIFICATION Spec
CONSTANTS
  JobIds = {j1}
  Manuscripts = {ms1}
  WebConcepts = {ms1}
  Messages = {m1}
  None = None
  MaxJobs = 2
  MaxRounds = 3
  MinUrls = 3
  MaxUrls = 3
  LegacyStatus = {}
  Environments = {{"restart"}}
INVARIANT NoInterruptedJobOpen
CHECK_DEADLOCK FALSE
