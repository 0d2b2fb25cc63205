SPECIFICATION FairSpec
CONSTANTS
  JobIds = {j1, j2, j3}
  Manuscripts = {ms1}
  WebConcepts = {ms1}
  Messages = {m1, m2, m3}
  None = None
  MaxJobs = 2
  MaxRounds = 2
  MinUrls = 3
  MaxUrls = 3
  LegacyStatus = {"running"}
  Environments = {{"restart"}, {"setup", "store"}}
INVARIANTS OneJobPerMessage UsageCountsJobs ReadyJobHasEvidence WorkerMatchesRow EachRoundEarned FinishedTaskSettledJob
PROPERTIES QuotaHolds SettledIsFinal LifecycleSpec JobsSettle
CHECK_DEADLOCK FALSE
