SPECIFICATION FairSpec
CONSTANTS
  Turns = {t1, t2}
  Kinds = {"document"}
  MaxRuns = 3
  Polls = {p1, p2}
  None = None
  Environments = {{"lost"}, {"cut", "lost"}, {"reload"}, {"overlap", "rush"}, {"resume"}}
INVARIANTS VersionsAreWhole CopiesOnlyAfterTear ListIsInOrder LockedWhileResearching
PROPERTIES SavedIsShown LockEnds
CHECK_DEADLOCK FALSE
