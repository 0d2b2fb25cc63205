SPECIFICATION FairSpec
CONSTANTS
  Slots = {c1, c2}
  MaxSearches = 2
  MaxFetches = 2
  MaxSteps = 2
  MaxAttempts = 2
  MaxRedirects = 1
  RetryAfter = {100}
  MaxBackoff = 8
INVARIANTS BudgetHolds ReturnsSettled NoFailureIsLost CallIsBounded CheckedBeforeContact
PROPERTY RunEnds
CHECK_DEADLOCK FALSE
