SPECIFICATION Spec
CONSTANTS
  a = a
  b = b
  a1 = a1
  a2 = a2
  b1 = b1
  f1 = f1
  f2 = f2
  f3 = f3
  jobA = jobA
  jobB = jobB
  None = None
  Urls = {a, b}
  Pages = {a1, a2, b1}
  PageUrl <- MCPageUrl
  Attempts = {f1, f2, f3}
  Job <- MCJob
  Environments = {{"overlap", "exclude", "crash", "torn", "cleanup"},
                  {"exclude", "crash", "torn", "cleanup"}, {"crash", "torn", "cleanup"}}
INVARIANTS IndexedIsSearchable CanonicalResolvesToItself IndexedHasItsRaw OnlyIndexedIsSearchable
PROPERTIES AliasesStay OnlyInFlightRestores
CHECK_DEADLOCK FALSE
