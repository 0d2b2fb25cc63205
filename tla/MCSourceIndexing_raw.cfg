SPECIFICATION Spec
CONSTANTS
  a = a
  b = b
  a1 = a1
  a2 = a2
  b1 = b1
  f1 = f1
  f2 = f2
  f3 = f3
  jobA = jobA
  jobB = jobB
  None = None
  Urls = {a, b}
  Pages = {a1, a2, b1}
  PageUrl <- MCPageUrl
  Attempts = {f1, f2, f3}
  Job <- MCJob
  Environments = {{"overlap"}}
INVARIANT IndexedHasRaw
CHECK_DEADLOCK FALSE
