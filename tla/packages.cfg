\* One developer: runs from two commits, with and without -clean, that fail or
\* are killed anywhere, and lost writes.
CONSTANTS
  windows = windows
  linux = linux
  Tools = {t1}
  Targets <- TwoTargets
  Inherited = linux
  Commits = {c1, c2}
  MaxRuns = 3
  MaxFaults = 3
  Null = Null
SPECIFICATION FairSpec
INVARIANTS
  TypeOK
  ListedIsIntact
  SuccessComplete
  SuccessVerifies
  ReplacedOnlyWithClean
PROPERTIES
  CleanSucceeds
