\* Two hydrations download the same object.
SPECIFICATION Spec
CONSTANTS
  Importers = {}
  Hydrators = {h1, h2}
  Contents = {c1}
  None = None
  Inodes = {1, 2, 3, 4, 5, 6, 7, 8}
  KillsAllowed = FALSE
  MaxRuns = 1
INVARIANT Disposable
CHECK_DEADLOCK FALSE
