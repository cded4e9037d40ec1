\* Branches: refresh and admission
SPECIFICATION PartsSpec
CONSTANTS
  None = None
  Callers = {t1, t2, t3}
  Identities = {i1, i2, i3}
  Versions = {"x1"}
  Wants <- Everything
  Permits = 1
  MaxCalls = 3
  Files = {"code", "asset", "extra"}
  Blobs = {"b1", "b2"}
  Revisions = {"c1", "c2"}
  Tree <- Commits
  Optional = {"asset"}
  Extra = {"extra"}
  Large = {"b2"}
  Pointers = {"b2"}
  MaxMoves = 2
  MaxFaults = 1
  MaxLost = 1
  MaxGenerations = 2
INVARIANTS
  GatePermitsKept
PROPERTIES
  RefreshTrue
CHECK_DEADLOCK FALSE
