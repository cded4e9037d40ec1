\* An extension over a publication that failed.
SPECIFICATION Spec
CONSTANTS
  None = None
  Files = {"code", "asset", "extra"}
  Blobs = {"b1", "b2"}
  Revisions = {"c1", "c2"}
  Tree <- Commits
  Optional = {"asset"}
  Extra = {"extra"}
  Large = {"b2"}
  Pointers = {"b2"}
  MaxMoves = 2
  MaxFaults = 2
  MaxLost = 0
  MaxGenerations = 2
INVARIANT AppliedSources
CHECK_DEADLOCK FALSE
