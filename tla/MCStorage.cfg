\* Storage: compaction, blobs and views
SPECIFICATION PartsSpec
CONSTANTS
  None = None
  i1 = i1
  h1 = h1
  v1 = v1
  x1 = x1
  x2 = x2
  Users = {u1, u2}
  Inodes = {n1, n2, n3, n4}
  Importers = {i1, i2}
  Hydrators = {h1, h2}
  Contents = {x1, x2}
  BlobInodes = {1, 2, 3, 4, 5, 6, 7, 8}
  KillsAllowed = TRUE
  MaxRuns = 1
  Workspaces = {k1, k2}
  Views = {v1, v2}
  MaxDiscoveries = 2
  MaxPasses = 2
  MaxFaults = 1
  FaultsAllowed = TRUE
  MaxCommits = 3
  MaxCopies = 2
  MaxDeaths = 2
SYMMETRY Symmetry
INVARIANTS
  NothingLost HandleTrue BlobsTrue
PROPERTIES
  LeasesTrue
CHECK_DEADLOCK FALSE
