\* Requests: preparation, package view, jobs and queries
SPECIFICATION PartsSpec
CONSTANTS
  None = None
  Nobody = Nobody
  Preparer = Preparer
  Refresher = Refresher
  Gone = Gone
  Link = Link
  Same = Same
  s1 = s1
  s2 = s2
  f1 = f1
  f2 = f2
  c1 = c1
  c2 = c2
  q1 = q1
  q2 = q2
  Sessions = {s1, s2}
  Files = {f1, f2}
  Contents = {c1, c2}
  Legacy <- OneFile
  MaxWrites = 3
  MaxSeals = 2
  MaxFaults = 2
  Queries = {q1, q2}
  Workers = 1
  MaxVersion = 2
  MaxQueries = 2
  ProjectSources = {"a", "b"}
  Project = "project"
  Lists <- ProjectLists
  MaxEdits = 2
  Groups = {"g"}
  Askers = {"q"}
  SourceVersions = {"v1", "v2"}
  SourceFiles = {"a"}
  Listed <- ListedFiles
  ExtractionWorkers = 1
  Tasks = 2
  MaxSourceJobs = 3
  AssetCodes = {"c1", "c2"}
  AssetRevisions = {1, 2}
  MaxAssetJobs = 2
  MaxChanges = 2
SYMMETRY Symmetry
INVARIANTS
  RecoveredFirst WorkspaceTrue FlowTrue
PROPERTIES
  OnlyBuildsShow PublishesAll SourcesTrue AssetsTrue
CHECK_DEADLOCK FALSE
