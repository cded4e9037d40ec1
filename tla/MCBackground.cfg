\* Background: journal, watches, maintenance, memory, groups and default branch
SPECIFICATION PartsSpec
CONSTANTS
  None = None
  o1 = o1
  o2 = o2
  o3 = o3
  t1 = t1
  t2 = t2
  t3 = t3
  m1 = m1
  m2 = m2
  m3 = m3
  Branches = {m1, m2, m3}
  MaxRenames = 4
  Tasks = {t1, t2, t3}
  Capacity <- TwoAndOne
  Workers = 1
  MaxBytes = 3
  Kinds = {"batch", "file", "view"}
  Interval = 8
  Regular = 5
  RetryAfter = 1
  Soon = 1
  MaxWork = 2
  Dirs = {"d1", "d2"}
  Files = {"f1", "f2"}
  DirOf <- FileDir
  Readers = {"r1", "r2"}
  Reads <- ReaderDirs
  KernelQueue = 2
  Batch = 1
  Batches = 3
  EventLimit = 1
  MaxVersion = 1
  MaxWatches = 2
  Ops = {o1, o2, o3}
  MaxDays = 3
  Retain = 1
  MaxActive = 1
  MaxQueue = 2
  Limits <- Journals
SYMMETRY Symmetry
INVARIANTS
  WatchTrue MemoryTrue GroupsTrue FallbackKept
PROPERTIES
  LoopTrue CopyKept JournalTrue
CHECK_DEADLOCK FALSE
