\* A branch and a package acquisition, two history readers, or a branch and a
\* reader, each against maintenance.
SPECIFICATION SliceSpec
CONSTANTS
    b1 = b1
    p1 = p1
    r1 = r1
    r2 = r2
    c1 = c1
    Objects = {o1, o2}
    Branches = {b1}
    Packages = {p1}
    Readers = {r1, r2}
    Collectors = {c1}
    Gids = {g1, g2, g3}
    MaxGen = 2
    NoGid = NoGid
    NoStore = NoStore
    NoFile = NoFile
    NoHash = NoHash
    NoSnapshot = NoSnapshot
    Free = Free
SYMMETRY Symmetry
INVARIANTS HistoryCovered LeaseReadable SnapshotCovers IInv
PROPERTY KeepRooted
