\* Progress of the operation mutex; no symmetry, which is unsound for liveness.
SPECIFICATION FairSpec
CONSTANTS
    Objects = {o1}
    Branches = {}
    Packages = {p1}
    Readers = {r1}
    Collectors = {c1}
    Gids = {g1, g2, g3}
    MaxGen = 1
    NoGid = NoGid
    NoStore = NoStore
    NoFile = NoFile
    NoHash = NoHash
    NoSnapshot = NoSnapshot
    Free = Free
PROPERTY OperationEnds
