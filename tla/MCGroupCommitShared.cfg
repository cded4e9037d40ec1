\* Two batches that share a file.
SPECIFICATION FairSpec
CONSTANTS
    Publishers = {"p1", "p2"}
    Scopes = {"s1"}
    Files = {"f1", "f2"}
    Objects = {"o1", "o2"}
    NoObject = NoObject
    NoOne = NoOne
    NoTx = NoTx
    ScopeOf <- TwoScopeOf
    Want <- TwoWant
    Work <- TwoWork
    Limit = 3
    MaxFaults = 1
    MaxOthers = 1
INVARIANTS IInv BoundLive Resilient AnswersTrue
PROPERTIES Atomic AllAnswered
\* Publishers end, and nothing else must happen.
CHECK_DEADLOCK FALSE
