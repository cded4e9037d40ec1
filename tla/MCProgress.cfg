\* Progress: every wait ends
SPECIFICATION FairSpec
CONSTANTS
  None = None
  q1 = q1
  q2 = q2
  preparer = preparer
  refresher = refresher
  Roots = {"r1"}
  Queries = {q1, q2}
  MaxObjects = 2
  MaxEnds = 2
INVARIANTS
  RegistryTrue
PROPERTIES
  CallersReturn JobsEnd LeftoversRemoved
CHECK_DEADLOCK FALSE
