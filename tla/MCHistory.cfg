\* Histories: discovery, pages and edits
SPECIFICATION PartsSpec
CONSTANTS
  None = None
  l1 = l1
  l2 = l2
  l3 = l3
SYMMETRY Symmetry
INVARIANTS
  WalkTrue EditsTrue
PROPERTIES
  LogTrue
CHECK_DEADLOCK FALSE
