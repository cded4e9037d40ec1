\* A workspace with two files, or two workspaces that share an object
SPECIFICATION SliceSpec
CONSTANTS
  None = None
  w1 = w1
  w2 = w2
  f1 = f1
  o1 = o1
  Workspaces = {w1, w2}
  Files = {f1, f2}
  Objects = {o1, o2}
  Inputs = {i1}
  Readers = {r1}
  MaxSpaces = 2
  MaxOrdinals = 2
  MaxNow = 1
INVARIANT StoreTrue
