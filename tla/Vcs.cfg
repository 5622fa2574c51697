SPECIFICATION Spec
CONSTANTS
  a = a
  b = b
  shared = shared
  other = other
  top = top
  bottom = bottom
  ea1 = ea1
  ea2 = ea2
  eb1 = eb1
  eb2 = eb2
  u1 = u1
  original = original
  Agents = {a, b}
  Paths = {shared, other}
  Regions = {top, bottom}
  Work <- OneEdit
  UserEdits = {u1}
  Scope <- OwnScope
  Tracked = {shared}
  Serial = TRUE
  SyncAfterSubmit = TRUE
  MaxChanges = 3
  MaxRollbacks = 2
  Original = original
  Missing = Missing
INVARIANTS
  TypeOK
  
  
PROPERTIES
  
  RollbackKeepsUserWork
SYMMETRY RegionSymmetry
