SPECIFICATION FairSpec
CONSTANTS
  s1 = s1
  s2 = s2
  l1 = l1
  l2 = l2
  r1 = r1
  r2 = r2
  Sessions = {s1}
  Loops = {l1, l2}
  Requests = {r1, r2}
  Session <- AboutOne
  Deletes = {r2}
  OneWriter = TRUE
  MaxEvents = 3
  MaxDrops = 1
  BatchSize = 2
  None = None
INVARIANTS
  TypeOK
  
  FenceHolds
  HandedOver
PROPERTIES
  
  CatchesUp
CHECK_DEADLOCK FALSE
