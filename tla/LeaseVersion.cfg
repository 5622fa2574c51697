SPECIFICATION Spec
CONSTANTS
  w1 = w1
  w2 = w2
  w3 = w3
  r1 = r1
  r2 = r2
  Writers = {w1, w2}
  Readers = {r1}
  Owner <- TwoAgents
  Stalling = {}
  None = None
PROPERTY VersionGuard
CHECK_DEADLOCK FALSE
