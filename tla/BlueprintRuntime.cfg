SPECIFICATION Spec
CONSTANTS
  c1 = c1
  c2 = c2
  c3 = c3
  p1 = p1
  p2 = p2
  Calls = {c1, c2, c3}
  Streams = {c3}
  Plan <- OnePlan
  Found <- OneVenv
  Default = None
  Pythons = {p1, p2}
  Services = {1, 2, 3, 4}
  MaxEdits = 1
  None = None
  Bad = Bad
  Broken = Broken
INVARIANTS
  TypeOK
  ReadyIsHeld
  RightPython
  WillSettle
CHECK_DEADLOCK FALSE
