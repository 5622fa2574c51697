SPECIFICATION Spec
CONSTANTS
  c1 = c1
  c2 = c2
  c3 = c3
  p1 = p1
  p2 = p2
  Calls = {c1, c2, c3}
  Streams = {c3}
  Plan <- OnePlan
  Found <- Everywhere
  Default = p1
  Pythons = {p1, p2}
  Services = {1, 2, 3}
  MaxEdits = 0
  None = None
  Bad = Bad
  Broken = Broken
INVARIANT NoneLeft
CHECK_DEADLOCK FALSE
