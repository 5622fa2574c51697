SPECIFICATION Spec
CONSTANTS
  p1 = p1
  p2 = p2
  p3 = p3
  h1 = h1
  c1 = c1
  c2 = c2
  Prompts = {p1, p2, p3}
  Shells = {}
  Cancels = {c1}
  InOrder = TRUE
  MaxTools = 0
  None = None
INVARIANTS
  BusyIsSeen
SYMMETRY Alike
CHECK_DEADLOCK FALSE
