SPECIFICATION FairSpec
CONSTANTS
  p1 = p1
  p2 = p2
  p3 = p3
  h1 = h1
  c1 = c1
  c2 = c2
  Prompts = {p1, p2}
  Shells = {h1}
  Cancels = {c1, c2}
  InOrder = TRUE
  MaxTools = 1
  None = None
INVARIANTS
  TypeOK
  Exclusive
  
  SettlesIdle
PROPERTIES
  CallersReturn
CHECK_DEADLOCK FALSE
