SPECIFICATION Spec
CONSTANTS
  a1 = a1
  a2 = a2
  m1 = m1
  m2 = m2
  m3 = m3
  f1 = f1
  Agents = {a1, a2}
  Messages = {m1, m2}
  Dest <- TwoAgents
  Direct = {m1, m2}
  Framework = {}
  Nonblocking = {a1}
  External = {a1}
  Reassignable = {a2}
  Overlap = TRUE
  NoMessage = NoMessage
INVARIANTS
  BusyIsBacked
  CancelledIsStopped
PROPERTIES
  TerminalStable
