SPECIFICATION FairSpec
CONSTANTS
  a1 = a1
  a2 = a2
  m1 = m1
  m2 = m2
  m3 = m3
  f1 = f1
  Agents = {a1}
  Messages = {m1, m2, f1}
  Dest <- OneAgent
  Direct = {}
  Framework = {f1}
  Nonblocking = {}
  External = {}
  Reassignable = {}
  Overlap = FALSE
  NoMessage = NoMessage
INVARIANTS
  TypeOK
  OneTurn
  QueuedOnce
  DispatchingHasTurn
  ReadyMeansQuiet
  
PROPERTIES
  QueueDrains
