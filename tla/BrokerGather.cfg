SPECIFICATION FairSpec
CONSTANTS
  o = o
  w = w
  o1 = o1
  o2 = o2
  w1 = w1
  r1 = r1
  r2 = r2
  id = id
  Agents = {o, w}
  Conns = {o1, o2, w1}
  AgentOf <- TwoOrchestrators
  Requests = {r1, r2}
  Ids = {id}
  IdOf <- SameId
  Initiator <- Senders
  Items <- EachOther
  Silent = {w}
  Broken = {o1}
  Heart = Heart
  None = None
INVARIANTS
  OneResult
  
  GatherIsServed
 
CHECK_DEADLOCK FALSE
