SPECIFICATION FairSpec
CONSTANTS
    s1 = s1
    pa = pa
    pb = pb
    N = 2
    Questions = {}
    Sessions = {s1}
    SessionOf <- OneSession
    Patterns = {pa, pb}
    PatternsOf <- OneThenTwo
    AlwaysOf <- OneThenTwo
    Rule <- AllAsk
    MaxFaults = 1
    MaxFetches = 2
INVARIANTS
    TypeOK
    
PROPERTIES
    Consented
    
CHECK_DEADLOCK FALSE
