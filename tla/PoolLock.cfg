SPECIFICATION FairSpec
CONSTANTS
    Threads = {w1, w2, w3}
    w1 = w1
    w2 = w2
    w3 = w3
    Size = 2
    Coordinated = TRUE
    Renew = TRUE
    Timed = {w1}
    NoLock = NoLock
    NoThread = NoThread
    MaxEntries = 2
    Dead = Dead
    MaxFaults = 2
    MaxEvictions = 1
INVARIANT TypeOK
INVARIANT AtMostPoolSize
PROPERTY ImplementsCountingLock
PROPERTY TryingEnds
CHECK_DEADLOCK FALSE
