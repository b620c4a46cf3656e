SPECIFICATION FairSpec
CONSTANTS
    Ports = {p1, p2}
    Threads = {w1, w2}
    Names = {n1, n2}
    Addrs = {a4, a6, b6, sa, sb, u}
    Rids = {1, 2, 3, 4}
    Enabled = TRUE
    SlaacOf <- EuiOf
    Settings <- Both
    MaxOps = 3
    MaxFaults = 1
    NoName = NoName
    NoRecord = NoRecord
    NoHook = NoHook
    NoRid = NoRid
    NoAddr = NoAddr
    p1 = p1
    p2 = p2
    n1 = n1
    n2 = n2
    a4 = a4
    a6 = a6
    b6 = b6
    sa = sa
    sb = sb
    u = u
    w1 = w1
    w2 = w2
INVARIANT TypeOK
INVARIANT NamesResolve
INVARIANT NoStaleRecords
INVARIANT SlaacAuthorized
INVARIANT AskedPairsKept
PROPERTY HooksReturn
CHECK_DEADLOCK FALSE
