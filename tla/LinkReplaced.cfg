SPECIFICATION Spec
CONSTANTS
    Ports = {p1, p2}
    VlanOf <- VlanOfPort
    Profiles <- SecondReplaced
    Slots = {a, b, c}
    SwitchOf <- OneSwitchButC
    Servers = {"s1"}
    Threads = {w1}
    ServerOf <- OneServer
    Vlans = {10, 20}
    DefaultVlan = 1
    DefaultListed = TRUE
    Retries = 2
    MaxOps = 3
    MaxFaults = 0
    NoPort = NoPort
    NoSlot = NoSlot
    NoTask = NoTask
    Blank = Blank
    p1 = p1
    p2 = p2
    p3 = p3
    p4 = p4
    a = a
    b = b
    c = c
    w1 = w1
    w2 = w2
INVARIANT LinksConfigured
CHECK_DEADLOCK FALSE
