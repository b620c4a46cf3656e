SPECIFICATION Spec
CONSTANTS
    Ports = {p1, p2, p3, p4}
    VlanOf <- VlanOfPort
    Profiles <- Movable
    Slots = {a, b, c}
    SwitchOf <- OneSwitchButC
    Servers = {"s1"}
    Threads = {w1}
    ServerOf <- OneServer
    Vlans = {10, 20}
    DefaultVlan = 1
    DefaultListed = TRUE
    Retries = 2
    MaxOps = 7
    MaxFaults = 3
    NoPort = NoPort
    NoSlot = NoSlot
    NoTask = NoTask
    Blank = Blank
    p1 = p1
    p2 = p2
    p3 = p3
    p4 = p4
    a = a
    b = b
    c = c
    w1 = w1
    w2 = w2
INVARIANT TypeOK
INVARIANT LinksConfigured
INVARIANT DeletedPortsReset
PROPERTY NoForeignReset
CHECK_DEADLOCK FALSE
