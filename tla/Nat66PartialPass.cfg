SPECIFICATION Spec
CONSTANTS
    Nets = {n1, n2}
    Subnets = {s1, s2}
    NetOf <- OneNetEach
    Ifaces = {wan, wan2, vpn}
    Wans = {wan, wan2}
    EgressTag <- SecondByVpn
    EgressOption = NoName
    Pids = {1, 2, 3, 4}
    MaxAttempts = 4
    MaxIndex = 1
    MaxOps = 3
    MaxFaults = 1
    Manual = Manual
    NoName = NoName
    NoPid = NoPid
    NoSubnet = NoSubnet
    NoIndex = NoIndex
    Absent = Absent
    s1 = s1
    s2 = s2
    n1 = n1
    n2 = n2
    wan = wan
    wan2 = wan2
    vpn = vpn
PROPERTY CleanupSparesTagged
