SPECIFICATION Spec
CONSTANTS
    Nets = {n1, n2}
    External = {}
    Vlans = {10, 20}
    Versions = {4, 6}
    Uids = {1, 2, 3, 4, 5}
    Hooks = {h1}
    HandMade <- TwoInTheWay
    ZoneConfigured = TRUE
    SyncEnabled = FALSE
    Drift = FALSE
    RejectsTakenVlan = TRUE
    MaxOps = 6
    MaxFaults = 0
    Sync = sync
    ManualName = manual
    NoVlan = NoVlan
    NoNet = NoNet
    NoUid = NoUid
    Absent = Absent
    Unborn = Unborn
    Gone = Gone
INVARIANT HooksMirror
INVARIANT HooksServeNoStaleSubnet
PROPERTY ImplementsMirror
CHECK_DEADLOCK FALSE
