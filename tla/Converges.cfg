SPECIFICATION FairSpec
CONSTANTS
    Nets = {n1, n2, n3}
    External = {n3}
    Vlans = {10, 30}
    Versions = {4}
    Uids = {1, 2, 3, 4}
    Hooks = {h1}
    HandMade <- OneByHand
    ZoneConfigured = FALSE
    SyncEnabled = TRUE
    Drift = TRUE
    RejectsTakenVlan = TRUE
    MaxOps = 2
    MaxFaults = 2
    Sync = sync
    ManualName = manual
    NoVlan = NoVlan
    NoNet = NoNet
    NoUid = NoUid
    Absent = Absent
    Unborn = Unborn
    Gone = Gone
INVARIANT HandMadeUntouched
PROPERTY NetworksMirrored
PROPERTY OrphansRemoved
PROPERTY OnlySubnetServed
CHECK_DEADLOCK FALSE
