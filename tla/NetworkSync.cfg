SPECIFICATION Spec
CONSTANTS
    Nets = {n1, n2}
    External = {}
    Vlans = {10, 20}
    Versions = {4}
    Uids = {1, 2, 3}
    Hooks = {h1}
    HandMade <- EmptyController
    ZoneConfigured = TRUE
    SyncEnabled = TRUE
    Drift = FALSE
    RejectsTakenVlan = TRUE
    MaxOps = 3
    MaxFaults = 0
    Sync = sync
    ManualName = manual
    NoVlan = NoVlan
    NoNet = NoNet
    NoUid = NoUid
    Absent = Absent
    Unborn = Unborn
    Gone = Gone
INVARIANT TypeOK
PROPERTY CleanupSparesListed
