SPECIFICATION Spec
CONSTANTS
    Clients = {c1, c2}
    Names = {qgs}
    QgisNames = {qgs}
    Unversioned = {}
    MaxVersion = 4
    KeepCount = 1
    Quota = 2
    Exempt = {}
    NoName = NoName
    MaxCrashes = 1
CHECK_DEADLOCK FALSE
SYMMETRY Symmetric
INVARIANT StoredVersions
INVARIANT NeverEmptied
INVARIANT StorageWithinPlan
