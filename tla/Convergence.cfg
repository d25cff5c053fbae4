SPECIFICATION FairSpec
CONSTANTS
    Specs = {"s1", "s2"}
    BadSpecs = {"s2"}
    Contents = {"a", "b", "manual"}
    Manifest <- MCManifest
    NoObj = NoObj
    Disturbances = {"spec", "component", "status", "pool", "upgrade"}
    MaxUid = 1
    MaxEdits = 1
    MaxFaults = 1
INVARIANT SettledIsConverged
PROPERTY EventuallyConverged
CHECK_DEADLOCK FALSE
