SPECIFICATION Spec
CONSTANTS
    Specs = {"s1"}
    BadSpecs = {}
    Contents = {"a", "b", "manual"}
    Manifest <- MCManifest
    NoObj = NoObj
    Disturbances = {"delete"}
    MaxUid = 1
    MaxEdits = 1
    MaxFaults = 0
PROPERTY DeletedBeforeReleased
CHECK_DEADLOCK FALSE
