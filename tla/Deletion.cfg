SPECIFICATION FairSpec
CONSTANTS
    Specs = {"s1"}
    BadSpecs = {}
    Contents = {"a", "b", "manual"}
    Manifest <- MCManifest
    NoObj = NoObj
    Disturbances = {"delete"}
    MaxUid = 1
    MaxEdits = 1
    MaxFaults = 1
PROPERTY DeletionCompletes
CHECK_DEADLOCK FALSE
