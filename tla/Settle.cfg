SPECIFICATION Spec
CONSTANTS
    Specs = {"s1"}
    BadSpecs = {}
    Contents = {"a", "b", "manual"}
    Manifest <- MCManifest
    NoObj = NoObj
    Disturbances = {"component", "status", "pool", "pause"}
    MaxUid = 1
    MaxEdits = 2
    MaxFaults = 0
INVARIANT TypeOK
INVARIANT SettledIsConverged
PROPERTY PausedEditsKept
CHECK_DEADLOCK FALSE
