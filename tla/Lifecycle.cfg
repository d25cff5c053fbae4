SPECIFICATION Spec
CONSTANTS
    Specs = {"s1"}
    BadSpecs = {}
    Contents = {"a", "b", "manual"}
    Manifest <- MCManifest
    NoObj = NoObj
    Disturbances = {"delete", "upgrade"}
    MaxUid = 2
    MaxEdits = 1
    MaxFaults = 1
INVARIANT FinalizerHeldWhileWorking
INVARIANT OutdatedTunedRemovedFirst
PROPERTY ImplementsLifecycle
PROPERTY CreatedForHeldProfile
CHECK_DEADLOCK FALSE
