SPECIFICATION FairSpec
CONSTANTS
    Names = {"a", "b"}
    Selectors = {"s", "t"}
    NoObj = NoObj
    MaxUid = 2
    MaxEdits = 0
    MaxPending = 2
PROPERTY EveryDeletionCompletes
CHECK_DEADLOCK FALSE
