SPECIFICATION FairSpec
CONSTANTS
    Names = {"a", "b"}
    Selectors = {"s", "t"}
    NoObj = NoObj
    MaxUid = 3
    MaxEdits = 1
    MaxPending = 2
INVARIANT HeldSelectorsUnique
PROPERTY UniqueDeletionCompletes
CHECK_DEADLOCK FALSE
