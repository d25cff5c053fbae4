SPECIFICATION Spec
CONSTANTS
    MaxNodes = 3
    MaxCores = 2
    MaxThreads = 2
INVARIANT SplitExact
CHECK_DEADLOCK FALSE
