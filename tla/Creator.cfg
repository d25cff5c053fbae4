SPECIFICATION MCSpec
CONSTANTS
    MaxNodes = 3
    MaxCores = 2
    MaxThreads = 2
    Nil = Nil
    Bad = Bad
    Clusters <- MCClusters
    Flags <- MCFlags
INVARIANTS TypeOK SequentialExact SiblingsTogether SplitOfTwoExact
INVARIANTS CreatedIsAdmitted SelectsThePool AppliesToComparedNodes NamesOnlineCPUs PanicsExplained ComparedNodesAlike GatheredIsTrue
CHECK_DEADLOCK FALSE
