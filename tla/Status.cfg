SPECIFICATION Spec
CONSTANTS
    Nodes = {"n1", "n2"}
    Texts = {"none", "applied", "ok", "no", "error", "warning", "why"}
    KubeletTypes = {"Success", "Failure"}
    PoolReports <- MCPoolReports
    TunedReports <- MCTunedReports
    MaxChanges = 3
    MaxTime = 1
INVARIANT SettledStatusTrue
PROPERTY StatusEventuallyTrue
