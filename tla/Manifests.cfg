SPECIFICATION Spec
CONSTANTS
    Nil = Nil
    Bad = Bad
    Profiles <- MCProfiles
    RenderInputs <- MCRenderInputs
    PoolLabels <- MCPoolLabels
INVARIANTS AdmittedIsGenerated HugePagesAllocatedOnce ReservedAgree KubeletMemoryBalanced RenderedWhole
CHECK_DEADLOCK FALSE
