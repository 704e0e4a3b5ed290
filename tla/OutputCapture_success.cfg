SPECIFICATION Spec
CONSTANTS
    MaxChunks = 1
    PipeCap = 1
    EarlyTimer = FALSE
    LaunchMayFail = FALSE
    ReadMayFail = FALSE
    WaitMayFail = FALSE
    MayFork = FALSE
INVARIANTS
    SuccessKeepsErrorEmpty
