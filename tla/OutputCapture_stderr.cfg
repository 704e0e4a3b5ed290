SPECIFICATION Spec
CONSTANTS
    MaxChunks = 2
    PipeCap = 1
    EarlyTimer = FALSE
    LaunchMayFail = FALSE
    ReadMayFail = FALSE
    WaitMayFail = FALSE
    MayFork = FALSE
INVARIANTS
    StderrExact
