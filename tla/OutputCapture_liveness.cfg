SPECIFICATION FairSpec
CONSTANTS
    MaxChunks = 2
    PipeCap = 1
    EarlyTimer = FALSE
    LaunchMayFail = TRUE
    ReadMayFail = TRUE
    WaitMayFail = FALSE
    MayFork = FALSE
PROPERTIES
    KeepsContract
    DecidesEveryRun
