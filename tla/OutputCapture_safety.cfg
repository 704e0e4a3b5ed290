SPECIFICATION Spec
CONSTANTS
    MaxChunks = 2
    PipeCap = 1
    EarlyTimer = TRUE
    LaunchMayFail = TRUE
    ReadMayFail = TRUE
    WaitMayFail = TRUE
    MayFork = TRUE
INVARIANTS
    TypeOK
    StdoutExact
    StderrSlipsByOne
    HookReleasesOnce
    KillIsReported
    StatusWithoutTimeout
