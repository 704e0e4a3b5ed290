SPECIFICATION FairSpec
CONSTANTS
    Handlers = {h1}
    NodeRuns = {n1}
    Lines <- MCLines
    Comments <- MCComments
    Blank <- MCBlank
    MaxTicks = 1
    CallsMayFail = TRUE
    PipMayFail = TRUE
    CopyMayFail = TRUE
INVARIANTS
    ListedIsInstalled
    RefreshAnswersAll
    SandboxHasRequirements
    InstallCleansUp
    CrashHasCause
PROPERTIES
    EveryHandlerAnswers
