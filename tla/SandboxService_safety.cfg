SPECIFICATION Spec
CONSTANTS
    Requests = {r1, r2, r3}
    MaxRequests = 2
    MaxWorkers = 2
    MinUid = 10
    MaxUid = 12
    CallsMayFail = TRUE
    MayPanic = TRUE
INVARIANTS
    UidOutlivesRun
    UidAccounted
    ReplyAfterCleanup
    RestoredWhenIdle
    UidAlwaysThere
    RunsApart
PROPERTIES
    RunsFollowContract
SYMMETRY Symmetry
CHECK_DEADLOCK FALSE
