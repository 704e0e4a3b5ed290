SPECIFICATION Spec
CONSTANTS
    Requests = {r1, r2}
    MaxRequests = 2
    MaxWorkers = 2
    MinUid = 10
    MaxUid = 12
    CallsMayFail = FALSE
    MayPanic = FALSE
INVARIANTS
    NodeStartsInItsRoot
