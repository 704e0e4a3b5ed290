SPECIFICATION FairSpec
CONSTANTS
    Requests = {r1, r2, r3}
    MaxRequests = 3
    MaxWorkers = 2
    MinUid = 10
    MaxUid = 11
    CallsMayFail = FALSE
    MayPanic = FALSE
INVARIANTS
    SomebodyGoesOn
PROPERTIES
    EveryRequestLeaves
