SPECIFICATION Spec
CONSTANTS
    Requests = {r1, r2, r3, r4, r5}
    MaxRequests = 4
    MaxWorkers = 2
INVARIANTS
    CounterExact
    SlotsExact
PROPERTIES
    NoOvertaking
