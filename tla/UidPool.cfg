SPECIFICATION FairSpec
CONSTANTS
    Clients = {c1, c2, c3, c4, c5}
    MinUid = 10
    MaxUid = 12
INVARIANTS
    TypeOK
    EveryUidOnce
    WaitOnlyWhenEmpty
PROPERTIES
    NoOvertaking
    WaiterServed
    KeepsLease
