CONSTANTS
    r1 = r1
    r2 = r2
    r3 = r3
    Requests <- MCRequests
    WithFail <- MCWithFail
    Close = Close
SPECIFICATION FairSpec
INVARIANTS
    InOnePlace
PROPERTIES
    KeepsPromise
    DestructorReturns
CHECK_DEADLOCK FALSE
