SPECIFICATION Spec
CONSTANTS
    r1 = r1
    r2 = r2
    r3 = r3
    Requestor = {r1, r2, r3}
    NodeCount = 2
    Size = {1, 2}
    Available <- MCAvailable
    RequestInfo <- MCRequestInfo
    DisableResize = FALSE
    MaxCount = 2
    InitialPages = {0, 2}
INVARIANTS
    AcquiredIsBacked
    RequestCoversMemory
    GrantedBySize
    RestoredWhenReleased
    SystemPagesKept
CHECK_DEADLOCK FALSE
