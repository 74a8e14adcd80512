SPECIFICATION Spec
CONSTANTS
    p1 = p1
    p2 = p2
    Process = {p1, p2}
    Free = Free
    RetryCount = 2
    MayClear = {p1, p2}
    Sharing = {p1, p2}
    Forced = {p2}
    MayLackStdin = {p1, p2}
    MaxKills = 1
INVARIANTS
    MachineAsBefore
    AbortsOnlyIfDisturbed
PROPERTIES
    ImplementsLock
    MutexAnswers
CHECK_DEADLOCK FALSE
