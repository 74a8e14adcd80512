SPECIFICATION FairSpec
CONSTANTS
    NServer = 1
    NLoad = 2
    UseInt = {1}
    Stubborn = {2}
INVARIANTS
    FailureIsReal
    InterruptedLoadsStopped
PROPERTIES
    NoSpawnAfterStop
    Ends
