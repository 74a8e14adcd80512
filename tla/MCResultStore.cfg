SPECIFICATION FairSpec
CONSTANTS
    sweep = sweep
    idle = idle
    storage = storage
    Info = info
    Recipe = {sweep, idle, storage}
    Rank <- MCRank
    Base = sweep
    Dependent = {idle}
    WithSummary = {sweep}
    MaxRuns = 2
    MaxCrashes = 2
    MaxFails = 1
INVARIANTS
    SavedIsWhole
    MeasuredOnce
    SizesOfTheSweep
PROPERTIES
    ResumeCompletes
CHECK_DEADLOCK FALSE
