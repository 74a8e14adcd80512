SPECIFICATION Spec
CONSTANTS
    Folder = {"a/run", "run", "old"}
    Recipe = {"latency-sweep", "bandwidth-sweep", "peak-bandwidth", "ucie"}
    MaxSaves = 2
    RunName <- MCRunName
    Results <- MCResults
    Commands <- MCCommands
    OldRuns <- MCOldRuns
INVARIANTS
    ViewShowsWholeResults
    DiffAgrees
