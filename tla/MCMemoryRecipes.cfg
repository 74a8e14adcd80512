SPECIFICATION RecipesSpec
CONSTANTS
    MaxSize = 32
    MaxFaults = 2
    MaxTime = 6
    MaxHotplugs = 1
    Level <- MCLevel
    Machines <- MCMachines
    UserRanges <- MCUserRanges
    Systems <- MCSystems
    InjectedNops <- MCInjectedNops
    SweepSteps <- MCSweepSteps
    FioRuns <- MCFioRuns
INVARIANTS
    LevelsFound
    CpusAccountedFor
    TablesSayWhatWasMeasured
    MachineReported
PROPERTIES
    SweepConverges
