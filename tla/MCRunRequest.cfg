SPECIFICATION RequestSpec
CONSTANTS
    Recipe <- RECIPES
    Sessions <- MCSessions
    Disks <- MCDisks
    Machines <- MCMachines
INVARIANTS
    PlanIsSound
    SettingsReachRecipes
    SavedFileRoundTrips
    RunIsReported
