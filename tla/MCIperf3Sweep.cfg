SPECIFICATION Spec
CONSTANTS
    NumberOfRuns = 2
    Affinities = {"cpu0"}
    ClientCpus = {"cpu1"}
    DefaultSizes <- MCDefaultSizes
    Settings <- MCSettings
    MaxOutside = 2
INVARIANTS
    NoServerLeft
    RowsAreResults
PROPERTIES
    SharedServerServes
