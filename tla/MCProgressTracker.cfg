SPECIFICATION BarFairSpec
CONSTANTS
    Script <- MCScript
    Finally = 7
    AnimSteps = 3
    SignalAt = {"op", "queue", "join"}
    MayInterrupt = TRUE
    MaxResizes = 2
INVARIANTS
    QuietAtEnd
PROPERTIES
    BarEnds
