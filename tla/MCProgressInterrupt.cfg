SPECIFICATION BarFairSpec
CONSTANTS
    Script <- MCScript
    Finally = 7
    AnimSteps = 3
    SignalAt = {"op", "notify", "queue", "join"}
    MayInterrupt = TRUE
    MaxResizes = 0
PROPERTIES
    InterruptEnds
CHECK_DEADLOCK FALSE
