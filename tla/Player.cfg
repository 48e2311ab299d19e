SPECIFICATION FairPlayerSpec
CONSTANTS
    TicksPerPulse = 2
    Projects <- MCProjects
    NoProject = NoProject
    Ports = {p1}
    NoPort = NoPort
    Deltas = {1, 2, 4, 5}
    SeekTargets = {}
    LoopChoices = {}
    MaxTick = 16
    MaxHeld = 2
    Files <- MCFiles
    Fraction = 4
    Rate = 3
    Precision = 2
    Gains = {0, 3, 4, 11}
    Double <- Coarse
INVARIANTS
    PlayerTypeOK
    AloneWithEngine
    SilentAtExit
    MeasuredTicksPlayed
PROPERTIES
    ExitsAfterInterrupt
    CallReturns
