SPECIFICATION FairSpec
CONSTANTS
    TicksPerPulse = 2
    Projects <- MCProjects
    NoProject = NoProject
    Ports = {p1}
    NoPort = NoPort
    Deltas = {3, 5}
    SeekTargets = {}
    LoopChoices = {}
    MaxTick = 8
    MaxHeld = 1
PROPERTY StopRewinds
