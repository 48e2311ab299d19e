SPECIFICATION FairSpec
CONSTANTS
    TicksPerPulse = 2
    Projects <- MCProjects
    NoProject = NoProject
    Ports = {p1}
    NoPort = NoPort
    Deltas = {1, 2}
    SeekTargets = {}
    LoopChoices = {}
    MaxTick = 8
    MaxHeld = 1
INVARIANT LoopNeverLeft
