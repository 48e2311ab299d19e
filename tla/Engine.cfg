SPECIFICATION FairSpec
CONSTANTS
    TicksPerPulse = 2
    Projects <- MCProjects
    NoProject = NoProject
    Ports = {p1}
    NoPort = NoPort
    Deltas = {3, 5}
    SeekTargets = {5}
    LoopChoices <- MCLoopChoices
    MaxTick = 8
    MaxHeld = 1
INVARIANTS
    TypeOK
    NoStuckNotes
    NothingOverdue
    EveryCrossedNoteOnce
    SlaveInSync
PROPERTIES
    StopSilences
