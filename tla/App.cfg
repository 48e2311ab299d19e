SPECIFICATION Spec
CONSTANTS
    Devices = {d1, d2}
    NoDevice = NoDevice
    Paths = {f}
    NoPath = NoPath
    Files <- MCFiles
    MaxNoteId = 4
    NewNotes <- MCNewNotes
    Starts <- MCStarts
    Lengths = {0}
    Tempos = {120}
    Regions <- MCRegions
    Hotplugged = {d2}
    MaxEdits = 1
INVARIANTS
    TypeOK
    EngineInSync
    RoundTrip
    IdsFresh
    PanelShowsPort
PROPERTIES
    EditsAreLocal
