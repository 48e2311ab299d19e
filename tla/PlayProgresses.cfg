SPECIFICATION FairPlaySpec
CONSTANTS
    Devices = {d1}
    NoDevice = NoDevice
    Paths = {f}
    NoPath = NoPath
    Files <- MCFiles
    MaxNoteId = 3
    NewNotes = {}
    Starts = {}
    Lengths = {}
    Tempos = {}
    Regions = {}
    Hotplugged = {}
    MaxEdits = 0
PROPERTY PlayProgresses
