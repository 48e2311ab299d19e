SPECIFICATION FairSpec
CONSTANTS
    Devices = {}
    NoDevice = NoDevice
    Paths = {"two", "one"}
    Files <- MCFiles
    MaxNoteId = 2
    PickerBase = 3
    Snaps = {2, 4}
    DefaultSnap = 2
    Points <- MCPoints
    Deltas <- MCDeltas
    Stale <- MCStale
    MaxEdits = 1
INVARIANTS
    TypeOK
    EditsGoWhereShown
    GestureHasNote
    PickerShowsPattern
PROPERTIES
    OnGrid
    PickerCatchesUp
