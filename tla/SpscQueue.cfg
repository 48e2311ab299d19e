SPECIFICATION Spec
CONSTANTS
    Values = {a, b}
    Capacity = 3
    NoValue = NoValue
INVARIANTS
    TypeOK
    NoSlotShared
PROPERTIES
    ImplementsFifo
