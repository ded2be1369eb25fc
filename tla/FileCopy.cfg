SPECIFICATION Spec
CONSTANTS
    Lengths <- MCLengths
    Names <- MCNames
    Rooms <- MCRooms
    CSizes = {1, 2}
    NClust = 3
    SS = 2
    BufferSize = 4
    MaxErrors = 1
INVARIANTS
    StoredIsPrefix
    OnlyFailedMissing
    GetExact
    RebuildCopies
PROPERTY CommandsEnd
CHECK_DEADLOCK FALSE
