CONSTANTS
    Files = {"a.hdf", "b.img"}
    HdfNames = {"a.hdf"}
    NoFile = "none"
    Values = {1}
    Counts = {1, 2}
    Foreign = {"b.img"}
    Halved = {FALSE}
    HDF_HEADER_SIZE = 3
    OffsetLow = 1
    CountRange = 2
    IntRange = 32
    CLONE_BUFFER_SIZE = 3
    MaxHeads = 2
    MaxSectors = 2
    MaxCylinders = 1
    MaxErrors = 1
SPECIFICATION FairSpec
INVARIANT TypeOK
INVARIANT Reopens
INVARIANT TransferExact
INVARIANT NeverAtEof
INVARIANT EverySectorReachable
INVARIANT CloneFaithful
INVARIANT GeometryExact
PROPERTY CallsReturn
