CONSTANTS
    Files = {"a.hdf", "b.img"}
    HdfNames = {"a.hdf"}
    NoFile = "none"
    Values = {1}
    Counts = {2, 3}
    Foreign = {"a.hdf"}
    Halved = {TRUE, FALSE}
    HDF_HEADER_SIZE = 2
    OffsetLow = 0
    CountRange = 8
    IntRange = 64
    CLONE_BUFFER_SIZE = 3
    MaxHeads = 2
    MaxSectors = 2
    MaxCylinders = 1
    MaxErrors = 0
SPECIFICATION Spec
INVARIANT CloneFaithful
