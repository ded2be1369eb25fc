CONSTANTS
    DiskSizes <- AllSizes
    Requests = {"auto", "FAT12", "FAT16", "FAT32"}
SPECIFICATION Spec
INVARIANT TypeOK
INVARIANT WritesApart
INVARIANT MountFindsAreas
INVARIANT DataInside
INVARIANT FatCoversClusters
INVARIANT FsInfoExact
INVARIANT MountedAsFormattedElsewhere
