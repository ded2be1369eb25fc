CONSTANTS
    DiskSizes <- TornSizes
    Requests = {"auto"}
SPECIFICATION Spec
INVARIANT MountedAsFormatted
