CONSTANTS
    MaxClust = 6
    Names <- TwoNames
    Root = Root
    Fat32 = FALSE
    MaxErrors = 0
    MaxUnsynced = 0
    a = a
    b = b
SPECIFICATION RebuildSpec
INVARIANT FilesUnfragmented
CHECK_DEADLOCK FALSE
