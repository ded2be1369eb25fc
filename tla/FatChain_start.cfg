CONSTANTS
    MaxClust = 5
    Names <- TwoNames
    Root = Root
    Fat32 = TRUE
    MaxErrors = 1
    MaxUnsynced = 0
    a = a
    b = b
SPECIFICATION Spec
INVARIANT StartClusterValid
