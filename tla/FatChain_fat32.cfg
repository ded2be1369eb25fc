CONSTANTS
    MaxClust = 5
    Names <- TwoNames
    Root = Root
    Fat32 = TRUE
    MaxErrors = 1
    MaxUnsynced = 1
    a = a
    b = b
SPECIFICATION Spec
INVARIANT TypeOK
INVARIANT NoCrossLink
INVARIANT NoDangling
INVARIANT NoLostClusters
 
SYMMETRY NamesAlike
