CONSTANTS
    MaxClust = 5
    Names <- TwoNames
    Root = Root
    Fat32 = FALSE
    MaxErrors = 0
    MaxUnsynced = 0
    a = a
    b = b
SPECIFICATION FairSpec
INVARIANT NoCrossLink
INVARIANT NoDangling
INVARIANT FullOnlyWhenFull
PROPERTY OthersUntouched
PROPERTY TableOnlyGrows
PROPERTY CallsReturn
