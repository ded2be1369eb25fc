SPECIFICATION Spec
CONSTANTS
    Name <- MCName
    Text <- MCText
    Sfn <- MCSfn
    Loss <- MCLoss
    WithLfn <- MCLoss
    MaxLength = {"full"}
    Numbered <- MCNumbered
    Sum <- MCSum
    FirstSlots = 5
    Growth = 2
    MaxSlots = 7
    Leftovers <- MCLeftovers
    MaxErrors = 1
INVARIANTS
    ShortNamesDiffer
    NoOrphans
    FoundAgain
PROPERTY OthersKept
CHECK_DEADLOCK FALSE
