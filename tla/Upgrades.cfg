SPECIFICATION FairSpec
CONSTANTS
    c1 = c1
    c2 = c2
    None = None
    Runner = {c1, c2}
    Kind <- MCKind
    Like <- MCLike
    Undone <- MCUndone
    FileOf <- MCFileOf
    Base = 4
    Marker = 2
    MaxFaults = 5
INVARIANT ServesComplete
PROPERTIES ImplementsUpgrade EventuallyServes
