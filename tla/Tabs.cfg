SPECIFICATION FairSpec
CONSTANTS
    t1 = t1
    t2 = t2
    c1 = c1
    c2 = c2
    c3 = c3
    m1 = m1
    m2 = m2
    None = None
    Tab = {t1, t2}
    Call = {c1, c2, c3}
    Me <- MCMe
    Owner <- MCOwner
    MaxSession = 2
    Plans <- MCPlans
INVARIANTS StorageOfCurrentLogin LossExplained RotatedOnce
PROPERTIES EveryCallEnds
CHECK_DEADLOCK FALSE
