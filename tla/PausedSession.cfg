SPECIFICATION Spec
CONSTANTS
    o1 = o1
    o2 = o2
    l1 = l1
    l2 = l2
    p1 = p1
    f1 = f1
    x1 = x1
    k1 = k1
    k2 = k2
    None = None
    t1 = t1
    b1 = b1
    Order = {o1, o2}
    Labor = {l1, l2}
    Part = {p1}
    Free = {f1}
    Extra = {x1}
    Of <- MCOf
    Quantity <- MCQuantity
    Technician = {t1}
    Bay = {b1}
    Clerk = {k1, k2}
    MaxStock = 3
    MaxInvoice = 2
    Plans <- MCPlans
INVARIANTS SessionsEnded
CHECK_DEADLOCK FALSE
