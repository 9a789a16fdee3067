SPECIFICATION Spec
CONSTANTS
    a1 = a1
    s1 = s1
    s2 = s2
    o1 = o1
    l1 = l1
    l2 = l2
    k1 = k1
    k2 = k2
    i1 = i1
    i2 = i2
    c1 = c1
    c2 = c2
    n1 = n1
    n2 = n2
    None = None
    Agency = {a1}
    Location = {s1, s2}
    Site <- MCSite
    Order = {o1}
    Line = {l1, l2}
    Of <- MCOf
    Buyer <- MCBuyer
    Amount = {1, 2}
    Key = {k1, k2}
    Clerk = {c1, c2}
    Plans <- MCPlans
    Invoice = {i1, i2}
    Credit = {n1, n2}
    Bills <- MCBills
SYMMETRY Alike
INVARIANT BilledOnce
CHECK_DEADLOCK FALSE
