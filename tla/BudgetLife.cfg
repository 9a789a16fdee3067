SPECIFICATION FairSpec
CONSTANTS
    w1 = w1
    w2 = w2
    u1 = u1
    u2 = u2
    b1 = b1
    e1 = e1
    e2 = e2
    f1 = f1
    d1 = d1
    None = None
    Worker = {w1, w2}
    User = {u1, u2}
    Budget = {b1}
    Expense = {e1, e2}
    FundRequest = {f1}
    Document = {d1}
    Reversible = {}
    Call <- LifeCalls
    Due <- MCDue
    Founded <- MCNone
INVARIANT EngagedOnce
PROPERTY EveryRequestEnds
