SPECIFICATION Spec
CONSTANTS
    w1 = w1
    w2 = w2
    u1 = u1
    u2 = u2
    e1 = e1
    e2 = e2
    r1 = r1
    r2 = r2
    t1 = t1
    q1 = q1
    q2 = q2
    p1 = p1
    None = None
    Worker = {w1, w2}
    User = {u1, u2}
    Account = {1, 2}
    Expense = {e1}
    Reservation = {}
    TransferId = {t1}
    Call <- OutflowCalls
    Opening <- MCOpening
    Cost <- MCCost
SYMMETRY Workers
INVARIANTS OnceOnly PaidWithinCost
PROPERTY ImplementsCashLedger
