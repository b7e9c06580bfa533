\* Liveness, hence no symmetry: one order, two workers, codes enough; jobs
\* keep within their lease.
SPECIFICATION FairDSpec
CONSTANTS
    Orders = {o1}
    Events = {e1}
    Amounts = {price}
    A = A
    B = B
    a1 = a1
    a2 = a2
    b1 = b1
    b2 = b2
    Providers = {A, B}
    Codes = {a1, a2, b1, b2}
    Keys <- MCAmple
    None = None
    RowLoss = FALSE
    Workers = {w1, w2}
    RetryCount = 1
    Faults = {"timeout", "network", "garble", "crash"}
    Slow = {}
PROPERTIES
    PaidIsDelivered
