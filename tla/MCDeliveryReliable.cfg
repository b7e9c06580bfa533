\* No faults: suppliers answer (with a code, a 503 or out_of_stock) and
\* workers never stop; two orders compete for one code at each supplier.
SPECIFICATION DSpec
CONSTANTS
    Orders = {o1, o2}
    Events = {e1, e2}
    Amounts = {price}
    A = A
    B = B
    a1 = a1
    a2 = a2
    b1 = b1
    b2 = b2
    Providers = {A, B}
    Codes = {a1, a2, b1, b2}
    Keys <- MCScarce
    None = None
    RowLoss = FALSE
    Workers = {w1, w2}
    RetryCount = 2
    Faults = {}
    Slow = {}
SYMMETRY MCSymmetry
INVARIANTS
    NoCodeIssuedInVain
    AtMostOneSupplierIssues
