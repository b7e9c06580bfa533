\* The connection to A breaks after A issued; one attempt at each supplier;
\* expected to be violated: both suppliers issue.
SPECIFICATION DSpec
CONSTANTS
    Orders = {o1}
    Events = {e1}
    Amounts = {price}
    A = A
    B = B
    a1 = a1
    a2 = a2
    b1 = b1
    b2 = b2
    Providers = {A, B}
    Codes = {a1, a2, b1, b2}
    Keys <- MCScarce
    None = None
    RowLoss = FALSE
    Workers = {w1}
    RetryCount = 1
    Faults = {"network"}
    Slow = {}
INVARIANTS
    AtMostOneSupplierIssues
