\* Suppliers have no codes: one order fails and is retried for ever, the
\* worker is never idle; expected to be violated.
SPECIFICATION FairDSpec
CONSTANTS
    Orders = {o1, o2}
    Events = {e1, e2}
    Amounts = {price}
    A = A
    B = B
    a1 = a1
    a2 = a2
    b1 = b1
    b2 = b2
    Providers = {A, B}
    Codes = {a1, a2, b1, b2}
    Keys <- MCEmpty
    None = None
    RowLoss = FALSE
    Workers = {w1}
    RetryCount = 1
    Faults = {"crash"}
    Slow = {}
PROPERTIES
    StaleJobIsRecovered
