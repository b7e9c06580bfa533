\* Two workers compete for two orders while suppliers have one code each;
\* every fault there is; the jobs of o1 may outlive their lease, so that both
\* workers may end up with one, those of o2 do not; one attempt at a supplier.
SPECIFICATION DSpec
CONSTANTS
    Orders = {o1, o2}
    Events = {e1, e2}
    Amounts = {price}
    A = A
    B = B
    a1 = a1
    a2 = a2
    b1 = b1
    b2 = b2
    Providers = {A, B}
    Codes = {a1, a2, b1, b2}
    Keys <- MCScarce
    None = None
    RowLoss = FALSE
    Workers = {w1, w2}
    RetryCount = 1
    Faults = {"timeout", "network", "garble", "crash"}
    Slow = {o1}
SYMMETRY MCSlowSymmetry
INVARIANTS
    DTypeOK
    DeliveredCodeWasIssued
    NoCodeSoldTwice
    OneWorkerPerJob
PROPERTIES
    DeliveredIsFinal
