\* Two orders, so that recoveries and repairs take several rows each; two events
\* delivered any number of times in three webhooks, of the right or another
\* amount, and creations, claims, results, recoveries, retries and repairs by
\* two callers at a time; rows may be lost.
SPECIFICATION TSpec
CONSTANTS
    Orders = {o1, o2}
    Events = {e1, e2}
    Amounts = {price, other}
    Providers = {A}
    Codes = {c1}
    None = None
    RowLoss = TRUE
    Callers = {r1, r2}
    MaxClock = 3
SYMMETRY MCSymmetry
INVARIANTS
    TTypeOK
    StatusAgreement
PROPERTIES
    CreationIsAtomic
    PaymentIsAtomic
    DeliverySideIsAtomic
    DeliveredIsFinal
