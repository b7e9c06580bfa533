\* Two orders, three payment events of the right or another amount (in any
\* mix over the two orders), one supplier with two codes; job rows may be lost
\* whenever no worker holds them.
SPECIFICATION Spec
CONSTANTS
    Orders = {o1, o2}
    Events = {e1, e2, e3}
    Amounts = {price, other}
    Providers = {A}
    Codes = {c1, c2}
    None = None
    RowLoss = TRUE
SYMMETRY MCSymmetry
INVARIANTS
    TypeOK
    StatusAgreement
    LedgerAgreement
    AuditClean
    FirstMatchWins
    PaidOrderHasJob
PROPERTIES
    DeliveredIsFinal
    RunningJobIsLeftAlone
    ImplementsLifecycle
