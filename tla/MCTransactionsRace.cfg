\* One order, one event, two callers; expected to be violated.
SPECIFICATION TSpec
CONSTANTS
    Orders = {o1}
    Events = {e1}
    Amounts = {price}
    Providers = {A}
    Codes = {c1}
    None = None
    RowLoss = FALSE
    Callers = {r1, r2}
    MaxClock = 1
INVARIANTS
    NoPaymentLeftBehind
