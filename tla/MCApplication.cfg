\* One order and one payment event, of the right or another amount; starts,
\* stops, kills, failing repairs and lost answers without limit.  No symmetry,
\* because of liveness.
SPECIFICATION ASpec
CONSTANTS
    Orders = {o1}
    Events = {e1}
    Amounts = {price, cheap}
    Providers = {A}
    Codes = {a1}
    None = None
    RowLoss = TRUE
    MaxOpen = 2
INVARIANTS
    ATypeOK
    AnswersAreTrue
PROPERTIES
    ServiceIsRestored
    MissingJobIsRecreated
    LeftJobIsRecovered
    PaymentIsAccepted
