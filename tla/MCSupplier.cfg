\* Three orders compete for two keys, over two connections; three requests at
\* a time, of one order or of several.  No symmetry, because of liveness.
SPECIFICATION SSpec
CONSTANTS
    Orders = {o1, o2, o3}
    Requests = {r1, r2, r3}
    KeyCount = 2
    MaxConns = 2
    None = None
INVARIANTS
    STypeOK
    TablesAgree
PROPERTIES
    OutMeansScarce
    ImplementsIssuing
    EveryRequestEnds
