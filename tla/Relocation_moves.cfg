CONSTANTS
    Operators = {p1}
    Writers = {w1}
    Externals = {e1, e2}
    Txs = {t1, t2, t3}
    Nobody = Nobody
    NoPointer = NoPointer
    OneAtATime = TRUE
    KeepNamed = FALSE
    MaxRevision = 2
    MaxFailures = 2
SYMMETRY Symmetry
SPECIFICATION Spec
INVARIANTS
    AuthorityComplete
    AbortLeavesNothing
    OriginEmptied
PROPERTIES
    ImplementsCustody
CHECK_DEADLOCK FALSE
