SPECIFICATION Spec
CONSTANTS
    Txs = {t1, t2, t3}
    Epochs = {e1, e2}
    Rows = {r1, r2, r3}
    Compactors = {c1}
    Readers = {p1}
    Root = Root
    Nobody = Nobody
    ReuseRows = FALSE
    MaxFaults = 1
    MaxPowerLosses = 0
INVARIANTS
    ReadersIntact
    Available
PROPERTY
    ImplementsMemory
SYMMETRY Symmetry
CHECK_DEADLOCK FALSE
