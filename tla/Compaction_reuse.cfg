SPECIFICATION Spec
CONSTANTS
    Txs = {t1, t2, t3}
    Epochs = {e1}
    Rows = {r1, r2}
    Compactors = {c1}
    Readers = {p1}
    Root = Root
    Nobody = Nobody
    ReuseRows = TRUE
    MaxFaults = 0
    MaxPowerLosses = 0
INVARIANTS
    CurrentReadable
SYMMETRY Symmetry
CHECK_DEADLOCK FALSE
