SPECIFICATION Spec
CONSTANTS
    Txs = {t1, t2}
    Epochs = {e1}
    Rows = {r1, r2}
    Compactors = {c1}
    Readers = {p1}
    Root = Root
    Nobody = Nobody
    ReuseRows = FALSE
    MaxFaults = 2
    MaxPowerLosses = 1
INVARIANTS
    CurrentReadable
    CleanedHolds
SYMMETRY Symmetry
CHECK_DEADLOCK FALSE
