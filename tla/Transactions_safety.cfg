CONSTANTS
    Writers = {w1, w2}
    Txs = {t1, t2}
    Contents = {c1, c2}
    NoWriter = NoWriter
    QuarantineQuota = 1
    CandidateRepairLast = FALSE
    MaxFailures = 1
    MaxOutages = 1
SYMMETRY Symmetry
SPECIFICATION Spec
INVARIANTS
    IndInv
    ExactlyOnce
    OneCandidate
    BaseChangedIsTrue
PROPERTIES
    ImplementsLedger
