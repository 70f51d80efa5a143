CONSTANTS
    Writers = {w1}
    Txs = {t1, t2}
    Contents = {c1, c2}
    NoWriter = NoWriter
    QuarantineQuota = 1
    CandidateRepairLast = FALSE
    MaxFailures = 2
    MaxOutages = 1
SYMMETRY Symmetry
SPECIFICATION Spec
INVARIANTS
    AckedWritesHold
    InspectTruthful
    JournalTruthful
    WatermarkOnHistory
