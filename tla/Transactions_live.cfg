CONSTANTS
    Writers = {w1, w2}
    Txs = {t1}
    Contents = {c1}
    NoWriter = NoWriter
    QuarantineQuota = 1
    CandidateRepairLast = FALSE
    MaxFailures = 1
    MaxOutages = 1
SPECIFICATION FairSpec
PROPERTIES
    Answered
