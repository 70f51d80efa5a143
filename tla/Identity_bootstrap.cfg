CONSTANTS
    Operators = {p1, p2}
    Writers = {w1}
    Identities = {i1, i2}
    Unlinked = Unlinked
    Absent = Absent
    Torn = Torn
    Nobody = Nobody
    QuarantineQuota = 1
    MaxRevision = 2
    MaxFaults = 1
    MaxOutages = 1
SYMMETRY Symmetry
SPECIFICATION Spec
INVARIANTS
    AckedIdentityHolds
    WritesCertified
    RepairResumes
PROPERTIES
    ImplementsAssignment
CHECK_DEADLOCK FALSE
