SPECIFICATION Spec
CONSTANTS
    Agents = {a1, a2}
    RunIds = {r1}
    FreshIds = {u1}
    Hooks = {h1}
    Subjects = {s1, s2}
    Keys = {k1, k2}
    Short = Short
    Empty = Empty
    Absent = Absent
    c1 = c1
    c2 = c2
    Whitelists <- CommandLists
    Commands = {c1}
    ReceiptIds = {e1}
    Nobody = Nobody
    MaxScan = 1
    MaxHooks = 1
    Recency = 0
    MaxClock = 1
    MaxRevision = 2
    MaxFaults = 1
    MaxOutages = 1
    QuarantineQuota = 1
SYMMETRY Symmetry
CHECK_DEADLOCK FALSE
INVARIANTS
    SingleUse
    AckedRunHolds
    NeverWronglyPending
PROPERTIES
    KeyAssigned
