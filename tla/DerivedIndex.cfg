SPECIFICATION Spec
CONSTANTS
  Procs = {p1, p2}
  Ids = {1, 2}
  Kinds <- MCKinds
  Requests <- MCRequests
  None = None
  MaxRevisions = 2
  MaxFaults = 1
  QuarantineQuota = 1
SYMMETRY Symmetry
INVARIANTS ScanParity BudgetExact
PROPERTY RebuildHeals
CHECK_DEADLOCK FALSE
