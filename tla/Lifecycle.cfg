SPECIFICATION Spec
CONSTANTS
  Ids = {i1, i2}
  Callers = {c1, c2, c3}
  Contents = {w1}
  Resolvers = {h1}
  Requests <- MCRequests
  Operations = {"add", "supersede"}
  Claims <- MCClaims
  Statuses = {"vigente"}
  None = None
  MaxRevisions = 4
  MaxBatch = 2
SYMMETRY Symmetry
INVARIANTS Readable SilencedByAuthority AnswersHold CheckpointsChain
PROPERTY NeverRevived
CHECK_DEADLOCK FALSE
