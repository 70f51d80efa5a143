SPECIFICATION Spec
CONSTANTS
  Callers = {c1, c2}
  Versions = {1, 2}
  Texts = {t1}
  Empty = Empty
  Legacy = Legacy
  Absent = Absent
  None = None
  Broken = Broken
  Modified = Modified
  Refused = Refused
  MaxEdits = 1
  MaxCrashes = 1
  MaxApplies = 4
SYMMETRY Symmetry
INVARIANTS EditsSurvive Recoverable StatusTruthful
PROPERTIES ContractRespected BaselineByConsent
CHECK_DEADLOCK FALSE
