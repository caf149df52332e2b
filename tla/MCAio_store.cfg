SPECIFICATION Spec
CONSTANTS
  c1 = c1
  c2 = c2
  a1 = a1
  a2 = a2
  Client = {c1, c2}
  Addr = {a1, a2}
  NoId = NoId
  Prepared = TRUE
  MaxTx = 2
  MaxReqs = 2
  MaxRuns = 2
SYMMETRY Symmetric
CHECK_DEADLOCK FALSE
INVARIANTS
  IdKeepsMeaning
  AckedIsDurable
  UpdatesNeedCommit
  EndedOnce
  RInv
PROPERTIES
  KeepsSessions
