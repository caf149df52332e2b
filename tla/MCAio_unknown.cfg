SPECIFICATION Spec
CONSTANTS
  c1 = c1
  c2 = c2
  a1 = a1
  a2 = a2
  Client = {c1}
  Addr = {a1}
  NoId = NoId
  Prepared = TRUE
  MaxTx = 1
  MaxReqs = 2
  MaxRuns = 1
CHECK_DEADLOCK FALSE
PROPERTIES
  UnknownIdRefused
