SPECIFICATION Spec
CONSTANTS
  p1 = p1
  p2 = p2
  m1 = m1
  m2 = m2
  r1 = r1
  r2 = r2
  Proc = {p1}
  Model = {m1}
  Uses <- UsesShared
  AutoIncr <- NoModels
  Row = {r1}
  Docs <- Walkable
  MaxTx = 2
  MaxCalls = 2
  MaxBatch = 2
  MaxStmts = 1
CHECK_DEADLOCK FALSE
INVARIANTS
  DeleteFollowsUpdate
