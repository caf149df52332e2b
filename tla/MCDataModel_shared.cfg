SPECIFICATION Spec
CONSTANTS
  p1 = p1
  p2 = p2
  m1 = m1
  m2 = m2
  r1 = r1
  r2 = r2
  Proc = {p1, p2}
  Model = {m1}
  Uses <- UsesShared
  AutoIncr <- NoModels
  Row = {r1}
  Docs <- Walkable
  MaxTx = 3
  MaxCalls = 1
  MaxBatch = 2
  MaxStmts = 2
SYMMETRY ProcSymmetry
CHECK_DEADLOCK FALSE
INVARIANTS
  BInv
  SharedAllOrNothing
  BatchesInOrder
  UpdatesDurableOnlyByClient
  TxHoldsOneKind
  CreateTxIsPrivate
  NoNilExec
PROPERTIES
  DeleteNeedsUnlockedRow
  KeepsPromise
