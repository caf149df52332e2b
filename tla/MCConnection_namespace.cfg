SPECIFICATION ConnectionSpec
CONSTANTS
  p1 = p1
  p2 = p2
  User = User
  Role = Role
  UserRole = UserRole
  Proc = {p1, p2}
  Schema = {User, Role, UserRole}
  Def <- Relations
  Batches <- Together
  Explicit = {1}
  MaxConns = 3
  Mixes <- Calls
  Sorted <- ByName
  Engines <- Drivers
SYMMETRY Symmetric
CHECK_DEADLOCK FALSE
INVARIANTS
  DefaultConnectionExists
  RelationsSetWhenQuiet
  LatestStored
  BridgesRegistered
  NestsOncePerBridge
PROPERTIES
  DisconnectAllClears
  InitCreatesTables
  TablesInOrder
