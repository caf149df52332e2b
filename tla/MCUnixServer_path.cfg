SPECIFICATION FairSpec
CONSTANTS
  s1 = s1
  s2 = s2
  c1 = c1
  c2 = c2
  Server = {s1, s2}
  NoServer = NoServer
  Client = {c1, c2}
  Chatty = {c1}
  AcceptFails = TRUE
  MaxMsgs = 1
  MaxStarts <- StartBounds
  MaxSignals = 1
CHECK_DEADLOCK FALSE
INVARIANTS
  SInv
  WaitGroupCounts
  StartSucceeds
PROPERTIES
  KeepsService
  SocketTakenByServers
  SignalStartsShutdown
  ShutdownEnds
