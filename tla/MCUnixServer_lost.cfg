SPECIFICATION Spec
CONSTANTS
  s1 = s1
  s2 = s2
  c1 = c1
  c2 = c2
  Server = {s1}
  NoServer = NoServer
  Client = {c1, c2}
  Chatty = {}
  AcceptFails = TRUE
  MaxMsgs = 1
  MaxStarts <- StartBounds
  MaxSignals = 1
CHECK_DEADLOCK FALSE
INVARIANTS
  AllDoneAtExit
