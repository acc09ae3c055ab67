SPECIFICATION YFairSpec
CONSTANTS
  Local = {s1}
  Remote = {}
  ReadCapacity = 1
  AcceptCapacity = 1
  MaxData = 1
  MaxMisused = 1
  NoStream = NoStream
CHECK_DEADLOCK FALSE
PROPERTY SessionCloseReturns
