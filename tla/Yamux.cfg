SPECIFICATION YFairSpec
CONSTANTS
  Local = {s1}
  Remote = {p1}
  ReadCapacity = 1
  AcceptCapacity = 1
  MaxData = 2
  MaxMisused = 1
  NoStream = NoStream
CHECK_DEADLOCK FALSE
INVARIANTS PeerCannotPanic NoGap NoReaderLeftBehind
PROPERTIES BlockedPushIsFreed CloseStuckOnlyOnRace
