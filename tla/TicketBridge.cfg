SPECIFICATION BFairSpec
CONSTANTS
  Peer = {p1, p2, p3}
  Handler = Handler
  Timer = Timer
  Nobody = Nobody
  NoFile = NoFile
CHECK_DEADLOCK FALSE
INVARIANT FileHasOwner
INVARIANT OneDelivery
INVARIANT PullFindsFile
PROPERTY HandlerAnswers
PROPERTY TicketsEnd
