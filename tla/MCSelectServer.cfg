SPECIFICATION FairSpec
CONSTANTS
  NumPeers = 3
  MaxConns = 3
  MaxUnread = 1
  NumPipes = 2
  SetSize = 1
INVARIANT SelectSafe
PROPERTIES OneLeaveEndsAll MessagesAreRead ExitReturns
CHECK_DEADLOCK FALSE
