SPECIFICATION FairSpec
CONSTANTS
  NumPeers = 2
  MaxConns = 3
  MaxUnread = 1
  NumPipes = 2
  MaxFd = 4
INVARIANT EpollSafe
PROPERTIES ResetIsKept ClosesAfterClient DataIsRead
CHECK_DEADLOCK FALSE
