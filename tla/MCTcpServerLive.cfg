SPECIFICATION FairSpec
CONSTANTS
  NumPeers = 1
  MaxConns = 2
  MaxUnread = 1
  Packets = {p1, p2, p3}
  MaxObjects = 1
  NoPacket = NoPacket
PROPERTIES Taken JoinReturns ShutdownEnds
CHECK_DEADLOCK FALSE
