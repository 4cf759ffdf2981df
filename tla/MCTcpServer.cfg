SPECIFICATION Spec
CONSTANTS
  NumPeers = 2
  MaxConns = 3
  MaxUnread = 1
  Packets = {p1, p2, p3}
  MaxObjects = 0
  NoPacket = NoPacket
SYMMETRY Symmetry
INVARIANTS QueueTells ClientsAgree
PROPERTY UsesPool
CHECK_DEADLOCK FALSE
