SPECIFICATION FairClientSpec
CONSTANT MaxUnread = 2
INVARIANT EndsInOrder
PROPERTY StopReturnsWhenHeard
CHECK_DEADLOCK FALSE
