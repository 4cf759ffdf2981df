SPECIFICATION FairPipeSpec
CONSTANTS
  MaxUnread = 8
INVARIANT PipeSafe
PROPERTY OwnServerKeepsIt
CHECK_DEADLOCK FALSE
