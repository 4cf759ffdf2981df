SPECIFICATION FairSpec
CONSTANTS
  Ids = {1, 2, 3, 4, 5}
  Table <- MCTable
  Junk <- MCJunk
INVARIANTS NoSleepWhenReady CrashIsEarlyOrOpen
PROPERTIES StopNeverReturns SetBeforeStartIsFatal Reacts
CHECK_DEADLOCK FALSE
