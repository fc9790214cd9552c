SPECIFICATION FairSpec
CONSTANTS
  MAX_RUNS = 3
  MAX_TERMS = 2
  MAX_FLIPS = 2
INVARIANTS CleanExit WifiFollows NoOrphan
PROPERTIES Ends
CHECK_DEADLOCK FALSE
