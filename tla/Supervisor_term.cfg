SPECIFICATION EverydaySpec
CONSTANTS
  MAX_RUNS = 1
  MAX_TERMS = 1
  MAX_FLIPS = 0
INVARIANTS TermExitClean
CHECK_DEADLOCK FALSE
