SPECIFICATION FairSpec
CONSTANTS
  MAX_GEN = 5
  Sups = {s1, s2}
  NoSup = NoSup
  LAUNCH_ATTEMPTS = 2
INVARIANTS NoSurvivor StartSucceeds
PROPERTIES WorkersEnd
CHECK_DEADLOCK FALSE
