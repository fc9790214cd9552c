SPECIFICATION FairSpec
CONSTANTS
  QUEUE_CAP = 2
  Mapped = {next, play}
  Unmapped = {other}
  MAX_SEQ = 6
INVARIANTS OnePerPress
PROPERTIES DownFollows
CHECK_DEADLOCK FALSE
