CONSTANTS
  FILL = 2
  CHUNK = 2
  PIPE = 3
  BACKOFF_MAX = 1
  SPAWN_MAX = 2
  BUDGET = 2
  MAX_FLUSH = 2
  SPAWN_FAILS = TRUE
SPECIFICATION SessionFairSpec
INVARIANTS Barrier NoUseAfterDestroy
PROPERTIES StopCompletes FreshFlows
