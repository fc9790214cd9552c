SPECIFICATION MCSpec
CONSTANTS
  RBUF_CAP = 3
  MEM_CAP = 4
  MAX_HDR = 4
  MAX_BODY = 5
  MAX_MSGS = 2
  LB_MAX = 2
  READ = 3
  KEY_CAP = 3
  KEY_LENS = {1, 3}
  IV_LEN = 3
  MAX_FRAME = 4
  TITLE = 2
  DAAP_MAX_DEPTH = 1
  HOPS = 2
  DNS_MAX_NAME = 6
  RAOP_NAME_MAX_BYTES = 4
  MaxLen <- MCMaxLen
  NS = 3
  FRAC = 4
  PERIOD = 1
  LATE = 2
  TIMEOUT = 5
  OFFSETS <- MCOffsets
  START = 7
  HORIZON = 15
  DOUBLES = 1
INVARIANTS HandledInOrder PublishedWhole ClockAccurate NotWedged Parsed
PROPERTIES FramingEnds
CHECK_DEADLOCK FALSE
