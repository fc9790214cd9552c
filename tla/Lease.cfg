SPECIFICATION LeaseSpec
CONSTANTS
  SUP_HEARTBEAT_TIMEOUT = 30
  TICK = 5
  ON_DEADLINE = 20
  OFF_DEADLINE = 12
  HEARTBEAT = 10
  LATE = 20
  RELAY = 4
  QUEUE = 2
INVARIANTS NoFalseExpiry DeadLeaseEnds
