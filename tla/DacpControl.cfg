SPECIFICATION ControlSpec
CONSTANTS
  Ids = {i1, i2}
  Tokens = {k1}
  Peers = {p1, p2}
  Senders = {ctl, probe}
  Ctl = ctl
  None = none
  MAX_GEN = 3
  QLEN = 1
INVARIANTS PortOfSession SendCoherent
PROPERTIES JoinReturns
CHECK_DEADLOCK FALSE
