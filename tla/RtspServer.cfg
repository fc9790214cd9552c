SPECIFICATION FairSpec
CONSTANTS
  MAX_CONN = 2
  MAX_SOCKS = 3
  DEADLINE = 2
  FG = TRUE
  VOLUMES = {30, 50, 100}
  DEFAULT_VOL = 50
  UNITY = 100
  NONE = none
INVARIANTS SocketsOwned NothingInherited
PROPERTIES HandshakeEnds StopsOnTerm
