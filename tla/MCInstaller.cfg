SPECIFICATION InstallerFairSpec
CONSTANTS
  a = a
  b = b
  c = c
  d = d
  s = s
  sx = sx
  Paths <- MCPaths
  Versions <- MCVersions
  Ship <- MCShip
  Blocks <- MCBlocks
  None = None
  Cut = Cut
  MAX_FAULTS = 2
  MAX_SWAPS = 2
INVARIANTS ReadyTree
PROPERTIES Recovers
