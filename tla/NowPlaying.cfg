SPECIFICATION DisplayFairSpec
CONSTANTS
  Metas = {m1, m2}
  Covers = {c1, c2}
  Blank = blank
  MAX_OPS = 4
INVARIANTS Settled LightDrawSound
PROPERTIES Shown
