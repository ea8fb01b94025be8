SPECIFICATION Spec
CONSTANTS
  Entries = {e1, e2}
  KeepFree = 0
  MaxBlocks = 3
  MaxLoad = 2
  Wrap = 100
INVARIANT ValueKept
