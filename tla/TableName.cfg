SPECIFICATION Spec
CONSTANTS
  TableNames = {t1}
  Keys = {k1}
  KeyHash <- HashTogether
  EntryIds = {1, 2, 3}
  TableIds = {1, 2}
  Blocks = {0, 1}
  BlockLength = 2
  LenWrap = 100
  MaxSize = 0
  ClearSize = 0
  LruEvery = 1
  Conns = {c1, c2}
  Requests = {"PUT", "GET"}
  Lengths = {3}
  Ttls = {1}
  MaxTime = 3
  RepeatLength = FALSE
  MaxKeys = 1
  MaxBytes = 12
  SplitHead = FALSE
SYMMETRY Symm
INVARIANTS TableNamed
CHECK_DEADLOCK FALSE
