SPECIFICATION Spec
CONSTANTS
  TableNames = {t1}
  Keys = {k1}
  KeyHash <- HashApart
  EntryIds = {1, 2}
  TableIds = {1, 2}
  Blocks = {0, 1}
  BlockLength = 2
  LenWrap = 100
  MaxSize = 0
  ClearSize = 0
  LruEvery = 1
  Conns = {c1, c2}
  Requests = {"PUT", "DELETE"}
  Lengths = {3}
  Ttls = {}
  MaxTime = 1
  RepeatLength = FALSE
  MaxKeys = 2
  MaxBytes = 6
  SplitHead = FALSE
SYMMETRY Symm
INVARIANTS TableNotNull
CHECK_DEADLOCK FALSE
