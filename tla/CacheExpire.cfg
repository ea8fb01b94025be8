SPECIFICATION Spec
CONSTANTS
  TableNames = {t1, t2}
  Keys = {k1, k2}
  KeyHash <- HashTogether
  EntryIds = {1, 2, 3}
  TableIds = {1, 2}
  Blocks = {0, 1}
  BlockLength = 2
  LenWrap = 100
  MaxSize = 4
  ClearSize = 2
  LruEvery = 1
  Conns = {c1, c2}
  Requests = {"PUT", "GET", "GC"}
  Lengths = {3}
  Ttls = {1}
  MaxTime = 3
  RepeatLength = FALSE
  MaxKeys = 2
  MaxBytes = 12
  SplitHead = FALSE
SYMMETRY Symm
INVARIANTS CountersExact FilesExact NoFault
PROPERTY GcTrims
CHECK_DEADLOCK FALSE
