SPECIFICATION Spec
CONSTANTS
  TableNames = {t1}
  Keys = {k1, k2}
  KeyHash <- HashTogether
  EntryIds = {1, 2}
  TableIds = {1, 2}
  Blocks = {0}
  BlockLength = 2
  LenWrap = 100
  MaxSize = 0
  ClearSize = 0
  LruEvery = 1
  Conns = {c1, c2}
  Requests = {"PUT", "GET", "DELETE", "PURGE", "LIST", "DROP", "BULK"}
  Lengths = {1, 3}
  Ttls = {}
  MaxTime = 1
  RepeatLength = TRUE
  MaxKeys = 2
  MaxBytes = 4
  SplitHead = TRUE
SYMMETRY Symm
INVARIANTS TypeOK EntryRefsExact BlocksExact ReadsOwnKey
CHECK_DEADLOCK FALSE
