SPECIFICATION Spec
CONSTANTS
  TableNames = {t1}
  Keys = {k1, k2}
  KeyHash <- HashApart
  EntryIds = {1, 2, 3, 4}
  TableIds = {1, 2}
  Blocks = {0, 1, 2, 3}
  BlockLength = 2
  LenWrap = 100
  MaxSize = 0
  ClearSize = 0
  LruEvery = 1
  Conns = {c1, c2}
  Requests = {"PUT", "GET", "DELETE", "BULK"}
  Lengths = {2}
  Ttls = {}
  MaxTime = 1
  RepeatLength = FALSE
  MaxKeys = 2
  MaxBytes = 10
  SplitHead = FALSE
SYMMETRY Symm
INVARIANTS CountersExact TableRefsExact TableReachable LruExact NoFault
PROPERTY CacheSpec
