SPECIFICATION MCSpec
CONSTANTS
  Users = {1, 2}
  NBUF = 2
  Blocks = {1, 2, 3}
  Values = {0, 1}
  MaxPinned = 1
INVARIANTS
  TypesOK
  BuffersExact
  QuietIsDurable
PROPERTIES
  CacheIsBlockStore
  RequestsFinish
  AtomicTransactions
  SleeperWoken
CHECK_DEADLOCK FALSE
