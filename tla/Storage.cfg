SPECIFICATION MCSpec
CONSTANTS
  Procs = {"p1", "p2"}
  Blocks = {"b1", "b2", "b3", "b4"}
  Values = {0}
  MAXOPBLOCKS = 3
  OpBlocks = 2
  LOGSIZE = 6
  nlog = 6
INVARIANTS
  TypesOK
  ReferencedIsAllocated
  LinksExact
  LocksEnd
  PagesAccounted
  NoPanic
  SpaceReserved
CHECK_DEADLOCK FALSE
