SPECIFICATION Spec
CONSTANTS
  Procs = {1, 2}
  Inums = {1, 2}
  Names = {1, 2}
  NINODE = 2
INVARIANTS
  NoInodeLost
CHECK_DEADLOCK FALSE
