SPECIFICATION Spec
CONSTANTS
  NPROC = 2
  NCPU = 1
  Calls = {"fork", "kill"}
  MaxPid = 3
  TickMod = 1
  Durations = {}
  KillArgs = {0, 2}
INVARIANTS
  KilledWasNamed
