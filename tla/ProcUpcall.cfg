SPECIFICATION Spec
CONSTANTS
  NPROC = 1
  NCPU = 1
  Calls = {"uthread_init"}
  MaxPid = 1
  TickMod = 1
  Durations = {}
  KillArgs = {}
INVARIANTS
  UpcallSkipsYield
