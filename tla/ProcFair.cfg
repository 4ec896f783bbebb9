SPECIFICATION FairSpec
CONSTANTS
  NPROC = 3
  NCPU = 1
  Calls = {"fork", "exit", "wait", "kill"}
  MaxPid = 3
  TickMod = 1
  Durations = {}
  KillArgs = {2}
PROPERTIES
  NoStarvation
  KilledDies
  OrphanReaped
