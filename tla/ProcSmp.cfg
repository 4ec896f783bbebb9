SPECIFICATION MCSpec
CONSTANTS
  NPROC = 3
  NCPU = 2
  Calls = {"fork", "exit", "wait", "sleep", "kill", "fault", "uthread_init"}
  MaxPid = 3
  CallsMaxPid = 2
  TickMod = 3
  Durations = {1}
  KillArgs = {2}
INVARIANTS
  TypeOK
  StacksSafe
  NoLostWakeup
  FamilyIntact
  PanicOnlyForInit
PROPERTIES
  ZombieFinal
