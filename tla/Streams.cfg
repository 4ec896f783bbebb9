SPECIFICATION MCSpec
CONSTANTS
  Procs = {1, 2}
  InitProc = 1
  NFILE = 3
  NOFILE = 2
  Pages = {1}
  PIPESIZE = 2
  Wrap = 4
  Bytes = {0, 1}
  Writes <- MCWrites
  Reads = {1}
  Calls = {"pipe", "open", "dup", "close", "fork", "kill", "read", "write"}
INVARIANTS
  TypesOK
  RefsExact
  PipeLife
  ReadersAwake
PROPERTIES
  PipeIsByteStream
  WakeupsComplete
  BlockedReturns
  ConsoleIsLineInput
CHECK_DEADLOCK FALSE
