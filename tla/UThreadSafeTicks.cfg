SPECIFICATION Spec
CONSTANTS
  MaxThread = 4
  ToCreate = 4
  Work = 2
  StackDepth = 2
  TickPoints <- SafeTicks
  MaxTicks = 6
INVARIANTS
  TypeOK
  CurrentOwnsCpu
  WaitersResumable
  NeverWild
  NoThreadLost
PROPERTIES
  SuspendedUntouched
  Terminates
