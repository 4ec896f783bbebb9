SPECIFICATION Spec
CONSTANTS
  MaxThread = 4
  ToCreate = 2
  Work = 2
  StackDepth = 6
  TickPoints <- AllTicks
  MaxTicks = 3
INVARIANTS
  SavedOnOwnStack
