SPECIFICATION AnySpec
CONSTANTS
  MaxThread = 4
  ToCreate = 2
  Work = 1
  StackDepth = 4
  TickPoints <- AllTicks
  MaxTicks = 3
  EdgeTicksMax = 5
INVARIANTS
  CodeOnItsStack
  EdgeTicksSafe
