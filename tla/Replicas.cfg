\* Wall clocks that are set to anything, that only advance apart from each other, and
\* that agree while processes end and start again, or storage fails.
SPECIFICATION WorldSpec
CONSTANTS
  NoWrite = NoWrite
  Red = Red
  Green = Green
  Blank = NoWrite
  Element = {Red, Green}
  Device <- Devices
  Cell <- AllCells
  Strategy <- AllStrategies
  Edit <- AllEdits
  SkewBound = 0
  WallClocks = "any"
  MayRelaunch = FALSE
  MayFault = FALSE
  MaxOps = 2
  MaxWall = 1
  MaxCount = 1
INVARIANTS TypeOK StateIsJoin Convergence AppliedIsAbsorbed SkewBounded EchoesHeal
PROPERTY LocalWriteWins
CHECK_DEADLOCK FALSE
