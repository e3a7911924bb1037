\* Wall clocks only advance, apart from each other; processes end and start again.
SPECIFICATION Spec
CONSTANTS
  NoWrite = NoWrite
  Red = Red
  Green = Green
  Blank = NoWrite
  Element = {Red, Green}
  Device <- Devices
  Cell <- OneCell
  Strategy <- OneStrategy
  Edit <- TwoEdits
  SkewBound = 1
  WallClocks = "forward"
  MayRelaunch = TRUE
  MayFault = FALSE
  MaxOps = 2
  MaxWall = 2
  MaxCount = 2
PROPERTY LocalWriteWins
CHECK_DEADLOCK FALSE
