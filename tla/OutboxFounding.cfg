\* Two devices may found the workspace, and answers get lost.
SPECIFICATION MCOutboxSpec
CONSTANTS
  MaxOps = 5
  BatchLimit = 2
  MaxFaults = 2
  MayRestore = FALSE
  LossyFounding = TRUE
PROPERTY DroppedWereNeverAccepted
CHECK_DEADLOCK FALSE
