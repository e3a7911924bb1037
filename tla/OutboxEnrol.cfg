\* The process may die within the claim of a place.
SPECIFICATION MCOutboxSpec
CONSTANTS
  MaxOps = 5
  BatchLimit = 2
  MaxFaults = 2
  MayRestore = FALSE
  LossyFounding = FALSE
INVARIANT EnrolledHasPlace
CHECK_DEADLOCK FALSE
