SPECIFICATION PullSpec
CONSTANTS
  Slot = {s1, s2}
  Member = {"d1", "d2", "d3"}
  Workspace = "w"
  RootPk = "R"
  IsPreferences = TRUE
  MaxKeyEpoch = 3
  MaxPruneTargets = 2
  MaxOpsPerBatch = 2
  MaxSeq = 14
  MaxCrashes = 0
  Batch <- MCBatch
  Scenes = {"founding"}
INVARIANT AppendedIsSweptUp
CHECK_DEADLOCK FALSE
