SPECIFICATION MCSpec
CONSTANTS
  Slot = {s1, s2}
  Member = {"d1", "d2", "d3"}
  Workspace = "w"
  RootPk = "R"
  IsPreferences = TRUE
  MaxKeyEpoch = 3
  MaxPruneTargets = 2
  MaxOpsPerBatch = 2
  MaxSeq = 14
  MaxCrashes = 1
  Batch <- MCBatch
  Scenes = {"founding", "revoking", "pruning"}
INVARIANTS TypeOK IndexMatchesLog LogInOrder AuthorizedAtPosition PrunesVouched FoundersLearnWhy
PROPERTIES ImplementsChainLog EveryRequestAnswered
CHECK_DEADLOCK FALSE
