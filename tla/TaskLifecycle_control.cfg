SPECIFICATION FairSpec
CONSTANTS
  Tasks = {t1}
  MaxRuns = 2
  MaxTurns = 3
  MaxCalls = 2
  CheckpointEvery = 1
  NoLoop = NoLoop
INVARIANTS BlockedMeansHeld PausedMeansHeld CancelledNeverCompletes
PROPERTIES StopEndsEveryLoop LoopEndsUnlessHeld ImplementsControlFairly
CHECK_DEADLOCK FALSE
