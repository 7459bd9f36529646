SPECIFICATION Spec
CONSTANTS
  p1 = p1
  p2 = p2
  Runners = {p1, p2}
  NumTasks = 2
  RetryAfter = 1
  MaxTime = 2
  MaxFaults = 4
  None = None
SYMMETRY RunnerSymmetry
INVARIANTS
  TypeOK
  OneActiveRunner
  CompletionIsBacked
  CurrentIsPending
PROPERTIES
  DeferralKept
  PauseStands
  AttemptStartsClean
  StopsAreRecorded
  LifecycleSpec
