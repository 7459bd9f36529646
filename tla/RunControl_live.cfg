SPECIFICATION PromptSpec
CONSTANTS
  p1 = p1
  Runners = {p1}
  NumTasks = 2
  RetryAfter = 1
  MaxTime = 2
  MaxFaults = 3
  None = None
PROPERTIES
  PauseIsHonoured
  RunCompletes
