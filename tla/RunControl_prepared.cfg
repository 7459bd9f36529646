SPECIFICATION Spec
CONSTANTS
  p1 = p1
  Runners = {p1}
  NumTasks = 1
  RetryAfter = 1
  MaxTime = 2
  MaxFaults = 2
  None = None
PROPERTIES
  PreparedKept
