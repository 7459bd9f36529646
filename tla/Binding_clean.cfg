SPECIFICATION BindingSpec
CONSTANTS
  Attempts = {a1, a2}
  Commands = {c1, c2}
  Nobody = Nobody
  MaxBindingFaults = 2
INVARIANT CleanMeansUnbound
CHECK_DEADLOCK FALSE
