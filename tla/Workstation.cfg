SPECIFICATION WorkstationSpec
CONSTANTS
  Plain = {p1}
  Templated = {t1}
  Retries = 2
  MaxWaiting = 1
  MaxBrokerFaults = 1
  Attempts = {a1, a2}
  Commands = {c1, c2}
  Nobody = Nobody
  MaxBindingFaults = 2
  Uploads = {u1, u2, u3}
  Chunks = 2
  MaxLost = 1
  MaxVersion = 2
  MaxImages = 2
  MaxGenerations = 2
  Prompts = {q1, q2}
  MaxMeddling = 2
  Own = own
  Foreign = {f1}
  Window = 1
  RecoveryWindow = 2
  Fallback = 2
  RetryAfters = {2}
  MaxClock = 3
  MaxRestarts = 1
INVARIANTS
  BrokerSafe
  BindingSafe
  ImagesSafe
  PostedIsTheTask
  OwnTurnOnly
PROPERTIES
  EvaluatorsAreIndexed
  BrokerKeepsContract
  AbandonGetsThrough
  TransfersAreWhole
  RetryAfterRespected
CHECK_DEADLOCK FALSE
