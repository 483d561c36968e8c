SPECIFICATION Spec
CONSTANTS
  h1 = h1  h2 = h2
  Handlers <- TwoHandlers
  Ops <- EditOps
  PoolSize = 3
  MaxRequests = 2
  MaxCrashes = 0
  Rejections = FALSE
  ShortDelays = FALSE
PROPERTIES EveryTrialCloses
CHECK_DEADLOCK FALSE
