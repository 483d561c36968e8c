SPECIFICATION Spec
CONSTANTS
  h1 = h1  h2 = h2
  Handlers <- TwoHandlers
  Ops <- LifeOps
  PoolSize = 3
  MaxRequests = 2
  MaxCrashes = 1
  Rejections = FALSE
  ShortDelays = FALSE
PROPERTIES EveryTrialCloses
CHECK_DEADLOCK FALSE
