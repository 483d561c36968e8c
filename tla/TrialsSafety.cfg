SPECIFICATION Spec
CONSTANTS
  h1 = h1  h2 = h2
  Handlers <- TwoHandlers
  Ops <- AllOps
  PoolSize = 3
  MaxRequests = 3
  MaxCrashes = 1
  Rejections = TRUE
  ShortDelays = TRUE
SYMMETRY HandlerSymmetry
INVARIANTS TypeOK NoTrialForgotten
PROPERTIES OverIsForever PollLostOnlyIfDrifted
CHECK_DEADLOCK FALSE
