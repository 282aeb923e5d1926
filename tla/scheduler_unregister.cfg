CONSTANTS
  c1 = c1
  c2 = c2
  Clients = {c1, c2}
  PoolSize = 1
  Services = {"a"}
  Types = {"int"}
  None = None
  May <- MayQuery
  WatchersThrow = FALSE
  MaxCalls = 5
SPECIFICATION FairSpec
PROPERTIES UnregistrationReturns
CHECK_DEADLOCK FALSE
