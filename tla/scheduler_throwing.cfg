CONSTANTS
  c1 = c1
  c2 = c2
  Clients = {c1, c2}
  PoolSize = 2
  Services = {"a"}
  Types = {"int"}
  None = None
  May <- MayAll
  WatchersThrow = TRUE
  MaxCalls = 5
SPECIFICATION FairSpec
INVARIANTS TypeOK WatcherSeesService IteratorsValid
PROPERTIES CallsReturn
