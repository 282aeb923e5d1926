CONSTANTS
  c1 = c1
  c2 = c2
  Clients = {c1, c2}
  PoolSize = 2
  Services = {"a"}
  Strands = {"s"}
  None = None
  May <- MayWalk
  MaxJobs = 3
  MaxWalks = 2
  LoadMod = 16
SPECIFICATION Spec
INVARIANTS QuietAfterStop
PROPERTIES ImplementsQueues CancelReachesAllWorkers StopDrainsThePool
