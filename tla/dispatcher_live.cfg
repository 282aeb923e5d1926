CONSTANTS
  c1 = c1
  c2 = c2
  Clients = {c1}
  PoolSize = 2
  Services = {"a"}
  Strands = {"s"}
  None = None
  May <- MayBlock
  MaxJobs = 4
  MaxWalks = 1
  LoadMod = 16
SPECIFICATION FairSpec
INVARIANTS TypeOK StrandAffinity StrandSequential
PROPERTIES JobsRun CallsReturn
