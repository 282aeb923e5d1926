CONSTANTS
  c1 = c1
  c2 = c2
  a = a
  b = b
  Clients = {c1, c2}
  Worker = Worker
  Names = {a}
  None = None
  May <- MayAll
  MaxJobs = 2
  MaxCancels = 1
  LoadMod = 16
SPECIFICATION FairSpec
PROPERTIES JobsSettle CallsReturn
