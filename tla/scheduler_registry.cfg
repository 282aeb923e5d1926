CONSTANTS
  c1 = c1
  c2 = c2
  Clients = {c1, c2}
  PoolSize = 2
  Services = {"a"}
  Types = {"int", "text"}
  None = None
  May <- MayInvoke
  WatchersThrow = FALSE
  MaxCalls = 6
SYMMETRY InterchangeableClients
SPECIFICATION Spec
INVARIANTS WatcherToldOnce NoForgottenWatcher ArgumentsFit UnregisterCancels
PROPERTIES ImplementsDirectory
