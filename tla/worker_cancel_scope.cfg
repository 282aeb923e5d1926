CONSTANTS
  c1 = c1
  c2 = c2
  a = a
  b = b
  Clients = {c1, c2}
  Worker = Worker
  Names = {a, b}
  None = None
  May <- MayPostCancel
  MaxJobs = 2
  MaxCancels = 1
  LoadMod = 16
SPECIFICATION Spec
PROPERTIES CancelsOnlyItsService
