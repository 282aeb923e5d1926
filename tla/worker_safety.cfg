CONSTANTS
  c1 = c1
  c2 = c2
  a = a
  b = b
  Clients = {c1, c2}
  Worker = Worker
  Names = {a, b}
  None = None
  May <- MayAll
  MaxJobs = 3
  MaxCancels = 1
  LoadMod = 16
SYMMETRY Interchangeable
SPECIFICATION Spec
INVARIANTS IInv TypeOK NoLostWakeup NoOvertaking StopDrains BlockingCallOutlivesJob LoadDriftBounded LoadExact
PROPERTIES JobLifecycle CancelPassesNoRunningJob ImplementsQueue
