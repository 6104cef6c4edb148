SPECIFICATION ReconfigureSpec
CONSTANTS
  Keys = {"token", "port"}
  Secrets = {"token"}
  Sensitive = {"port"}
  Values = {"a", "b"}
  DotenvFirst = {"token"}
  BadValues = {"bad"}
  Absent = "absent"
  Masked = "masked"
  Template <- MCTemplate
  Defaults <- MCDefaults
  Providers = {"p1", "p2"}
  Clients = {q1}
  Admins = {a1, a2}
  Refresh = Refresh
  None = None
  MaxWrites = 2
  MaxObjects = 3
  InitialLayers <- MCInitialLayers
SYMMETRY Symmetry
CHECK_DEADLOCK FALSE
INVARIANTS
  ClosedOnlyInCleanup
  InUseIsUpToDate
PROPERTY
  ChangesWhatWasSent
