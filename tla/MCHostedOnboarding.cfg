CONSTANTS
  a1 = a1
  a2 = a2
  f1 = f1
  f2 = f2
  d1 = d1
  d2 = d2
  Account = {a1, a2}
  Flow = {f1, f2}
  Delegate = {d1, d2}
  MaxSwitches = 2
  MaxFailures = 1
  EnvChoice <- Environments
SPECIFICATION Spec
SYMMETRY Interchangeable
INVARIANTS
  HostedTypeOK
  RememberedIsComplete
  CredentialsAreTrue
  PairedMeansSettled
  ConfigWorks
CHECK_DEADLOCK FALSE
