CONSTANTS
  f1 = f1
  f2 = f2
  r1 = r1
  r2 = r2
  r3 = r3
  Run = {r1, r2}
  MaxFaults = 2
  Flusher = {f1}
  MaxCalls = 2
SPECIFICATION Spec
PROPERTIES
  SessionsGetSealed
CHECK_DEADLOCK FALSE
