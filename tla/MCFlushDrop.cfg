CONSTANTS
  f1 = f1
  f2 = f2
  r1 = r1
  r2 = r2
  r3 = r3
  Run = {r1, r2, r3}
  MaxFaults = 2
  Flusher = {f1, f2}
  MaxCalls = 2
SPECIFICATION Spec
SYMMETRY Interchangeable
INVARIANTS
  DroppedOnlyWhenWritten
CHECK_DEADLOCK FALSE
