CONSTANTS
  r1 = r1
  r2 = r2
  r3 = r3
  a1 = a1
  a2 = a2
  w1 = w1
  w2 = w2
  e1 = e1
  x1 = x1
  x2 = x2
  Run = {r1, r2, r3}
  MaxFaults = 1
  Runtime = {"claude-code", "codex", "openclaw", "sdk"}
  Edit = {e1}
  Process = {"dashboard"}
  Host = {"claude-code", "codex", "openclaw", "sdk"}
  MaxCalls <- CallBound
  HostProc <- ProcBound
  Proc = {w1, w2}
  Attempt = {a1, a2}
  Context = {x1, x2}
  HostPatch <- Pause
SPECIFICATION Spec
SYMMETRY Interchangeable
INVARIANTS
  LocalTypeOK
  LossHasCause
  RecordedOnce
  SavedTargetIsUsable
  OneAttemptAtATime
CHECK_DEADLOCK FALSE
