\* Recording switched off.
SPECIFICATION StreamingSpec
CONSTANTS
  s1 = s1
  s2 = s2
  Sessions = {s1}
  MaxRequests = 3
  PrmM = 1
  QueueCap = 1
  PrmEnabled = TRUE
  RecordEnabled = FALSE
  Disciplined = TRUE
INVARIANTS
  JudgedOnNextState
