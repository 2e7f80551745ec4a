\* Two sessions, each used once by a sequential client; the worker pauses at will.
SPECIFICATION FairSpec
CONSTANTS
  s1 = s1
  s2 = s2
  Sessions = {s1, s2}
  MaxRequests = 3
  PrmM = 3
  QueueCap = 1
  PrmEnabled = TRUE
  RecordEnabled = TRUE
  Disciplined = TRUE
INVARIANTS
  TypeOK
  RewardIsOwnVerdict
  JudgedOnNextState
PROPERTIES
  LifeSpec
  LifePromise
  ClosedSessionSettles
