\* One session id that is used again and whose requests overlap.
SPECIFICATION StreamingSpec
CONSTANTS
  s1 = s1
  s2 = s2
  Sessions = {s1}
  MaxRequests = 4
  PrmM = 1
  QueueCap = 1
  PrmEnabled = TRUE
  RecordEnabled = TRUE
  Disciplined = FALSE
INVARIANTS
  AtMostOnce
  TrainedOnOwnVerdict
  JudgedSessionContributes
  PendingTurnIsAwaited
PROPERTIES
  LifeSpec
