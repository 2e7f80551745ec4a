\* More samples in the queue than a batch takes.
SPECIFICATION RolloutSpec
CONSTANTS
  s1 = s1
  s2 = s2
  Sessions = {s1}
  MaxRequests = 3
  PrmM = 1
  QueueCap = 2
  PrmEnabled = TRUE
  RecordEnabled = TRUE
  Disciplined = TRUE
  BatchSize = 1
INVARIANTS
  NoSampleDropped
