\* Two sessions, a queue of one place, batches of two samples, one sample over.
SPECIFICATION FairRolloutSpec
CONSTANTS
  s1 = s1
  s2 = s2
  Sessions = {s1, s2}
  MaxRequests = 3
  PrmM = 1
  QueueCap = 1
  PrmEnabled = TRUE
  RecordEnabled = TRUE
  Disciplined = TRUE
  BatchSize = 2
INVARIANTS
  RolloutTypeOK
  SampleOnItsWayOnce
  BatchesComplete
PROPERTIES
  PausedBetweenRollouts
  RolloutEnds
  SampleIsTaken
