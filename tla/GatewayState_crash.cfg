\* A gateway and a command; three acquires, or a delivery, the entries of an
\* earlier gateway and two recovery passes; one restart.
SPECIFICATION Spec
CONSTANTS
  gw = gw
  cli = cli
  m1 = m1
  m2 = m2
  Processes = {gw, cli}
  Gateways = {gw}
  MaxStarts = 1
  MaxAcquires = 3
  MaxTasks = 2
  MaxGrants = 3
  Messages = {m1, m2}
  BestEffort = {m2}
  Observed = {m2}
  MaxRetries = 2
  MaxDeliveries = 1
  MaxPasses = 2
  MaxAttempts = 3
  Nobody = Nobody
\* Both processes may be gone for good, and the bounded work may be done.
CHECK_DEADLOCK FALSE
INVARIANTS
  LocksConsistent
  SingleWriter
  NothingForgotten
  DuplicatesExcused
