\* The replacement of a slot that could not be reset cannot be created.
SPECIFICATION FairSpec
CONSTANTS
  c1 = c1
  c2 = c2
  Clients = {c1, c2}
  MaxEnvs = 1
  MinEnvs = 1
  ResetOnClose = TRUE
  MaxCreated = 2
  MaxLeases = 2
  MaxLost = 0
  MaxFaults = 2
\* The bounded supply of leases runs out: then every client waits for one.
CHECK_DEADLOCK FALSE
PROPERTIES
  ReservedSlotReturns
