\* One fault: a reset that raises is made up for by a replacement.
SPECIFICATION FairSpec
CONSTANTS
  c1 = c1
  c2 = c2
  Clients = {c1, c2}
  MaxEnvs = 2
  MinEnvs = 1
  ResetOnClose = TRUE
  MaxCreated = 4
  MaxLeases = 2
  MaxLost = 1
  MaxFaults = 1
\* The bounded supply of leases runs out: then every client waits for one.
CHECK_DEADLOCK FALSE
PROPERTIES
  ReservedSlotReturns
