\* Two clients on a pool of two, one prewarmed; a response is lost, resets, creations and closes raise.
SPECIFICATION Spec
CONSTANTS
  c1 = c1
  c2 = c2
  Clients = {c1, c2}
  MaxEnvs = 2
  MinEnvs = 1
  ResetOnClose = TRUE
  MaxCreated = 3
  MaxLeases = 3
  MaxLost = 1
  MaxFaults = 2
SYMMETRY ClientSymmetry
\* The bounded supply of leases runs out: then every client waits for one.
CHECK_DEADLOCK FALSE
INVARIANTS
  TypeOK
  LeasesConsistent
  HeldLeaseIsValid
  PoolSize
  AliveIsAccounted
  CallsHitLiveEnvs
  LeasedEnvIsClean
  NoOrphanLease
