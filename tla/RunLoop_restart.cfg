\* Two sessions, three turns; up to two signals, with in-process restarts.
SPECIFICATION FairSpec
CONSTANTS
  s1 = s1
  s2 = s2
  Main = Main
  Sessions = {s1, s2}
  MaxTurns = 3
  MaxAsked = 3
  MaxConcurrent = 2
  MaxSignals = 2
\* The process may exit, and the bounded supply of turns runs out.
CHECK_DEADLOCK FALSE
INVARIANTS
  LanesConsistent
  NoStrandedEntry
  TurnsOverlapOnlyAfterTimeout
PROPERTIES
  PromiseSpec
  DrainingEnds
  AcceptedTurnsSettle
