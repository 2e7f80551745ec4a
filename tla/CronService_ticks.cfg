\* A recurring job and a one-shot; two services over one store.
SPECIFICATION Spec
CONSTANTS
  daily = daily
  once = once
  None = None
  Jobs = {daily, once}
  OneShots = {once}
  DeleteAfterRun = {once}
  Stuck = 0
  Backoff = 1
  MaxAttempts = 1
  MaxConcurrent = 1
  MaxServices = 2
  MaxClock = 1
  MaxEvents = 3
\* The clock stops and the calls run out.
CHECK_DEADLOCK FALSE

  
PROPERTIES
  SchedulerAlive
  OneShotOnce
  SlotsNotSkipped
