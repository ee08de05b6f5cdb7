SPECIFICATION SchedulerFairSpec
CONSTANTS
  p1 = p1
  Schedules = {1, 2}
  CronOf <- Minutely
  Asked <- Patient
  Configured = 180
  Passes = {p1}
  Instants <- FewMinutes
  Switched = {2}
INVARIANTS SlotOnce RunAdvances
PROPERTIES DueServed
CHECK_DEADLOCK FALSE
