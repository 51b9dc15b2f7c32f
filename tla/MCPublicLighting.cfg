SPECIFICATION FairSpec
CONSTANTS
  Hours = 2
  Minutes = 2
  Weekdays = 2
  Models <- MCModels
  Lamps <- MCLamps
  Daylights = {0, 5}
  Glow = 2
  MaxTime = 4
  MaxEvents = 1
INVARIANTS NoFlicker
PROPERTIES DecidedByPeriods LampsFollow
CHECK_DEADLOCK FALSE
