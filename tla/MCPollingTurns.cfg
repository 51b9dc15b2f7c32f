SPECIFICATION FairSpec
CONSTANTS
  nbharddevice = 2
  HistoryBits = 1
  CounterSize = 2
  DbFaults = {"connect"}
  Crashes = FALSE
  MaxPolls = 2
  MaxClock = 1
  MaxSetBacks = 1
PROPERTIES EveryDevicePolled
CHECK_DEADLOCK FALSE
