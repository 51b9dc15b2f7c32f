SPECIFICATION Spec
CONSTANTS
  nbharddevice = 2
  HistoryBits = 2
  CounterSize = 1000
  DbFaults = {"insert", "lastconnect", "connect", "times"}
  Crashes = TRUE
  MaxPolls = 2
  MaxClock = 1
  MaxSetBacks = 1
INVARIANTS StatisticsRight ShownConnectedHasValues
CHECK_DEADLOCK FALSE
