SPECIFICATION FairSpec
CONSTANTS
  Coms = {c1}
  FetchResults <- MCFetch
  Commands = {"start", "stop", "shutdown", "setorder", "sigterm"}
  MaxCmds = 4
  MaxThreads = 6
  Faults = {"poller_init", "air_connect"}
  Patient = TRUE
  c1 = c1
  c2 = c2
INVARIANTS NoCrash
PROPERTIES StopTakesEffect ImplementsBus
CHECK_DEADLOCK FALSE
