SPECIFICATION Spec
CONSTANTS
  Coms = {c1}
  FetchResults <- MCFetchAnyOrNone
  Commands = {"start", "stop", "restart", "shutdown", "test", "air_control", "setorder", "cmd", "sigterm"}
  MaxCmds = 2
  MaxThreads = 5
  Faults = {"udp_connect", "poller_db", "poller_init", "air_connect"}
  Patient = FALSE
  c1 = c1
  c2 = c2
INVARIANTS TypeOK MutexExclusion FirstFetchPortExclusion NoNullJoin FirstStartJoined
CHECK_DEADLOCK FALSE
