SPECIFICATION Spec
CONSTANTS
  Coms = {c1, c2}
  FetchResults <- MCFetchEither
  Commands = {"start", "stop", "restart", "setorder"}
  MaxCmds = 2
  MaxThreads = 6
  Faults = {"poller_init"}
  Patient = FALSE
  c1 = c1
  c2 = c2
INVARIANTS ServedByCurrentList
CHECK_DEADLOCK FALSE
