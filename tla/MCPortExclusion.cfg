SPECIFICATION Spec
CONSTANTS
  Coms = {c1}
  FetchResults <- MCFetch
  Commands = {"start", "stop"}
  MaxCmds = 3
  MaxThreads = 5
  Faults = {}
  Patient = TRUE
  c1 = c1
  c2 = c2
INVARIANTS PortExclusion
CHECK_DEADLOCK FALSE
