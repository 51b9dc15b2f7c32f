SPECIFICATION MCFairSpec
CONSTANTS
  lab = lab
  hall = hall
  office = office
  store = store
  a1 = a1
  a2 = a2
  a3 = a3
  s1 = s1
  s2 = s2
  s3 = s3
  r1 = r1
  r2 = r2
  m1 = m1
  m2 = m2
  p1 = p1
  None = None
  Hdtype <- MCHdtype
  DevicesOf <- MCDevicesOf
  Rules <- MCRules
  Rooms = {office, store}
  Hddevices = {m2, a3, s3, r1}
  Known = {m2, a3, s3, r1}
  Routed = {s3}
  Lessons = {"free", "lesson"}
  Motions = {"long"}
  Counts = {0}
  MaxChanges = 1
  MaxFaults = 1
PROPERTIES RoomsSettle
