SPECIFICATION MCSpec
CONSTANTS
  lab = lab
  hall = hall
  office = office
  store = store
  a1 = a1
  a2 = a2
  a3 = a3
  s1 = s1
  s2 = s2
  s3 = s3
  r1 = r1
  r2 = r2
  m1 = m1
  m2 = m2
  p1 = p1
  None = None
  Hdtype <- MCHdtype
  DevicesOf <- MCDevicesOf
  Rules <- MCRules
  Rooms = {lab, hall}
  Hddevices = {a1, a2, m1, p1, s1, s2, r2}
  Known = {a1, a2, m1, p1, s1, s2}
  Routed = {s1}
  Lessons = {"free", "lesson", "self_study"}
  Motions = {"recent", "long"}
  Counts = {0, 2}
  MaxChanges = 1
  MaxFaults = 1
PROPERTIES OffsJustified LessonNeverShut OwnCode
