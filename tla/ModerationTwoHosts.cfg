SPECIFICATION Spec
CONSTANTS
  d1 = d1
  d2 = d2
  d3 = d3
  u1 = u1
  u2 = u2
  Ids <- MCIds
  NoId = NoId
  Patrons = {u1, u2}
  Owner <- MCOwner
  Hosts = {h1, h2}
  Submitters = {s1}
  Pollers = {v}
  PENDING_ROOM_MAX = 1
  PENDING_UUID_MAX = 1
  PER_PERSON_CAP = 1
  QUEUE_MAX = 2
  MaxCrashes = 0
INVARIANTS EntersOnce
CHECK_DEADLOCK FALSE
