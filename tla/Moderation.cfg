SPECIFICATION Spec
CONSTANTS
  d1 = d1
  d2 = d2
  d3 = d3
  u1 = u1
  u2 = u2
  Ids <- MCIds
  NoId = NoId
  Patrons = {u1, u2}
  Owner <- MCOwner
  Hosts = {h}
  Submitters = {s1, s2}
  Pollers = {v}
  PENDING_ROOM_MAX = 1
  PENDING_UUID_MAX = 1
  PER_PERSON_CAP = 1
  QUEUE_MAX = 1
  MaxCrashes = 1
SYMMETRY Symmetry
INVARIANTS NoSubmissionLost EntersOnce PendingIsSound
 
CHECK_DEADLOCK FALSE
