SPECIFICATION Spec
CONSTANTS
  p1 = p1
  p2 = p2
  p3 = p3
  t1 = t1
  Participants <- TrioParticipants
  Tables <- MCTables
  NoTable = NoTable
  NoCap = NoCap
  PER_TABLE_CAP = 4
  PER_PERSON_CAP = 1
  LISTEN_CAP_PER_UUID = 3
  Handlers = {h1}
  Songs <- MCSongs
  Opening <- TrioOpening
  Modes = {"full-karaoke", "per-person-1"}
  QUEUE_MAX = 4
  MaxSubmits = 0
  MaxSkips = 0
  MaxEdits = 0
PROPERTIES AdvancePlaysTheEffectiveHead
CHECK_DEADLOCK FALSE
