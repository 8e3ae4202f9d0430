SPECIFICATION Spec
CONSTANTS
  p1 = p1
  p2 = p2
  p3 = p3
  t1 = t1
  Participants <- MCParticipants
  Tables <- MCTables
  NoTable = NoTable
  NoCap = NoCap
  PER_TABLE_CAP = 4
  PER_PERSON_CAP = 1
  LISTEN_CAP_PER_UUID = 3
  Handlers = {h1, h2}
  Songs <- MCSongs
  Opening <- FullOpening
  Modes = {"full-karaoke", "per-person-1"}
  QUEUE_MAX = 2
  MaxSubmits = 2
  MaxSkips = 1
  MaxEdits = 1
SYMMETRY Symmetry
INVARIANTS NoSubmissionLost CapsOvershootBoundedly
PROPERTIES RacesMend
CHECK_DEADLOCK FALSE
