SPECIFICATION Spec
CONSTANTS
  Participants = {p1, p2}
  Tables = {t1}
  Seated = {p1}
  Listeners = {p1}
  NoTable = NoTable
  NoCap = NoCap
  Videos = {v1, v2}
  PER_TABLE_CAP = 2
  PER_PERSON_CAP = 1
  MaxConsecutiveListen = 1
  MaxSeq = 4
SYMMETRY Symmetry
INVARIANTS TurnsAreInOrder
PROPERTIES CapsHold PeekIsPlay TurnsComeRound
CHECK_DEADLOCK FALSE
