SPECIFICATION Spec
CONSTANTS
  Parts = {"layouts", "matcher", "fold", "reports", "windows"}
  NoPage = NoPage
  DeepPage = DeepPage
  IDXLIVE = IDXLIVE
  p1 = p1
  p2 = p2
  p3 = p3
  t1 = t1
  NoTable = NoTable
  NoCap = NoCap
  u1 = u1
  u2 = u2
  u3 = u3
  ip1 = ip1
  ip2 = ip2
INVARIANTS AnswersTheQuestion ReportsAgree 
PROPERTIES LaidOutFairly
CHECK_DEADLOCK FALSE
