SPECIFICATION Spec
CONSTANTS
  Reqs = {r1, r2}
  r1 = r1
  r2 = r2
  s1 = s1
  s2 = s2
  Keys <- MCKeys
  Messages <- MCMessages
  Setups <- MCSetups
  Cookies = {s1, s2}
  Forged = forged
  Timeout = 1
  MaxTime = 2
  MaxTrouble = 1
  MaxCalls = 3
  DEFAULT_MAX_LINES = 2
SYMMETRY MCSymmetry
INVARIANTS
  EventsTellAnswers
  AnswerTellsTruth
  BackupCovers
  RecentAreNewest
  ErrorsAddUp
  ReportKeepsOldest
PROPERTIES
  AdminPagesNeedLogin
CHECK_DEADLOCK FALSE
