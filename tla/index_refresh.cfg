SPECIFICATION Spec
CONSTANTS
  n1 = n1
  w1 = w1
  d1 = d1
  x1 = x1
  Servers = {p1}
  Scripts = {p2}
  Md = {n1, w1, d1}
  Other = {x1}
  Wiki = {w1}
  Denied = {d1}
  ProposeOnly = {w1}
  ProposeElse = {}
  Allowed = {n1, w1, d1}
  Edited = {n1, d1}
  Missing = {d1}
  Place <- MCPlace
  Lists <- MCLists
  Callers = {"admin", "trusted_writer"}
  Texts <- MCTexts
  MaxTexts = 2
  BatchSize = 1
  MAX_RETRIES = 2
  MaxEdits = 1
  MaxJobs = 2
  MaxFaults = 1
CHECK_DEADLOCK FALSE
INVARIANTS
  QuietSuccessIsCurrent
  DonePathsArePrefix
  ChunksOfOneVersion
PROPERTIES
  RowsSeenInJob
  ChunksWereEmbedded
  DeniedStaysOut
  JobsWindDown
