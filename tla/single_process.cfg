SPECIFICATION Spec
CONSTANTS
  Procs = {p1}
  Requests = {r1, r2, r3}
  Notes = {n1, n2}
  Log = Log
  Audit = Audit
  Sync = Sync
  Absent = Absent
  NoReq = NoReq
  NoProc = NoProc
  Targets = {n1, n2}
  Sources = {n1, n2}
  DryRuns = {TRUE, FALSE}
  MaxSync = 0
  MaxFaults = 0
  MaxCrashes = 0
SYMMETRY Symmetry
INVARIANTS
  AuditExplainsVault
  RefusedLeavesNoTrace
  ProjectionFollowsAudit
  IndexFollowsVault
PROPERTIES
  ImplementsStore
  NoSilentOverwrite
  PromoteNeverOverwrites
