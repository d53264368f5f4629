SPECIFICATION Spec
CONSTANTS
  Procs = {p1, p2}
  Requests = {r1, r2}
  Notes = {n1, n2}
  Log = Log
  Audit = Audit
  Sync = Sync
  Absent = Absent
  NoReq = NoReq
  NoProc = NoProc
  Targets = {n1}
  Sources = {n1, Log}
  DryRuns = {FALSE}
  MaxSync = 1
  MaxFaults = 1
  MaxCrashes = 1
SYMMETRY Symmetry
INVARIANTS
  TypeOK
  WorkingHasLoop
  LocksExclusive
  AuditNeverDuplicates
PROPERTIES
  OverwritesOnlyForeign
CHECK_DEADLOCK FALSE
