SPECIFICATION Spec
CONSTANTS
  Procs = {p1}
  Requests = {r1, r2}
  Notes = {n1, n2}
  Log = Log
  Audit = Audit
  Sync = Sync
  Absent = Absent
  NoReq = NoReq
  NoProc = NoProc
  Targets = {n1, n2}
  Sources = {n1, n2}
  DryRuns = {FALSE}
  MaxSync = 1
  MaxFaults = 0
  MaxCrashes = 0
PROPERTY
  NoSilentOverwrite
