SPECIFICATION Spec
CONSTANTS
  Procs = {p1, p2}
  Callers = {"admin", "readonly_agent"}
  Fragile = {"inbox", "wiki"}
  Others <- MCOthers
  Intents <- MCIntents
  MaxOutside = 1
  MaxFaults = 1
INVARIANTS
  SuccessMeansReady
PROPERTIES
  OnlyFitVaultsChange
  UserFilesSurvive
  CreatedIsAudited
  RetryConverges
