SPECIFICATION Spec
CONSTANTS
  Procs = {p1}
  Last = 1
  PerAdapter <- OneEach
  Live = {1}
  Policies = {metadata}
  Windows <- NoBounds
  Ailments = {"unreadable"}
  MaxRecords = 1
  MaxEdits = 0
  MaxCrashes = 0
  None = None
INVARIANTS SkipLosesNothing
