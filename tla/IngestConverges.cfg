SPECIFICATION FairSpec
CONSTANTS
  Procs = {p1}
  Last = 3
  PerAdapter <- LastHasNone
  Live = {1}
  Policies = {metadata}
  Windows <- FromSecond
  Ailments = {"fingerprint", "read"}
  MaxRecords = 2
  MaxEdits = 0
  MaxCrashes = 1
  None = None
INVARIANTS CoverageTells
PROPERTIES Isolated
