SPECIFICATION Spec
CONSTANTS
  Procs = {p1, p2}
  Last = 1
  PerAdapter <- OneEach
  Live = {}
  Policies = {metadata}
  Windows <- OneEachSide
  Ailments = {}
  MaxRecords = 2
  MaxEdits = 1
  MaxCrashes = 0
  None = None
SYMMETRY Symmetry
INVARIANTS TypeOK SkipLosesNothing
PROPERTIES NeverReplaces
