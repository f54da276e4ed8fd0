SPECIFICATION FairBatchSpec
CONSTANTS
  Procs = {p1, p2}
  f1 = f1
  f2 = f2
  c1 = c1
  c2 = c2
  Findings = {f1, f2}
  Contents = {c1, c2}
  Times = {1, 2}
  MaxLines = 2
  Splits = {"partial", "noeol"}
  Faults = {}
  None = None
  Torn = Torn
  Projections <- TwoProjections
PROPERTIES UnreadableIsTransient LockReleased HistoryOnlyGrows NoIdleRevision
CHECK_DEADLOCK FALSE
