SPECIFICATION LinksSpec
CONSTANTS
  Procs = {p1, p2}
  Evidence = {e1}
  Times = {1, 2}
  MaxRows = 2
  r1 = r1
  Receipts = {r1}
  Actions <- SomeActions
  MaxRevisions = 2
  None = None
  Absent = Absent
  Calibrators = {k1}
  FabOutcomes <- JobsAndDelivery
  SommOutcomes <- TwoComparisons
  MaxResults = 1
  NoEvent = NoEvent
  CutLine = CutLine
CHECK_DEADLOCK FALSE
INVARIANTS ClosedHistory
