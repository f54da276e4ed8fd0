SPECIFICATION LinksSpec
CONSTANTS
  Procs = {p1}
  Evidence = {e1, e2}
  Times = {1, 2, 3}
  MaxRows = 4
  r1 = r1
  Receipts = {r1}
  Actions <- SomeActions
  MaxRevisions = 2
  None = None
  Absent = Absent
  Calibrators = {k1, k2}
  FabOutcomes <- JobsAndDelivery
  SommOutcomes <- TwoComparisons
  MaxResults = 2
  NoEvent = NoEvent
  CutLine = CutLine
SYMMETRY Symmetry
CHECK_DEADLOCK FALSE
INVARIANTS ClosedHistory RefutationAnswers FreshEvidence LinearJoins ClaimsNeverContradict ReplaysNeverConflict
PROPERTIES EverActedOnStays
