SPECIFICATION LiveSpec
CONSTANTS
  None = None
  MaxDepth = 3
  Lexical <- LexicalOrder
  JobJ = JobJ
  AttemptJ2 = AttemptJ2
  SessionK = SessionK
  SessionQ = SessionQ
  CommitB = CommitB
  CommitG = CommitG
  EntryM = EntryM
  EntryD = EntryD
  EntryE = EntryE
  WorkW = WorkW
  WorkW2 = WorkW2
  RevisionV = RevisionV
  EventId <- EventIdOf
  Archives <- Installations
INVARIANTS
  SuppressedByBetter
  AttributionIsExact
  AmountsReconcile
  WindowsAgree
  TraversalIsClosed
  ActivityFindsSessions
  ScansAgree
  ForksAddUp
  
  GateVerdicts
  GivenUpOnlyUnused
  MotifsAreBorneOut
  ChainsAreWhole
  CutsAgree
  ClaimsAreBacked
PROPERTIES
  SuppressionIsFinal
  EvidenceOnlyAdds
CHECK_DEADLOCK FALSE
