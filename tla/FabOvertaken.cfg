SPECIFICATION LiveSpec
CONSTANTS
  None = None
  MaxDepth = 3
  Lexical <- LexicalOrder
  JobJ = JobJ
  AttemptJ2 = AttemptJ2
  SessionK = SessionK
  SessionQ = SessionQ
  CommitB = CommitB
  CommitG = CommitG
  EntryM = EntryM
  EntryD = EntryD
  EntryE = EntryE
  WorkW = WorkW
  WorkW2 = WorkW2
  RevisionV = RevisionV
  EventId <- EventIdOf
  Archives <- Installations
INVARIANT ReceiptsFirst
CHECK_DEADLOCK FALSE
