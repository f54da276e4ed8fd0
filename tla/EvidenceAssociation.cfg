SPECIFICATION LiveSpec
CONSTANTS
  None = None
  MaxDepth = 3
  Lexical <- LexicalOrder
  EventId <- EventIdOf
  Archives <- Recorded
INVARIANT AssociationAbstains
CHECK_DEADLOCK FALSE
