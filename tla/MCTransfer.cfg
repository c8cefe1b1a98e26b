CONSTANTS
  c1 = c1
  c2 = c2
  None = None
  Clients <- MCClients
  Sizes <- MCSizes
  Outputs = {2}
  Window = 1
  PipeSize = 1
  MaxChildren = 2
  MaxTyped <- MCTyped
SPECIFICATION FairSpec
INVARIANTS AnswersIntact
PROPERTIES OneAnswerComes OneQuitIsSeen
CHECK_DEADLOCK FALSE
