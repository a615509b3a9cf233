CONSTANTS
  Clients <- ThisClients
  Answers <- ThisAnswers
  QueueMax = 2
SPECIFICATION Spec
INVARIANTS
  OneAnswer
  WholeAnswer
PROPERTIES
  CompletionEnds
CHECK_DEADLOCK FALSE
